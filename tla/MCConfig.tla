------------------------------ MODULE MCConfig -------------------------------
(* Files of up to three lines, of which some are out of range, beyond the  *)
(* width of a short, without a number, or begin like another.              *)
EXTENDS Config

MCIfaces == {"eth0", "ETH0", "ppp0"}
MCSameName(a, b) == a = b \/ {a, b} = {"eth0", "ETH0"}

Polls == {Setting("PollInterval", Number(45)), Setting("PollInterval", Number(61))}
Updates == {Setting("UpdateInterval", Number(300)), Setting("UpdateInterval", Number(20)),
            Setting("UpdateInterval", Number(65566))}
Saves == {Setting("SaveInterval", Number(4)), Setting("SaveInterval", Number(40))}
Offline == {Setting("OfflineSaveInterval", Number(35))}
Colours == {Setting("CRx", Word(1)), Setting("CRxD", Word(2)), Setting("CRx", NoValue),
            Setting("CRxD", NoValue)}
Limited == {MaxBW("eth0", Number(8)), MaxBW("eth0", Number(0)), MaxBW("ETH0", Number(9)),
            MaxBW("ppp0", Number(65537)), MaxBW(NoName, Number(7)),
            Setting("MaxBandwidth", Number(65536))}
Others == {Setting("MonthRotate", Word(1)), Setting("MonthRotate", Number(29)),
           Setting("QueryMode", Number(40000)), Setting("DatabaseDir", Word(1))}

Given == {Absent, <<>>}
    \cup {<<a, b>> : a \in Polls \cup Others, b \in Updates \cup Others}
    \cup {<<a, b>> : a \in Updates, b \in Saves}
    \cup {<<a, b>> : a \in Saves, b \in Offline \cup Saves}
    \cup {<<a, b>> : a, b \in Colours} \cup {<<a, b>> : a, b \in Limited}
    \cup {<<Setting("CHeaderTitle", NoValue), Setting("CHeaderDate", Word(3))>>}
Second == {Absent, <<Setting("SaveInterval", Number(61)), Setting("MonthRotate", Number(2))>>}

MCContents ==
    [p \in {"--config", "~/.vnstatrc", "/etc/vnstat.conf"} |->
        IF p = "--config" THEN Given ELSE Second]
=============================================================================
