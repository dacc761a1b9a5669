---------------------------- MODULE MCWifiShare ----------------------------
\* WifiShare with two devices and a few processes, for TLC.
EXTENDS WifiShare
CONSTANTS m1, m2, a1, g1, j1, j2

TwoMacs   == {m1, m2}
OneLetter == {m2}
OneAdmin  == {a1}
OneGuest  == {g1}
NoGuest   == {}
OneJob    == {j1}
TwoJobs   == {j1, j2}

AccessOnly     == {"allow", "deny"}
CapitalsOnly   == {TRUE}
BothSpellings  == BOOLEAN
BlockAndSwitch == {"block", "switch"}

\* the same mac twice, a mac in another spelling, two macs at once
Capital(m) == [mac |-> m, capital |-> TRUE]
Small(m)   == [mac |-> m, capital |-> FALSE]
SomeLists  == {<<Capital(m1), Capital(m1)>>, <<Small(m1)>>, <<Small(m1), Capital(m2)>>}
NoList     == {}
=============================================================================
