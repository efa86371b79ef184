--------------------------- MODULE MCSerialSource ---------------------------
\* A session number is reused once nothing refers to it.  The latest session
\* (and the recorded status is of that one) and one per writer can be referred
\* to when the next session begins, so three numbers never run out.
EXTENDS SerialSource, TLC

CONSTANTS w1, k1, r1, r2, s1, s2, s3

MCWriters == {w1}
MCWakers == {k1}
MCRawClients == {r1, r2}
MCSessions == {s1, s2, s3}
MCStatuses == {"standby", "operate"}

\* Liveness is checked without symmetry, without button writers.
LiveWriters == {}
LiveRawClients == {r1}
LiveSessions == {s1, s2}
LiveStatuses == {"standby"}

Symmetry == Permutations({r1, r2}) \cup Permutations({s1, s2, s3})
=============================================================================
