----------------------------- MODULE MCIngest -----------------------------
(* Small instances of Ingest for TLC.                                      *)
EXTENDS Ingest

CONSTANTS p1, c1, r1, r2, home

OneServer == {p1}
NoDashboards == {}
Cap == 1
OneCamera == {c1}
TwoRequests == {r1, r2}
NoActions == {}
TwoEvents == {1, 2}
Orgs == [c \in OneCamera |-> home]

\* Two detections of the same moment, and one observed nine minutes before
\* another.
Body(e, m) == [camera |-> c1, event |-> e, at |-> m]
Burst == {Body(1, 0), Body(2, 0)}
Late == {Body(1, 9), Body(2, 0)}

NoFaults == {}

=============================================================================
