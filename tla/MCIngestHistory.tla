-------------------------- MODULE MCIngestHistory --------------------------
(* A small instance of IngestHistory for TLC.                              *)
EXTENDS IngestHistory, TLC

CONSTANTS p1, c1, c2, r1, r2, r3, a1, a2, home, other

OneServer == {p1}
NoDashboards == {}
Cap == 1
TwoCameras == {c1, c2}
ThreeRequests == {r1, r2, r3}
TwoActions == {a1, a2}
ThreeEvents == {1, 2, 3}
Orgs == [c \in TwoCameras |-> IF c = c1 THEN home ELSE other]

\* Observed at minute 0 and, within the window of five, at minute 3; the same
\* event id may also come from a camera of another organization.
Body(c, e, m) == [camera |-> c, event |-> e, at |-> m]
Mixed == {Body(c1, 1, 0), Body(c1, 2, 3), Body(c1, 3, 0), Body(c2, 1, 0)}

DatabaseFaults == {"db"}

\* Requests are interchangeable, and so are operator actions.
Symmetry == Permutations(ThreeRequests) \union Permutations(TwoActions)

=============================================================================
