----------------------------- MODULE MCOutbox -----------------------------
(* Small instances of Outbox for TLC.                                      *)
EXTENDS Outbox

CONSTANTS p1, p2, s1, home

TwoServers == {p1, p2}
OneSub == {s1}
OneJob == {1}
TwoJobs == {1, 2}
NoDashboards == {}
Cap == 8

Orgs == [x \in {1, 2, s1} |-> home]

CrashAndRefuse == {"crash", "refuse"}
Refusals == {"refuse"}

=============================================================================
