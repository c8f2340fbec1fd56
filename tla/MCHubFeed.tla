----------------------------- MODULE MCHubFeed -----------------------------
(* A small instance of HubFeed: channels of two messages overflow early.   *)
EXTENDS HubFeed, TLC

CONSTANTS p1, p2, d1, d2

TwoServers == {p1, p2}
TwoDashboards == {d1, d2}
SmallCap == 2

\* Dashboards are interchangeable, and so are processes.
Symmetry == Permutations(TwoServers) \union Permutations(TwoDashboards)

=============================================================================
