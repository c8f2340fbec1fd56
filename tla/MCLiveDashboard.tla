-------------------------- MODULE MCLiveDashboard --------------------------
(* A small instance of LiveDashboard for TLC.                              *)
EXTENDS LiveDashboard

CONSTANTS p1, p2, d1

TwoServers == {p1, p2}
OneDashboard == {d1}
Cap == 1
TwoSlots == {1, 2}
AllFaults == FaultKinds

=============================================================================
