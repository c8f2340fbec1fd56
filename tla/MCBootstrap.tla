---------------------------- MODULE MCBootstrap ----------------------------
(* A small instance of Bootstrap for TLC.                                  *)
EXTENDS Bootstrap

CONSTANTS p1, p2

TwoProcesses == {p1, p2}
TwoRoles == {"admin", "operator"}

=============================================================================
