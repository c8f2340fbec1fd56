-------------------------- MODULE MCOutboxFaults --------------------------
(* An instance of Outbox with every fault, for TLC.                        *)
EXTENDS Outbox, TLC

CONSTANTS p1, p2, s1, s2, s3, home, other

TwoServers == {p1, p2}
NoDashboards == {}
Cap == 8
ThreeSubs == {s1, s2, s3}
OneJob == {1}

\* The subscription s3 belongs to another organization than the job.
Orgs == [x \in {1, s1, s2, s3} |-> IF x = s3 THEN other ELSE home]

AllFaults == FaultKinds

\* The processes are interchangeable.
Symmetry == Permutations(TwoServers)

=============================================================================
