----------------------------- MODULE MCAdapter -----------------------------
(* A small instance of Adapter for TLC. *)
EXTENDS Adapter, TLC

CONSTANTS a1, a2, c1, c2, home, other, gate

\* Two adapters for one camera, as the profiles camera-demo and recorded-demo of
\* docker-compose.yml are, beside a camera of the same name of the seeded tenant.
TwoAdapters == {a1, a2}
TwoCameras == {c1, c2}
DemoCamera == {c2}
Orgs == [x \in TwoAdapters \union TwoCameras |-> IF x = c2 THEN other ELSE home]
Names == [c \in TwoCameras |-> gate]
Gate == [a \in TwoAdapters |-> gate]

Event(ticks) == [after |-> ticks, valid |-> TRUE]
File(m, d, events) == [mode |-> m, disclosed |-> d, events |-> events]

\* A scenario of two events, and files an adapter refuses to start with.
Files ==
    {File("recorded_scenario", TRUE, <<Event(1), Event(0)>>),
     File("recorded_scenario", FALSE, <<Event(0)>>),
     File("fixture", FALSE, <<>>),
     File("fixture", FALSE, <<[after |-> 0, valid |-> FALSE]>>),
     File("live", FALSE, <<Event(0)>>)}

AllFaults == FaultKinds

\* The adapters are interchangeable.
Symmetry == Permutations(TwoAdapters)

=============================================================================
