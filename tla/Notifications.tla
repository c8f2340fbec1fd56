--------------------------- MODULE Notifications ---------------------------
(***************************************************************************)
(* What the outbox promises to the rest of VisionOps, with no database, no *)
(* worker and no clock in it: a job is tried a bounded number of times,    *)
(* each try may reach some subscriptions, and a job counts as delivered    *)
(* only when every subscription it was owed to has been reached.  A job    *)
(* given up on can be reopened by hand; a delivered one never moves again. *)
(* Outbox implements this (Outbox!Promise; proved in OutboxProofs).        *)
(***************************************************************************)
EXTENDS Naturals

CONSTANTS Jobs, Subs, MaxAttempts

VARIABLES
    phase,    \* absent, pending, processing, done or dead
    tried,    \* tries begun since the job was accepted or reopened
    due,      \* the subscriptions that must have been reached when it is done
    reached   \* the subscriptions reached so far

vars == <<phase, tried, due, reached>>

Init ==
    /\ phase = [j \in Jobs |-> "absent"]
    /\ tried = [j \in Jobs |-> 0]
    /\ due = [j \in Jobs |-> {}]
    /\ reached = [j \in Jobs |-> {}]

Move(j, from, to) ==
    /\ phase[j] = from
    /\ phase' = [phase EXCEPT ![j] = to]

\* A job is accepted together with the incident it is about.
Accept(j, D) ==
    /\ Move(j, "absent", "pending")
    /\ due' = [due EXCEPT ![j] = D]
    /\ UNCHANGED <<tried, reached>>

Begin(j) ==
    /\ Move(j, "pending", "processing")
    /\ tried[j] < MaxAttempts
    /\ tried' = [tried EXCEPT ![j] = @ + 1]
    /\ UNCHANGED <<due, reached>>

\* A subscription can only be reached while a try is under way.
Reach(j, s) ==
    /\ phase[j] = "processing"
    /\ reached' = [reached EXCEPT ![j] = @ \union {s}]
    /\ UNCHANGED <<phase, tried, due>>

Complete(j) ==
    /\ Move(j, "processing", "done")
    /\ due[j] \subseteq reached[j]
    /\ UNCHANGED <<tried, due, reached>>

TryLater(j) ==
    /\ Move(j, "processing", "pending")
    /\ tried[j] < MaxAttempts
    /\ UNCHANGED <<tried, due, reached>>

GiveUp(j) ==
    /\ Move(j, "processing", "dead")
    /\ tried[j] = MaxAttempts
    /\ UNCHANGED <<tried, due, reached>>

Reopen(j) ==
    /\ Move(j, "dead", "pending")
    /\ tried' = [tried EXCEPT ![j] = 0]
    /\ UNCHANGED <<due, reached>>

Next ==
    \E j \in Jobs :
        \/ \E D \in SUBSET Subs : Accept(j, D)
        \/ Begin(j)
        \/ \E s \in Subs : Reach(j, s)
        \/ Complete(j)
        \/ TryLater(j)
        \/ GiveUp(j)
        \/ Reopen(j)

Spec == Init /\ [][Next]_vars

=============================================================================
