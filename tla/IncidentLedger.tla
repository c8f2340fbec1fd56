-------------------------- MODULE IncidentLedger --------------------------
(***************************************************************************)
(* What the ingest of detections promises, with no handlers, transactions  *)
(* or locks: a ledger of incidents, in which each event of an organization *)
(* is entered once, under one incident of its own camera, and an incident  *)
(* counts its entries and moves forward only.  Ingest implements it        *)
(* (Ingest!Ledger).                                                        *)
(***************************************************************************)
EXTENDS Naturals

CONSTANTS
    Incidents,
    Cameras,      \* a camera together with the rule it reports
    OrgOf,        \* the organization of each camera
    Events        \* event_id values of producers

VARIABLES
    status,       \* of an incident: absent, open, acknowledged or resolved
    occurrences,  \* what an incident counts
    entries       \* the detections entered, each under its incident

vars == <<status, occurrences, entries>>

Init ==
    /\ status = [i \in Incidents |-> "absent"]
    /\ occurrences = [i \in Incidents |-> 0]
    /\ entries = {}

\* A detection is entered: it opens an incident, or an incident of its camera
\* counts it, resolved meanwhile or not.
Enter(i) ==
    /\ occurrences' = [occurrences EXCEPT ![i] = @ + 1]
    /\ status' = [status EXCEPT ![i] = IF @ = "absent" THEN "open" ELSE @]
    /\ \E c \in Cameras, e \in Events :
          /\ \A x \in entries : x.event = e => OrgOf[x.camera] # OrgOf[c]
          /\ \A x \in entries : x.incident = i => x.camera = c
          /\ entries' = entries \union {[incident |-> i, camera |-> c, event |-> e]}

Move(i, from, to) ==
    /\ status[i] \in from
    /\ status' = [status EXCEPT ![i] = to]
    /\ UNCHANGED <<occurrences, entries>>

\* An operator takes an incident once, and closes it once.
Acknowledge(i) == Move(i, {"open"}, "acknowledged")
Resolve(i) == Move(i, {"open", "acknowledged"}, "resolved")

Next == \E i \in Incidents : Enter(i) \/ Acknowledge(i) \/ Resolve(i)

Spec == Init /\ [][Next]_vars

=============================================================================
