---------------------------- MODULE MCVisionOps ----------------------------
(***************************************************************************)
(* A small instance of VisionOps for TLC.  It starts with an open incident *)
(* that two more detections, and an operator, will need: the same one sent *)
(* twice, with every failure, or two different ones, with none.            *)
(***************************************************************************)
EXTENDS VisionOps

CONSTANTS p1, c1, a1, s1, home

OneServer == {p1}
NoDashboards == {}
Cap == 1
OneCamera == {c1}
OneAction == {a1}
OneSub == {s1}
ThreeRequests == {1, 2, 3}
ThreeEvents == {1, 2, 3}

Detection(e) == [camera |-> c1, event |-> e, at |-> 0]
LaterBodies == {Detection(2), Detection(3)}
Orgs == [x \in {1, 2, 3, c1, s1} |-> home]

CrashAndDb == {"crash", "db"}
CrashAndRefuse == {"crash", "refuse"}

-----------------------------------------------------------------------------
(* Starting after the first detection, which all others would join.        *)

OfFirst(x, y) == [r \in Requests |-> IF r = 1 THEN x ELSE y]

\* The state after a detection and its answer: one open incident, and its job,
\* done if there was no subscription, or waiting for the worker if there was.
Begun == \E S \in {{}, Subs} :
    /\ I!HubInit
    /\ joined = OfFirst(1, None)
    /\ incidentStatus = OfFirst("open", "absent")
    /\ last = OfFirst(0, None)
    /\ count = OfFirst(1, 0)
    /\ trail = {}
    /\ handler = OfFirst("replied", "new")
    /\ req = OfFirst(Detection(1), None)
    /\ via = OfFirst(p1, NoServer)
    /\ target = OfFirst(None, None)
    /\ row = OfFirst(None, None)
    /\ reply = OfFirst("accepted", "none")
    /\ step = [a \in Actions |-> "new"]
    /\ task = [a \in Actions |-> None]
    /\ jobStatus = OfFirst(IF S = {} THEN "done" ELSE "pending", "absent")
    /\ attempts = OfFirst(IF S = {} THEN 1 ELSE 0, 0)
    /\ wait = OfFirst(0, 0)
    /\ enabled = S
    /\ rows = OfFirst({}, {})
    /\ worker = [p \in Servers |-> "idle"]
    /\ job = [p \in Servers |-> NoJob]
    /\ tries = [p \in Servers |-> 0]
    /\ todo = [p \in Servers |-> {}]
    /\ dest = [p \in Servers |-> NoSub]
    /\ replaying = {}
    /\ owed = OfFirst(S, {})
    /\ accepted = OfFirst({}, {})
    /\ conn = {}

\* The job of the first detection tells the two starts apart for good.
Crossing == owed[1] # {}

SentTwice == \A r \in Requests : req'[r] # Detection(3)

NothingFails ==
    /\ \A r \in Requests : ~Fail(r)
    /\ \A a \in Actions :
          /\ step'[a] # "failed"
          /\ step'[a] = "announcing" => <<task'[a].incident, task'[a].action>> \in trail'
    /\ \A p \in Servers : worker'[p] \notin {"stopped", "refused"}

BegunNext == Next /\ IF Crossing THEN NothingFails ELSE SentTwice

\* No job has to wait for others that are queued again and again (the one of an event
\* sent twice is alone, and nothing is replayed where nothing fails), so that less
\* fairness is needed than Spec has.
BegunSpec == Begun /\ [][BegunNext]_vars /\ FairnessFor(Requests \ {1})

=============================================================================
