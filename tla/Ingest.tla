------------------------------ MODULE Ingest ------------------------------
(***************************************************************************)
(* Detections becoming incidents (App.ingest) and operators working on     *)
(* them (App.incidentAction), as concurrent HTTP handlers over one         *)
(* PostgreSQL database at READ COMMITTED.  Each statement of a handler is  *)
(* a step, so other handlers run between any two of them; what a           *)
(* transaction wrote is visible to the others only once it commits, and    *)
(* the unique index on events and the row lock of an UPDATE make others    *)
(* wait exactly where PostgreSQL does.                                     *)
(*                                                                         *)
(* Requests are those past authentication, rate limit and validation.  An  *)
(* incident is named after the request that created it.                    *)
(***************************************************************************)
EXTENDS Hub, Integers, FiniteSets

CONSTANTS
    Requests,     \* POST /api/v1/ingest/detections
    Actions,      \* POST /api/v1/incidents/{id}/acknowledge or /resolve
    Cameras,      \* a camera together with the rule it reports
    OrgOf,        \* the organization of each camera
    Events,       \* event_id values of producers
    Bodies,       \* the detections producers may send
    Window,       \* the correlation window (five minutes in the code)
    Faults,       \* which failures the environment may produce
    None

\* "db": a statement or commit fails, or the client goes away and the request's
\* context cancels it; "crash": a process dies.
FaultKinds == {"db", "crash"}

ASSUME NoneAssumption == None \notin Requests
ASSUME WindowAssumption == Window \in Nat
ASSUME BodiesAssumption == Bodies \subseteq [camera : Cameras, event : Events, at : Int]
ASSUME FaultsAssumption == Faults \subseteq FaultKinds

VARIABLES
    \* tables, as committed
    joined,       \* detection_events: the incident a request's detection went to
    status,       \* incidents.status; "absent" without a row
    last,         \* incidents.last_seen_at
    count,        \* incidents.occurrences
    trail,        \* incident_activity rows of operators: <<incident, type>>
    \* locals of the handlers of detections
    pc, req, via, target, row, reply,
    \* locals of the handlers of operator actions
    step, task

tables     == <<joined, status, last, count, trail>>
detectors  == <<pc, req, via, target, row, reply>>
operators  == <<step, task>>
vars == <<hubVars, tables, detectors, operators>>

\* An operator's request.
Tasks == [incident : Requests, action : {"acknowledged", "resolved"}, via : Servers]

Statuses == {"absent", "open", "acknowledged", "resolved"}

\* A request is about to insert its event, look for an incident, write it,
\* commit, broadcast; "new" and "replied" requests hold nothing.
InTransaction == {"selecting", "writing", "committing"}
Steps == {"new", "inserting", "announcing", "replied"} \union InTransaction

TypeOK ==
    /\ joined \in [Requests -> Requests \union {None}]
    /\ status \in [Requests -> Statuses]
    /\ last \in [Requests -> Int \union {None}]
    /\ count \in [Requests -> Nat]
    /\ trail \in SUBSET (Requests \X {"acknowledged", "resolved"})
    /\ pc \in [Requests -> Steps]
    /\ req \in [Requests -> Bodies \union {None}]
    /\ target \in [Requests -> Requests \union {None}]
    /\ via \in [Requests -> Servers \union {NoServer}]
    /\ row \in [Requests -> [last : Int, count : Nat] \union {None}]
    /\ reply \in [Requests -> {"none", "accepted", "duplicate", "failed"}]
    /\ step \in [Actions -> {"new", "logging", "announcing", "done", "conflict", "failed"}]
    /\ task \in [Actions -> Tasks \union {None}]

Init ==
    /\ HubInit
    /\ joined = [r \in Requests |-> None]
    /\ status = [i \in Requests |-> "absent"]
    /\ last = [i \in Requests |-> None]
    /\ count = [i \in Requests |-> 0]
    /\ trail = {}
    /\ pc = [r \in Requests |-> "new"]
    /\ req = [r \in Requests |-> None]
    /\ via = [r \in Requests |-> NoServer]
    /\ target = [r \in Requests |-> None]
    /\ row = [r \in Requests |-> None]
    /\ reply = [r \in Requests |-> "none"]
    /\ step = [a \in Actions |-> "new"]
    /\ task = [a \in Actions |-> None]

-----------------------------------------------------------------------------
(* The database, as a handler sees it.                                     *)

InTx(r) == pc[r] \in InTransaction

\* The key of the unique index on detection_events.
EventKey(r) == <<OrgOf[req[r].camera], req[r].event>>

Committed == {r \in Requests : joined[r] # None}

\* An incident with the organization, camera and rule of request r.
SameCamera(i, r) == req[i].camera = req[r].camera

Unresolved(i) == status[i] \in {"open", "acknowledged"}

\* The committed incidents the select of request r finds ...
Candidates(r) ==
    {i \in Requests :
        /\ Unresolved(i)
        /\ SameCamera(i, r)
        /\ last[i] > req[r].at - Window}

\* ... and those it may return: order by last_seen_at desc limit 1.
Latest(S) == {i \in S : \A k \in S : last[k] <= last[i]}

\* Mutant of RowLocked: occurrences are read and written back without a lock.
RowNeverLocked(i) == FALSE

\* A transaction has updated the row of incident i and not yet ended.
RowLocked(i) == \E r \in Requests : pc[r] = "committing" /\ target[r] = i

-----------------------------------------------------------------------------
(* App.ingest.                                                             *)

Goto(r, where) == pc' = [pc EXCEPT ![r] = where]

\* The handler returns; a transaction it has open is rolled back.
Answer(r, code) ==
    /\ Goto(r, "replied")
    /\ target' = [target EXCEPT ![r] = None]
    /\ row' = [row EXCEPT ![r] = None]
    /\ reply' = [reply EXCEPT ![r] = code]
    /\ UNCHANGED <<req, via>>

\* A valid detection arrives, new or sent again, from a registered camera.
Arrive(r) ==
    /\ pc[r] = "new"
    /\ Goto(r, "inserting")
    /\ \E b \in Bodies : req' = [req EXCEPT ![r] = b]
    /\ \E p \in Servers : via' = [via EXCEPT ![r] = p]
    /\ UNCHANGED <<hubVars, tables, target, row, reply, operators>>

\* Mutants of InsertEvent: events have no unique index, and the handler only
\* looks for an earlier one; and an event still being ingested is answered at
\* once, as if it were safe already.
InsertUnindexedEvent(r) ==
    /\ pc[r] = "inserting"
    /\ IF \E q \in Committed : EventKey(q) = EventKey(r)
       THEN Answer(r, "duplicate")
       ELSE Goto(r, "selecting") /\ UNCHANGED <<req, via, target, row, reply>>
    /\ UNCHANGED <<hubVars, tables, operators>>
InsertEventAtOnce(r) ==
    /\ pc[r] = "inserting"
    /\ IF \E q \in Requests : (InTx(q) \/ q \in Committed) /\ EventKey(q) = EventKey(r)
       THEN Answer(r, "duplicate")
       ELSE Goto(r, "selecting") /\ UNCHANGED <<req, via, target, row, reply>>
    /\ UNCHANGED <<hubVars, tables, operators>>

\* insert into detection_events: waits for a transaction that inserted the
\* same event to end, and fails if it, or an earlier one, committed.
InsertEvent(r) ==
    /\ pc[r] = "inserting"
    /\ ~ \E q \in Requests : InTx(q) /\ EventKey(q) = EventKey(r)
    /\ IF \E q \in Committed : EventKey(q) = EventKey(r)
       THEN Answer(r, "duplicate")
       ELSE Goto(r, "selecting") /\ UNCHANGED <<req, via, target, row, reply>>
    /\ UNCHANGED <<hubVars, tables, operators>>

\* Mutant of SelectIncident: it skips the incidents another handler has locked.
SelectUnlockedIncident(r) ==
    /\ pc[r] = "selecting"
    /\ LET C == {i \in Candidates(r) : ~RowLocked(i)} IN
       target' \in {[target EXCEPT ![r] = i] : i \in IF C = {} THEN {None} ELSE Latest(C)}
    /\ Goto(r, "writing")
    /\ UNCHANGED <<hubVars, tables, req, via, row, reply, operators>>

\* select id from incidents ...: sees what is committed at this moment.
SelectIncident(r) ==
    /\ pc[r] = "selecting"
    /\ target' \in {[target EXCEPT ![r] = i] :
                      i \in IF Candidates(r) = {} THEN {None} ELSE Latest(Candidates(r))}
    /\ Goto(r, "writing")
    /\ UNCHANGED <<hubVars, tables, req, via, row, reply, operators>>

\* insert into incidents, or update ... where id: the update waits for the
\* row's lock and then applies to the row as it is by then, resolved or not.
WriteIncident(r) ==
    /\ pc[r] = "writing"
    /\ target[r] # None => ~RowLocked(target[r])
    /\ row' = [row EXCEPT ![r] =
                 [last |-> req[r].at,
                  count |-> 1 + IF target[r] = None THEN 0 ELSE count[target[r]]]]
    /\ Goto(r, "committing")
    /\ UNCHANGED <<hubVars, tables, req, via, target, reply, operators>>

\* The incident the transaction of request r creates or updates.
Incident(r) == IF target[r] = None THEN r ELSE target[r]

\* Mutants of Publish: a new incident starts in a status nothing else knows;
\* and a detection reopens the incident it joins.
PublishUnknown(r) ==
    LET i == Incident(r) IN
    /\ joined' = [joined EXCEPT ![r] = i]
    /\ status' = [status EXCEPT ![i] = IF target[r] = None THEN "new" ELSE @]
    /\ last' = [last EXCEPT ![i] = row[r].last]
    /\ count' = [count EXCEPT ![i] = row[r].count]
    /\ UNCHANGED trail
PublishReopening(r) ==
    LET i == Incident(r) IN
    /\ joined' = [joined EXCEPT ![r] = i]
    /\ status' = [status EXCEPT ![i] = "open"]
    /\ last' = [last EXCEPT ![i] = row[r].last]
    /\ count' = [count EXCEPT ![i] = row[r].count]
    /\ UNCHANGED trail

Publish(r) ==
    LET i == Incident(r) IN
    /\ joined' = [joined EXCEPT ![r] = i]
    /\ status' = [status EXCEPT ![i] = IF target[r] = None THEN "open" ELSE @]
    /\ last' = [last EXCEPT ![i] = row[r].last]
    /\ count' = [count EXCEPT ![i] = row[r].count]
    /\ UNCHANGED trail

\* The inserts into incident_activity and outbox_jobs and the commit.
Commit(r) ==
    /\ pc[r] = "committing"
    /\ Publish(r)
    /\ Goto(r, "announcing")
    /\ UNCHANGED <<hubVars, req, via, target, row, reply, operators>>

\* The broadcast and the 202.
Accept(r) ==
    /\ pc[r] = "announcing"
    /\ Broadcast(via[r], [type |-> "incident.updated", incident |-> joined[r]])
    /\ Answer(r, "accepted")
    /\ UNCHANGED <<tables, operators>>

\* A statement fails, or the commit does: rolled back, or carried out with
\* only its answer lost.
Fail(r) ==
    /\ "db" \in Faults
    /\ pc[r] \in InTransaction \union {"inserting"}
    /\ \/ UNCHANGED tables
       \/ pc[r] = "committing" /\ Publish(r)
    /\ Answer(r, "failed")
    /\ UNCHANGED <<hubVars, operators>>

-----------------------------------------------------------------------------
(* App.incidentAction.                                                     *)

\* Mutant of Allowed: the update does not look at the status.
AllowedAlways(i, action) == TRUE

Allowed(i, action) ==
    IF action = "acknowledged" THEN status[i] = "open" ELSE status[i] # "resolved"

\* update incidents set status ... where ... status: a transaction of its own.
\* A handler that matched no row answers 409 and is done with its task.
Act(a) ==
    /\ step[a] = "new"
    /\ \E t \in Tasks :
          /\ status[t.incident] # "absent"
          /\ ~RowLocked(t.incident)
          /\ IF Allowed(t.incident, t.action)
             THEN /\ status' = [status EXCEPT ![t.incident] = t.action]
                  /\ step' = [step EXCEPT ![a] = "logging"]
                  /\ task' = [task EXCEPT ![a] = t]
             ELSE /\ step' = [step EXCEPT ![a] = "conflict"]
                  /\ UNCHANGED <<status, task>>
    /\ UNCHANGED <<hubVars, joined, last, count, trail, detectors>>

\* The same, but the handler sees an error: the update was rolled back, or
\* carried out with only its answer lost.
FailAction(a) ==
    /\ "db" \in Faults
    /\ step[a] = "new"
    /\ \E t \in Tasks :
          /\ status[t.incident] # "absent"
          /\ ~RowLocked(t.incident)
          /\ \/ UNCHANGED status
             \/ /\ Allowed(t.incident, t.action)
                /\ status' = [status EXCEPT ![t.incident] = t.action]
    /\ step' = [step EXCEPT ![a] = "failed"]
    /\ UNCHANGED <<hubVars, joined, last, count, trail, detectors, task>>

\* insert into incident_activity, another transaction, its error ignored.
LogAction(a) ==
    /\ step[a] = "logging"
    /\ \/ trail' = trail \union {<<task[a].incident, task[a].action>>}
       \/ "db" \in Faults /\ UNCHANGED trail
    /\ step' = [step EXCEPT ![a] = "announcing"]
    /\ UNCHANGED <<hubVars, joined, status, last, count, detectors, task>>

\* The broadcast and the 200.
FinishAction(a) ==
    /\ step[a] = "announcing"
    /\ Broadcast(task[a].via,
                 [type |-> task[a].action, incident |-> task[a].incident])
    /\ step' = [step EXCEPT ![a] = "done"]
    /\ UNCHANGED <<tables, detectors, task>>

\* The requests process p is serving.
Serving(p) == {r \in Requests : pc[r] \notin {"new", "replied"} /\ via[r] = p}
Performing(p) == {a \in Actions : step[a] \in {"logging", "announcing"} /\ task[a].via = p}

\* A process dies, is shut down, or cuts the requests it is serving: what they
\* had not committed is rolled back, and it serves new ones after its restart.
Crash(p) ==
    /\ "crash" \in Faults
    /\ Serving(p) # {} \/ Performing(p) # {}
    /\ pc' = [r \in Requests |-> IF r \in Serving(p) THEN "replied" ELSE pc[r]]
    /\ target' = [r \in Requests |-> IF r \in Serving(p) THEN None ELSE target[r]]
    /\ row' = [r \in Requests |-> IF r \in Serving(p) THEN None ELSE row[r]]
    /\ reply' = [r \in Requests |-> IF r \in Serving(p) THEN "failed" ELSE reply[r]]
    /\ step' = [a \in Actions |-> IF a \in Performing(p) THEN "failed" ELSE step[a]]
    /\ task' = [a \in Actions |-> IF a \in Performing(p) THEN None ELSE task[a]]
    /\ Drop({d \in Dashboards : server[d] = p})
    /\ UNCHANGED <<tables, req, via>>

\* A dashboard connects, is sent an update or leaves.
Dashboard(d) ==
    /\ \/ \E p \in Servers : Connect(d, p)
       \/ Receive(d)
       \/ Disconnect(d)
    /\ UNCHANGED <<tables, detectors, operators>>

Handle(r) ==
    \/ InsertEvent(r)
    \/ SelectIncident(r)
    \/ WriteIncident(r)
    \/ Commit(r)
    \/ Accept(r)

Respond(a) == LogAction(a) \/ FinishAction(a)

Next ==
    \/ \E r \in Requests : Arrive(r) \/ Handle(r) \/ Fail(r)
    \/ \E a \in Actions : Act(a) \/ FailAction(a) \/ Respond(a)
    \/ \E p \in Servers : Crash(p)
    \/ \E d \in Dashboards : Dashboard(d)

Spec == Init /\ [][Next]_vars

-----------------------------------------------------------------------------
(* Safety.                                                                 *)

\* A producer is never told that a detection is safe when it is not: behind
\* every 202 and every "duplicate" there is a committed detection of the event.
RepliesAreTruthful ==
    \A r \in Requests :
        /\ reply[r] = "accepted" => r \in Committed
        /\ reply[r] = "duplicate" => \E q \in Committed : EventKey(q) = EventKey(r)

Succeeded(a) == step[a] \in {"logging", "announcing", "done"}

\* Of operators racing to take or close the same incident, one succeeds and
\* the others are told of the conflict; the trail never records an action that
\* did not happen.
OneOperatorWins ==
    /\ \A a, b \in Actions :
          /\ Succeeded(a) /\ Succeeded(b)
          /\ task[a].incident = task[b].incident
          /\ task[a].action = task[b].action
          => a = b
    /\ \A e \in trail : status[e[1]] \in {e[2], "resolved"}

\* Ingest keeps the ledger it promises, under the mapping that forgets handlers,
\* locks and times: every event counts once however often and however
\* concurrently it is sent, in one incident of its camera; occurrences are never
\* lost or counted twice; and an incident moves forward only, so that a resolved
\* one stays resolved whatever late detections and slower operators do.
Ledger == INSTANCE IncidentLedger WITH
    Incidents <- Requests,
    occurrences <- count,
    entries <- {[incident |-> joined[r], camera |-> req[r].camera, event |-> req[r].event] :
                  r \in Committed}

KeepsLedger == Ledger!Spec

-----------------------------------------------------------------------------
(* What the documents say of correlation, and the code does not guarantee. *)

\* "Repeated same camera/rule inside five minutes | one Incident with
\* increased occurrence count" (docs/TEST-STRATEGY.md:33): no two unresolved
\* incidents of one camera and rule were last seen within the window of each
\* other.  Two transactions that select before either commits create two.
OneIncidentPerBurst ==
    \A i, k \in Requests :
        /\ i # k
        /\ Unresolved(i) /\ Unresolved(k)
        /\ SameCamera(i, k)
        => last[i] - last[k] >= Window \/ last[k] - last[i] >= Window

\* "An Incident is only correlated with open or acknowledged Incidents ...
\* within five minutes" (docs/PRODUCT.md:47).  The select bounds last_seen_at
\* from below only, so a detection observed long before the incident was last
\* seen joins it and moves last_seen_at back.  (This is the half about the five
\* minutes.  The other does not hold either: the update names the incident by id
\* alone, so one that is resolved after the select takes the detection.)
CorrelatesAsDocumented ==
    [][\A i \in Requests :
         count[i] > 0 /\ count'[i] > count[i] =>
            /\ last'[i] - last[i] < Window
            /\ last[i] - last'[i] < Window]_count

=============================================================================
