--------------------------- MODULE IngestProofs ---------------------------
(***************************************************************************)
(* Proofs about Ingest, for any number of processes, requests, operator    *)
(* actions and cameras, any detections, any window and any choice of       *)
(* faults.                                                                 *)
(***************************************************************************)
EXTENDS IngestHistory, TLAPS

USE DEF InTransaction, Steps, Statuses, InTx

-----------------------------------------------------------------------------
(* Typing.                                                                 *)

\* What a handler's program counter says of its locals.
Locals ==
    /\ \A r \in Requests :
        /\ pc[r] # "new" => req[r] \in Bodies /\ via[r] \in Servers
        /\ pc[r] = "committing" => row[r] \in [last : Int, count : Nat]
    /\ \A a \in Actions : Succeeded(a) => task[a] \in Tasks

Typing == TypeOK /\ Locals

LEMMA TypingInit == Init => Typing
  BY DEF Init, Typing, TypeOK, Locals, Succeeded

\* The row a transaction publishes has its types.
LEMMA PublishTyping ==
  ASSUME Typing, NEW r \in Requests, pc[r] = "committing", Publish(r)
  PROVE  /\ joined' \in [Requests -> Requests \union {None}]
         /\ status' \in [Requests -> Statuses]
         /\ last' \in [Requests -> Int \union {None}]
         /\ count' \in [Requests -> Nat]
         /\ trail' = trail
  <1>. USE DEF Typing, TypeOK, Locals
  <1>1. Incident(r) \in Requests
    BY DEF Incident
  <1>2. row[r].last \in Int /\ row[r].count \in Nat
    OBVIOUS
  <1>. QED
    BY <1>1, <1>2 DEF Publish

LEMMA TypingStep == Typing /\ [Next]_vars => Typing'
  <1>. SUFFICES ASSUME Typing, [Next]_vars PROVE Typing'
    OBVIOUS
  <1>. USE DEF Typing, TypeOK, Locals, Succeeded, tables, detectors, operators
  <1>1. ASSUME NEW r \in Requests, Arrive(r) PROVE Typing'
    BY <1>1 DEF Arrive, Goto
  <1>2. ASSUME NEW r \in Requests, InsertEvent(r) PROVE Typing'
    BY <1>2 DEF InsertEvent, Answer, Goto
  <1>3. ASSUME NEW r \in Requests, SelectIncident(r) PROVE Typing'
    BY <1>3 DEF SelectIncident, Candidates, Latest, Goto
  <1>4. ASSUME NEW r \in Requests, WriteIncident(r) PROVE Typing'
    <2>1. req[r].at \in Int
      BY <1>4, BodiesAssumption DEF WriteIncident
    <2>2. 1 + (IF target[r] = None THEN 0 ELSE count[target[r]]) \in Nat
      OBVIOUS
    <2>. QED
      BY <1>4, <2>1, <2>2 DEF WriteIncident, Goto
  <1>5. ASSUME NEW r \in Requests, Commit(r) PROVE Typing'
    BY <1>5, PublishTyping DEF Commit, Goto
  <1>6. ASSUME NEW r \in Requests, Accept(r) PROVE Typing'
    BY <1>6 DEF Accept, Answer, Goto
  <1>7. ASSUME NEW r \in Requests, Fail(r) PROVE Typing'
    BY <1>7, PublishTyping DEF Fail, Answer, Goto
  <1>8. ASSUME NEW a \in Actions, Act(a) PROVE Typing'
    <2>1. PICK t \in Tasks :
            IF Allowed(t.incident, t.action)
            THEN /\ status' = [status EXCEPT ![t.incident] = t.action]
                 /\ step' = [step EXCEPT ![a] = "logging"]
                 /\ task' = [task EXCEPT ![a] = t]
            ELSE /\ step' = [step EXCEPT ![a] = "conflict"]
                 /\ UNCHANGED <<status, task>>
      BY <1>8 DEF Act
    <2>2. t.incident \in Requests /\ t.action \in Statuses
      BY DEF Tasks
    <2>3. UNCHANGED <<joined, last, count, trail, detectors>>
      BY <1>8 DEF Act
    <2>4. CASE Allowed(t.incident, t.action)
      <3>1. status' \in [Requests -> Statuses] /\ task' \in [Actions -> Tasks \union {None}]
        BY <2>1, <2>2, <2>4
      <3>2. step' = [step EXCEPT ![a] = "logging"]
        BY <2>1, <2>4
      <3>3. \A b \in Actions : Succeeded(b)' => task'[b] \in Tasks
        BY <2>1, <2>4, <3>2
      <3>. QED
        BY <2>3, <3>1, <3>2, <3>3
    <2>5. CASE ~Allowed(t.incident, t.action)
      BY <1>8, <2>1, <2>3, <2>5 DEF Act
    <2>. QED
      BY <2>4, <2>5
  <1>9. ASSUME NEW a \in Actions, FailAction(a) PROVE Typing'
    BY <1>9 DEF FailAction, Tasks
  <1>10. ASSUME NEW a \in Actions, LogAction(a) PROVE Typing'
    BY <1>10 DEF LogAction, Tasks
  <1>11. ASSUME NEW a \in Actions, FinishAction(a) PROVE Typing'
    BY <1>11 DEF FinishAction
  <1>12. ASSUME NEW p \in Servers, Crash(p) PROVE Typing'
    BY <1>12 DEF Crash, Serving, Performing
  <1>13. ASSUME NEW d \in Dashboards, Dashboard(d) PROVE Typing'
    BY <1>13 DEF Dashboard
  <1>14. CASE UNCHANGED vars
    BY <1>14 DEF vars
  <1>. QED
    BY <1>1, <1>2, <1>3, <1>4, <1>5, <1>6, <1>7, <1>8, <1>9, <1>10, <1>11, <1>12,
       <1>13, <1>14
    DEF Next, Handle, Respond

\* The variables of ingest always have their types.
THEOREM TypeCorrect == Spec => []TypeOK
  <1>1. Typing => TypeOK
    BY DEF Typing
  <1>. QED
    BY <1>1, TypingInit, TypingStep, PTL DEF Spec

-----------------------------------------------------------------------------
(* The books: what the tables say of each other and of open transactions.   *)

\* A committed detection is under an incident of its own camera that exists.
Placed ==
    \A r \in Committed :
        /\ pc[r] \in {"announcing", "replied"}
        /\ status[joined[r]] # "absent"
        /\ SameCamera(joined[r], r)

\* An incident exists once the request it is named after has joined it, and
\* counts nothing before.
Founded ==
    \A i \in Requests :
        IF status[i] = "absent" THEN count[i] = 0 ELSE joined[i] = i

\* The incident a transaction found exists and is of its camera, and the row it
\* wrote counts one more than the table; no one else can change that until it
\* commits, because no two transactions have written the same row.
Targeted ==
    /\ \A r \in Requests :
        pc[r] \in {"writing", "committing"} /\ target[r] # None =>
            status[target[r]] # "absent" /\ SameCamera(target[r], r)
    /\ \A r \in Requests :
        pc[r] = "committing" =>
            row[r].count = 1 + IF target[r] = None THEN 0 ELSE count[target[r]]
    /\ \A q, r \in Requests :
        /\ pc[q] = "committing" /\ pc[r] = "committing"
        /\ target[q] = target[r] /\ target[r] # None
        => q = r

\* The unique index: a transaction's event is in no other transaction and is not
\* committed.
EventExclusive ==
    \A q, r \in Requests :
        InTx(r) /\ (InTx(q) \/ q \in Committed) /\ EventKey(q) = EventKey(r) => q = r

Consistent == Placed /\ Founded /\ Targeted /\ EventExclusive

Books == Typing /\ Consistent

LEMMA BooksInit == Init => Books
  <1>. SUFFICES ASSUME Init PROVE Books
    OBVIOUS
  <1>1. Typing
    BY TypingInit
  <1>2. Placed /\ Founded /\ Targeted /\ EventExclusive
    BY DEF Init, Placed, Founded, Targeted, EventExclusive, Committed
  <1>. QED
    BY <1>1, <1>2 DEF Books, Consistent

\* A transaction that founds an incident finds nothing in its row.
LEMMA FoundsFresh ==
  ASSUME Books, NEW r \in Requests, InTx(r)
  PROVE  joined[r] = None /\ status[r] = "absent" /\ count[r] = 0
  <1>1. joined[r] = None
    BY DEF Books, Consistent, Placed, Committed
  <1>2. status[r] = "absent"
    BY <1>1, NoneAssumption DEF Books, Consistent, Founded
  <1>. QED
    BY <1>1, <1>2 DEF Books, Consistent, Founded

\* Publishing what a transaction wrote keeps the books, whatever becomes of its
\* handler afterwards.
LEMMA PublishStep ==
  ASSUME Books, NEW r \in Requests, pc[r] = "committing", Publish(r),
         NEW where \in {"announcing", "replied"}, pc' = [pc EXCEPT ![r] = where],
         UNCHANGED req,
         \A q \in Requests \ {r} : target'[q] = target[q] /\ row'[q] = row[q]
  PROVE  Consistent'
  <1>. DEFINE i == Incident(r)
  <1>. USE DEF Books, Consistent, Typing, TypeOK
  <1>1. i \in Requests /\ i # None
    BY NoneAssumption DEF Incident
  <1>2. joined[r] = None /\ status[r] = "absent" /\ count[r] = 0
    BY FoundsFresh
  <1>3. /\ joined' = [joined EXCEPT ![r] = i]
        /\ status' = [status EXCEPT ![i] = IF target[r] = None THEN "open" ELSE @]
        /\ count' = [count EXCEPT ![i] = row[r].count]
    BY DEF Publish
  <1>4. status'[i] # "absent" /\ SameCamera(i, r)
    BY <1>1, <1>3 DEF Incident, Targeted, SameCamera
  <1>5. \A k \in Requests : status[k] # "absent" => status'[k] = status[k]
    BY <1>1, <1>2, <1>3 DEF Incident, Targeted
  <1>6. \A k \in Requests \ {i} : status'[k] = status[k] /\ count'[k] = count[k]
    BY <1>1, <1>3
  <1>7. Committed' = Committed \union {r}
    BY <1>1, <1>3 DEF Committed
  <1>8. Placed'
    BY <1>1, <1>2, <1>3, <1>4, <1>5, <1>7 DEF Placed, Committed, SameCamera
  <1>9. Founded'
    <2>1. joined'[i] = i
      BY <1>1, <1>3 DEF Incident, Targeted, Founded
    <2>. SUFFICES ASSUME NEW k \in Requests \ {i}
                  PROVE  IF status'[k] = "absent" THEN count'[k] = 0 ELSE joined'[k] = k
      BY <1>4, <2>1 DEF Founded
    <2>2. CASE k = r
      BY <1>2, <1>6, <2>2
    <2>3. CASE k # r
      BY <1>3, <1>6, <2>3 DEF Founded
    <2>. QED
      BY <2>2, <2>3
  <1>10. Targeted'
    <2>1. \A q \in Requests : pc'[q] \in {"writing", "committing"} =>
            q # r /\ pc[q] = pc'[q] /\ target'[q] = target[q] /\ row'[q] = row[q]
      OBVIOUS
    <2>2. \A q \in Requests : pc'[q] = "committing" /\ target[q] # None => target[q] # i
      BY <1>2, <2>1 DEF Incident, Targeted
    <2>. QED
      BY <1>5, <1>6, <2>1, <2>2 DEF Targeted, SameCamera
  <1>11. EventExclusive'
    BY <1>7 DEF EventExclusive, EventKey
  <1>. QED
    BY <1>8, <1>9, <1>10, <1>11 DEF Consistent

LEMMA BooksStep == Books /\ [Next]_vars => Books'
  <1>. SUFFICES ASSUME Books, [Next]_vars PROVE Books'
    OBVIOUS
  <1>0. Typing'
    BY TypingStep DEF Books
  <1>. SUFFICES Consistent'
    BY <1>0 DEF Books
  <1>. USE DEF Books, Typing, TypeOK, Consistent, tables, detectors, operators
  <1>1. ASSUME NEW r \in Requests, Arrive(r) PROVE Consistent'
    BY <1>1 DEF Arrive, Goto, Placed, Founded, Targeted, EventExclusive, EventKey,
                Committed, SameCamera
  <1>2. ASSUME NEW r \in Requests, InsertEvent(r) PROVE Consistent'
    <2>1. /\ UNCHANGED <<joined, status, count, req>>
          /\ \A q \in Requests \ {r} : pc'[q] = pc[q] /\ target'[q] = target[q] /\ row'[q] = row[q]
          /\ pc[r] = "inserting" /\ pc'[r] \in {"selecting", "replied"}
      BY <1>2 DEF InsertEvent, Answer, Goto
    <2>2. pc'[r] = "selecting" =>
            \A q \in Requests : InTx(q) \/ q \in Committed => EventKey(q) # EventKey(r)
      BY <1>2 DEF InsertEvent, Answer, Goto
    <2>3. Placed' /\ Founded' /\ Targeted'
      BY <2>1 DEF Placed, Founded, Targeted, Committed, SameCamera
    <2>4. EventExclusive'
      BY <2>1, <2>2 DEF EventExclusive, EventKey, Committed
    <2>. QED
      BY <2>3, <2>4
  <1>3. ASSUME NEW r \in Requests, SelectIncident(r) PROVE Consistent'
    <2>1. PICK i \in IF Candidates(r) = {} THEN {None} ELSE Latest(Candidates(r)) :
            target' = [target EXCEPT ![r] = i]
      BY <1>3 DEF SelectIncident
    <2>2. i # None => i \in Requests /\ status[i] # "absent" /\ SameCamera(i, r)
      BY DEF Latest, Candidates, Unresolved
    <2>. QED
      BY <1>3, <2>1, <2>2 DEF SelectIncident, Goto, Placed, Founded, Targeted,
            EventExclusive, EventKey, Committed, SameCamera
  <1>4. ASSUME NEW r \in Requests, WriteIncident(r) PROVE Consistent'
    BY <1>4 DEF WriteIncident, RowLocked, Goto, Placed, Founded, Targeted, EventExclusive,
                EventKey, Committed, SameCamera
  <1>5. ASSUME NEW r \in Requests, Commit(r) PROVE Consistent'
    BY <1>5, PublishStep DEF Commit, Goto
  <1>6. ASSUME NEW r \in Requests, Accept(r) PROVE Consistent'
    BY <1>6 DEF Accept, Answer, Goto, Placed, Founded, Targeted, EventExclusive, EventKey,
                Committed, SameCamera
  <1>7. ASSUME NEW r \in Requests, Fail(r) PROVE Consistent'
    <2>1. CASE UNCHANGED tables
      BY <1>7, <2>1 DEF Fail, Answer, Goto, Placed, Founded, Targeted, EventExclusive,
                EventKey, Committed, SameCamera
    <2>2. CASE pc[r] = "committing" /\ Publish(r)
      BY <1>7, <2>2, PublishStep DEF Fail, Answer, Goto
    <2>. QED
      BY <1>7, <2>1, <2>2 DEF Fail
  <1>8. ASSUME NEW a \in Actions, Act(a) \/ FailAction(a) PROVE Consistent'
    <2>1. \A i \in Requests : status'[i] = "absent" <=> status[i] = "absent"
      <3>1. status' = status \/
            \E t \in Tasks : /\ status[t.incident] # "absent"
                             /\ status' = [status EXCEPT ![t.incident] = t.action]
        BY <1>8 DEF Act, FailAction
      <3>2. \A t \in Tasks : t.incident \in Requests /\ t.action # "absent"
        BY DEF Tasks
      <3>. QED
        BY <3>1, <3>2
    <2>2. UNCHANGED <<joined, count, pc, req, target, row>>
      BY <1>8 DEF Act, FailAction
    <2>. QED
      BY <2>1, <2>2 DEF Placed, Founded, Targeted, EventExclusive, EventKey, Committed,
            SameCamera
  <1>9. ASSUME NEW p \in Servers, Crash(p) PROVE Consistent'
    BY <1>9 DEF Crash, Serving, Placed, Founded, Targeted, EventExclusive, EventKey,
                Committed, SameCamera
  <1>10. ASSUME \/ \E a \in Actions : Respond(a)
                \/ \E d \in Dashboards : Dashboard(d)
                \/ UNCHANGED vars
         PROVE  Consistent'
    <2>1. UNCHANGED <<joined, status, count, pc, req, target, row>>
      BY <1>10 DEF Respond, LogAction, FinishAction, Dashboard, vars
    <2>. QED
      BY <2>1 DEF Placed, Founded, Targeted, EventExclusive, EventKey, Committed,
            SameCamera
  <1>. QED
    BY <1>1, <1>2, <1>3, <1>4, <1>5, <1>6, <1>7, <1>8, <1>9, <1>10 DEF Next, Handle

-----------------------------------------------------------------------------
(* What producers are told.                                                *)

\* A reply is the last thing a handler does; a handler about to accept has
\* committed.
Told ==
    \A r \in Requests :
        /\ reply[r] # "none" => pc[r] = "replied"
        /\ pc[r] = "announcing" => r \in Committed

\* Detections are never taken back, and one that arrived does not change.
LEMMA CommittedGrows ==
  ASSUME Books, [Next]_vars, NEW r \in Requests
  PROVE  /\ r \in Committed => r \in Committed' /\ UNCHANGED EventKey(r)
         /\ pc[r] # "new" => pc'[r] # "new" /\ UNCHANGED EventKey(r)
  <1>. USE DEF Books, Typing, TypeOK, tables, detectors
  <1>1. \A q \in Requests : Publish(q) => joined' = [joined EXCEPT ![q] = Incident(q)]
                                       /\ Incident(q) # None
    BY NoneAssumption DEF Publish, Incident
  <1>2. \/ UNCHANGED joined
        \/ \E q \in Requests : joined' = [joined EXCEPT ![q] = Incident(q)]
                                 /\ Incident(q) # None
    BY <1>1, Zenon DEF Next, Handle, Respond, Arrive, InsertEvent, SelectIncident, WriteIncident, Commit,
           Accept, Fail, Act, FailAction, LogAction, FinishAction, Crash, Dashboard, vars,
           tables
  <1>3. r \in Committed => r \in Committed'
    BY <1>2 DEF Committed
  <1>4. pc[r] # "new" => pc'[r] # "new" /\ req'[r] = req[r]
    <2>1. ASSUME NEW q \in Requests, Arrive(q) \/ Handle(q) \/ Fail(q), pc[r] # "new"
          PROVE  pc'[r] # "new" /\ req'[r] = req[r]
      BY <2>1 DEF Handle, Arrive, InsertEvent, SelectIncident, WriteIncident, Commit, Accept,
                  Fail, Answer, Goto
    <2>2. ASSUME NEW p \in Servers, Crash(p), pc[r] # "new"
          PROVE  pc'[r] # "new" /\ req'[r] = req[r]
      BY <2>2 DEF Crash
    <2>3. ASSUME \/ \E a \in Actions : Act(a) \/ FailAction(a) \/ Respond(a)
                 \/ \E d \in Dashboards : Dashboard(d)
                 \/ UNCHANGED vars
          PROVE  UNCHANGED <<pc, req>>
      BY <2>3 DEF Act, FailAction, Respond, LogAction, FinishAction, Dashboard, vars
    <2>. QED
      BY <2>1, <2>2, <2>3 DEF Next
  <1>5. r \in Committed => pc[r] # "new"
    BY DEF Consistent, Placed
  <1>. QED
    BY <1>3, <1>4, <1>5 DEF EventKey

LEMMA ToldStep ==
  Books /\ Told /\ RepliesAreTruthful /\ [Next]_vars => (Told /\ RepliesAreTruthful)'
  <1>. SUFFICES ASSUME Books, Told, RepliesAreTruthful, [Next]_vars, NEW r \in Requests
                PROVE  (/\ reply[r] # "none" => pc[r] = "replied"
                        /\ pc[r] = "announcing" => r \in Committed
                        /\ reply[r] = "accepted" => r \in Committed
                        /\ reply[r] = "duplicate" =>
                             \E q \in Committed : EventKey(q) = EventKey(r))'
    BY DEF Told, RepliesAreTruthful
  <1>. USE DEF Books, Typing, TypeOK, tables, detectors
  <1>. DEFINE Duplicate == \E q \in Committed : EventKey(q) = EventKey(r)
  <1>1. pc[r] # "new" /\ Duplicate => Duplicate'
    BY CommittedGrows DEF Committed
  <1>2. CASE pc'[r] = pc[r] /\ reply'[r] = reply[r]
    BY <1>1, <1>2, CommittedGrows DEF Told, RepliesAreTruthful
  <1>3. CASE \/ Arrive(r) \/ SelectIncident(r) \/ WriteIncident(r)
    BY <1>3, CommittedGrows DEF Arrive, SelectIncident, WriteIncident, Goto, Told
  <1>4. CASE InsertEvent(r)
    BY <1>1, <1>4, CommittedGrows DEF InsertEvent, Answer, Goto, Told
  <1>5. CASE Commit(r)
    <2>1. r \in Committed'
      BY <1>5, NoneAssumption DEF Commit, Publish, Incident, Committed
    <2>. QED
      BY <1>5, <2>1 DEF Commit, Goto, Told
  <1>6. CASE Accept(r)
    BY <1>6, CommittedGrows DEF Accept, Answer, Goto, Told
  <1>7. CASE Fail(r)
    BY <1>7 DEF Fail, Answer, Goto
  <1>8. ASSUME NEW p \in Servers, Crash(p), r \in Serving(p)
        PROVE  reply'[r] = "failed" /\ pc'[r] = "replied"
    BY <1>8 DEF Crash
  <1>9. ASSUME NEW p \in Servers, Crash(p), r \notin Serving(p)
        PROVE  pc'[r] = pc[r] /\ reply'[r] = reply[r]
    BY <1>9 DEF Crash
  <1>10. ASSUME NEW q \in Requests \ {r}, Arrive(q) \/ Handle(q) \/ Fail(q)
         PROVE  pc'[r] = pc[r] /\ reply'[r] = reply[r]
    BY <1>10 DEF Arrive, Handle, InsertEvent, SelectIncident, WriteIncident, Commit, Accept,
                 Fail, Answer, Goto
  <1>11. ASSUME \/ \E a \in Actions : Act(a) \/ FailAction(a) \/ Respond(a)
                \/ \E d \in Dashboards : Dashboard(d)
                \/ UNCHANGED vars
         PROVE  pc'[r] = pc[r] /\ reply'[r] = reply[r]
    BY <1>11 DEF Act, FailAction, Respond, LogAction, FinishAction, Dashboard, vars
  <1>. QED
    BY <1>2, <1>3, <1>4, <1>5, <1>6, <1>7, <1>8, <1>9, <1>10, <1>11 DEF Next, Handle

\* A 202 or a "duplicate" always has a committed detection of the event behind it.
THEOREM RepliesCorrect == Spec => []RepliesAreTruthful
  <1>1. Init => Told /\ RepliesAreTruthful
    BY DEF Init, Told, RepliesAreTruthful
  <1>. QED
    BY <1>1, BooksInit, BooksStep, ToldStep, PTL DEF Spec

-----------------------------------------------------------------------------
(* Operators.                                                              *)

\* The update of an operator that succeeded is still there to be seen.
Lasting ==
    \A a \in Actions :
        Succeeded(a) => status[task[a].incident] \in {task[a].action, "resolved"}

\* Publishing gives a status to a new incident only.
LEMMA PublishedStatus ==
  ASSUME Books, NEW r \in Requests, pc[r] = "committing", Publish(r), NEW i \in Requests
  PROVE  status'[i] = status[i] \/ (status[i] = "absent" /\ status'[i] = "open")
  <1>1. status[r] = "absent"
    BY FoundsFresh
  <1>. QED
    BY <1>1 DEF Books, Consistent, Typing, TypeOK, Publish, Incident

\* What an operator's update does to an incident, if it does anything.
Decided(i) ==
    \/ status[i] = "open" /\ status'[i] = "acknowledged"
    \/ status[i] \in {"open", "acknowledged"} /\ status'[i] = "resolved"

LEMMA ActStatus ==
  ASSUME Books, NEW t \in Tasks, status[t.incident] # "absent",
         Allowed(t.incident, t.action), status' = [status EXCEPT ![t.incident] = t.action],
         NEW i \in Requests
  PROVE  IF i = t.incident THEN Decided(i) /\ status'[i] = t.action ELSE status'[i] = status[i]
  BY DEF Books, Typing, TypeOK, Tasks, Allowed, Decided

\* The status of an incident changes by its creation or by an operator only.
LEMMA StatusMoves ==
  ASSUME Books, [Next]_vars, NEW i \in Requests
  PROVE  \/ status'[i] = status[i]
         \/ status[i] = "absent" /\ status'[i] = "open"
         \/ Decided(i)
  <1>1. ASSUME NEW r \in Requests, Commit(r) \/ Fail(r)
        PROVE  status'[i] = status[i] \/ (status[i] = "absent" /\ status'[i] = "open")
    <2>1. UNCHANGED status \/ (pc[r] = "committing" /\ Publish(r))
      BY <1>1 DEF Commit, Fail, tables
    <2>. QED
      BY <2>1, PublishedStatus
  <1>2. ASSUME NEW a \in Actions, Act(a) \/ FailAction(a)
        PROVE  status'[i] = status[i] \/ Decided(i)
    <2>1. \/ UNCHANGED status
          \/ \E t \in Tasks : /\ status[t.incident] # "absent"
                              /\ Allowed(t.incident, t.action)
                              /\ status' = [status EXCEPT ![t.incident] = t.action]
      BY <1>2 DEF Act, FailAction
    <2>. QED
      BY <2>1, ActStatus
  <1>3. ASSUME \/ \E r \in Requests : \/ Arrive(r) \/ InsertEvent(r) \/ SelectIncident(r)
                                      \/ WriteIncident(r) \/ Accept(r)
               \/ \E a \in Actions : Respond(a)
               \/ \E p \in Servers : Crash(p)
               \/ \E d \in Dashboards : Dashboard(d)
               \/ UNCHANGED vars
        PROVE  UNCHANGED status
    BY <1>3 DEF Arrive, InsertEvent, SelectIncident, WriteIncident, Accept, Respond,
                LogAction, FinishAction, Crash, Dashboard, vars, tables
  <1>. QED
    BY <1>1, <1>2, <1>3 DEF Next, Handle

LEMMA OperatorsStep ==
  Books /\ Lasting /\ OneOperatorWins /\ [Next]_vars => (Lasting /\ OneOperatorWins)'
  <1>. SUFFICES ASSUME Books, Lasting, OneOperatorWins, [Next]_vars
                PROVE  Lasting' /\ OneOperatorWins'
    OBVIOUS
  <1>. USE DEF Books, Typing, TypeOK, Locals, Succeeded
  <1>1. \A i \in Requests : /\ status[i] = "resolved" => status'[i] = "resolved"
                            /\ status[i] = "acknowledged" =>
                                 status'[i] \in {"acknowledged", "resolved"}
    BY StatusMoves DEF Decided
  <1>2. \A t \in Tasks : /\ t.incident \in Requests
                         /\ t.action \in {"acknowledged", "resolved"}
    BY DEF Tasks
  <1>3. ASSUME NEW e \in trail PROVE status'[e[1]] \in {e[2], "resolved"}
    <2>1. e[1] \in Requests /\ e[2] \in {"acknowledged", "resolved"}
      OBVIOUS
    <2>2. status[e[1]] \in {e[2], "resolved"}
      BY DEF OneOperatorWins
    <2>. QED
      BY <1>1, <2>1, <2>2
  <1>4. ASSUME \A a \in Actions : Succeeded(a)' => Succeeded(a) /\ task'[a] = task[a],
               \A e \in trail' : status'[e[1]] \in {e[2], "resolved"}
        PROVE  Lasting' /\ OneOperatorWins'
    BY <1>1, <1>2, <1>4 DEF Lasting, OneOperatorWins
  <1>5. ASSUME NEW a \in Actions, Act(a) PROVE Lasting' /\ OneOperatorWins'
    <2>1. UNCHANGED trail
      BY <1>5 DEF Act
    <2>2. PICK t \in Tasks :
            /\ status[t.incident] # "absent"
            /\ IF Allowed(t.incident, t.action)
               THEN /\ status' = [status EXCEPT ![t.incident] = t.action]
                    /\ step' = [step EXCEPT ![a] = "logging"]
                    /\ task' = [task EXCEPT ![a] = t]
               ELSE /\ step' = [step EXCEPT ![a] = "conflict"]
                    /\ UNCHANGED <<status, task>>
      BY <1>5 DEF Act
    <2>3. CASE ~Allowed(t.incident, t.action)
      BY <1>3, <1>4, <2>1, <2>2, <2>3
    <2>4. CASE Allowed(t.incident, t.action)
      <3>1. status[t.incident] \notin {t.action, "resolved"} /\ status'[t.incident] = t.action
        BY <1>2, <2>2, <2>4 DEF Allowed
      <3>2. \A b \in Actions \ {a} : Succeeded(b)' => Succeeded(b) /\ task'[b] = task[b]
        BY <2>2, <2>4
      <3>3. task'[a] = t
        BY <2>2, <2>4
      <3>4. Lasting'
        BY <1>1, <1>2, <3>1, <3>2, <3>3 DEF Lasting
      <3>5. \A b \in Actions \ {a} :
              Succeeded(b) /\ task[b].incident = t.incident => task[b].action # t.action
        BY <1>2, <3>1 DEF Lasting
      <3>. QED
        BY <1>3, <2>1, <3>2, <3>3, <3>4, <3>5 DEF OneOperatorWins
    <2>. QED
      BY <2>3, <2>4
  <1>6. ASSUME NEW a \in Actions, LogAction(a) PROVE Lasting' /\ OneOperatorWins'
    <2>1. UNCHANGED <<status, task>> /\ step' = [step EXCEPT ![a] = "announcing"]
      BY <1>6 DEF LogAction
    <2>2. \A e \in trail' : e \in trail \/ e = <<task[a].incident, task[a].action>>
      BY <1>6 DEF LogAction
    <2>3. status[task[a].incident] \in {task[a].action, "resolved"}
      BY <1>6 DEF LogAction, Lasting
    <2>4. \A e \in trail' : status'[e[1]] \in {e[2], "resolved"}
      BY <1>3, <2>1, <2>2, <2>3
    <2>. QED
      BY <1>4, <1>6, <2>1, <2>4 DEF LogAction
  <1>7. ASSUME NEW a \in Actions, FailAction(a) \/ FinishAction(a)
        PROVE  Lasting' /\ OneOperatorWins'
    BY <1>3, <1>4, <1>7 DEF FailAction, FinishAction, tables
  <1>8. ASSUME NEW p \in Servers, Crash(p) PROVE Lasting' /\ OneOperatorWins'
    BY <1>3, <1>4, <1>8 DEF Crash, tables
  <1>9. ASSUME \/ \E r \in Requests : Arrive(r) \/ Handle(r) \/ Fail(r)
               \/ \E d \in Dashboards : Dashboard(d)
               \/ UNCHANGED vars
        PROVE  Lasting' /\ OneOperatorWins'
    <2>1. UNCHANGED <<step, task, trail>>
      BY <1>9 DEF Arrive, Handle, InsertEvent, SelectIncident, WriteIncident, Commit, Publish,
                  Accept, Fail, Dashboard, vars, tables, operators
    <2>. QED
      BY <1>3, <1>4, <2>1
  <1>. QED
    BY <1>5, <1>6, <1>7, <1>8, <1>9 DEF Next, Respond

\* Of operators racing for an incident one wins, and the trail is of actions
\* that happened.
THEOREM OperatorsCorrect == Spec => []OneOperatorWins
  <1>1. Init => Lasting /\ OneOperatorWins
    BY DEF Init, Lasting, OneOperatorWins, Succeeded
  <1>. QED
    BY <1>1, BooksInit, BooksStep, OperatorsStep, PTL DEF Spec

-----------------------------------------------------------------------------
(* Ingest implements IncidentLedger.                                       *)

\* What the ledger has of a committed detection.
Entry(r) ==
    [incident |-> joined[r], camera |-> req[r].camera, event |-> req[r].event]

Entries == {Entry(r) : r \in Committed}

LEMMA LedgerInit == Init => Ledger!Init
  BY DEF Init, Ledger!Init, Committed

\* A transaction that commits enters its detection.
LEMMA PublishEnters ==
  ASSUME Books, NEW r \in Requests, pc[r] = "committing", Publish(r), UNCHANGED req
  PROVE  Ledger!Next
  <1>. DEFINE c == req[r].camera
              e == req[r].event
  <1>. USE DEF Books, Consistent, Typing, TypeOK, Locals
  <1>1. PICK own \in Requests : own = Incident(r) /\ own # None
    BY NoneAssumption DEF Incident
  <1>2. joined[r] = None /\ status[r] = "absent" /\ count[r] = 0
    BY FoundsFresh
  <1>3. /\ joined' = [joined EXCEPT ![r] = own]
        /\ status' = [status EXCEPT ![own] = IF target[r] = None THEN "open" ELSE @]
        /\ count' = [count EXCEPT ![own] = row[r].count]
    BY <1>1 DEF Publish
  <1>4. c \in Cameras /\ e \in Events
    BY BodiesAssumption
  <1>5. count' = [count EXCEPT ![own] = @ + 1]
    <2>1. row[r].count = count[own] + 1
      BY <1>1, <1>2 DEF Incident, Targeted
    <2>. QED
      BY <1>1, <1>3, <2>1
  <1>6. status' = [status EXCEPT ![own] = IF @ = "absent" THEN "open" ELSE @]
    BY <1>1, <1>2, <1>3 DEF Incident, Targeted
  <1>7. Entries' = Entries \union {[incident |-> own, camera |-> c, event |-> e]}
    <2>1. Committed' = Committed \union {r}
      BY <1>1, <1>3 DEF Committed
    <2>2. Entry(r)' = [incident |-> own, camera |-> c, event |-> e]
      BY <1>1, <1>3 DEF Entry
    <2>3. \A q \in Committed : Entry(q)' = Entry(q)
      BY <1>2, <1>3 DEF Entry, Committed
    <2>. QED
      BY <2>1, <2>2, <2>3 DEF Entries
  <1>8. ASSUME NEW x \in Entries, x.event = e PROVE OrgOf[x.camera] # OrgOf[c]
    <2>1. PICK q \in Committed : x = Entry(q)
      BY DEF Entries
    <2>2. q \in Requests /\ q # r
      BY <1>2 DEF Committed
    <2>3. EventKey(q) # EventKey(r)
      BY <2>2 DEF EventExclusive
    <2>. QED
      BY <1>8, <2>1, <2>3 DEF EventKey, Entry
  <1>9. ASSUME NEW x \in Entries, x.incident = own PROVE x.camera = c
    <2>1. PICK q \in Committed : x = Entry(q)
      BY DEF Entries
    <2>2. q \in Requests /\ joined[q] = own /\ SameCamera(own, q)
      BY <1>9, <2>1 DEF Committed, Entry, Placed
    <2>3. status[own] # "absent"
      BY <2>1, <2>2 DEF Placed
    <2>4. SameCamera(own, r)
      BY <1>1, <1>2, <2>3 DEF Incident, Targeted
    <2>. QED
      BY <2>1, <2>2, <2>4 DEF Entry, SameCamera
  <1>10. Ledger!Enter(own)
    <2>1. /\ \A x \in Entries : x.event = e => OrgOf[x.camera] # OrgOf[c]
          /\ \A x \in Entries : x.incident = own => x.camera = c
          /\ Entries' = Entries \union {[incident |-> own, camera |-> c, event |-> e]}
      BY <1>7, <1>8, <1>9
    <2>. QED
      BY <1>4, <1>5, <1>6, <2>1, Zenon DEF Ledger!Enter, Entries, Entry
  <1>. QED
    BY <1>1, <1>10 DEF Ledger!Next

LEMMA LedgerStep == Books /\ [Next]_vars => [Ledger!Next]_Ledger!vars
  <1>. SUFFICES ASSUME Books, [Next]_vars
                PROVE  Ledger!Next \/ UNCHANGED <<status, count, Entries>>
    BY DEF Ledger!vars, Entries, Entry
  <1>. USE DEF Books, Typing, TypeOK, tables, detectors, operators
  <1>1. ASSUME NEW r \in Requests, Commit(r) \/ Fail(r)
        PROVE  Ledger!Next \/ UNCHANGED <<status, count, Entries>>
    <2>1. UNCHANGED req /\ (UNCHANGED tables \/ (pc[r] = "committing" /\ Publish(r)))
      BY <1>1 DEF Commit, Fail, Answer
    <2>. QED
      BY <2>1, PublishEnters DEF Entries, Entry, Committed
  <1>2. ASSUME NEW a \in Actions, Act(a) \/ FailAction(a)
        PROVE  Ledger!Next \/ UNCHANGED <<status, count, Entries>>
    <2>1. UNCHANGED <<count, joined, req>>
      BY <1>2 DEF Act, FailAction
    <2>2. UNCHANGED Entries
      BY <2>1 DEF Entries, Entry, Committed
    <2>3. \/ UNCHANGED status
          \/ \E t \in Tasks : /\ status[t.incident] # "absent"
                              /\ Allowed(t.incident, t.action)
                              /\ status' = [status EXCEPT ![t.incident] = t.action]
      BY <1>2 DEF Act, FailAction
    <2>4. ASSUME NEW t \in Tasks, status[t.incident] # "absent",
                 Allowed(t.incident, t.action),
                 status' = [status EXCEPT ![t.incident] = t.action]
          PROVE  Ledger!Acknowledge(t.incident) \/ Ledger!Resolve(t.incident)
      <3>1. t.incident \in Requests /\ t.action \in {"acknowledged", "resolved"}
        BY DEF Tasks
      <3>2. CASE t.action = "acknowledged"
        BY <2>1, <2>2, <2>4, <3>1, <3>2
        DEF Allowed, Ledger!Acknowledge, Ledger!Move, Entries, Entry
      <3>3. CASE t.action = "resolved"
        BY <2>1, <2>2, <2>4, <3>1, <3>3
        DEF Allowed, Ledger!Resolve, Ledger!Move, Entries, Entry
      <3>. QED
        BY <3>1, <3>2, <3>3
    <2>5. \A t \in Tasks : t.incident \in Requests
      BY DEF Tasks
    <2>. QED
      BY <2>1, <2>2, <2>3, <2>4, <2>5 DEF Ledger!Next
  <1>3. ASSUME NEW r \in Requests, Arrive(r) PROVE UNCHANGED <<status, count, Entries>>
    <2>1. r \notin Committed
      BY <1>3 DEF Arrive, Consistent, Placed
    <2>2. UNCHANGED tables /\ \A q \in Requests \ {r} : req'[q] = req[q]
      BY <1>3 DEF Arrive
    <2>. QED
      BY <2>1, <2>2 DEF Entries, Entry, Committed
  <1>4. ASSUME \/ \E r \in Requests : \/ InsertEvent(r) \/ SelectIncident(r)
                                      \/ WriteIncident(r) \/ Accept(r)
               \/ \E a \in Actions : Respond(a)
               \/ \E p \in Servers : Crash(p)
               \/ \E d \in Dashboards : Dashboard(d)
               \/ UNCHANGED vars
        PROVE  UNCHANGED <<status, count, Entries>>
    <2>1. UNCHANGED <<joined, status, count, req>>
      BY <1>4 DEF InsertEvent, SelectIncident, WriteIncident, Accept, Answer, Respond,
                  LogAction, FinishAction, Crash, Dashboard, vars
    <2>. QED
      BY <2>1 DEF Entries, Entry, Committed
  <1>. QED
    BY <1>1, <1>2, <1>3, <1>4 DEF Next, Handle

\* Every behaviour of ingest is one its ledger allows.
THEOREM LedgerKept == Spec => KeepsLedger
  <1>. QED
    BY BooksInit, BooksStep, LedgerInit, LedgerStep, PTL DEF Spec, KeepsLedger, Ledger!Spec

-----------------------------------------------------------------------------
(* Correlation.                                                            *)

\* A transaction that found no incident has passed none over.
PassedNoneOver ==
    \A r \in Requests :
        pc[r] \in {"writing", "committing"} /\ target[r] = None => match[r] = {}

LEMMA HistoryRefines == [HistoryNext]_historyVars => [Next]_vars
  BY DEF HistoryNext, historyVars

LEMMA PassedNoneOverStep ==
  Books /\ PassedNoneOver /\ [HistoryNext]_historyVars => PassedNoneOver'
  <1>. SUFFICES ASSUME Books, PassedNoneOver, [HistoryNext]_historyVars, NEW r \in Requests,
                       pc'[r] \in {"writing", "committing"}, target'[r] = None
                PROVE  match'[r] = {}
    BY DEF PassedNoneOver
  <1>. USE DEF Books, Typing, TypeOK, tables, detectors
  <1>1. CASE UNCHANGED historyVars
    BY <1>1 DEF historyVars, vars, PassedNoneOver
  <1>2. CASE HistoryNext
    <2>1. match'[r] \subseteq match[r] \cap Candidates(r)' \/ pc[r] = "new"
      BY <1>2 DEF HistoryNext
    <2>2. CASE SelectIncident(r)
      <3>1. Candidates(r) = {}
        <4>1. PICK i \in IF Candidates(r) = {} THEN {None} ELSE Latest(Candidates(r)) :
                target' = [target EXCEPT ![r] = i]
          BY <2>2 DEF SelectIncident
        <4>2. i = None
          BY <4>1
        <4>. QED
          BY <4>1, <4>2, NoneAssumption DEF Latest, Candidates
      <3>2. UNCHANGED Candidates(r)
        BY <2>2 DEF SelectIncident, Candidates, Unresolved, SameCamera
      <3>. QED
        BY <2>1, <2>2, <3>1, <3>2 DEF SelectIncident
    <2>3. ASSUME ~SelectIncident(r)
          PROVE  pc[r] \in {"writing", "committing"} /\ target[r] = None
      <3>1. ASSUME NEW q \in Requests, Arrive(q) \/ Handle(q) \/ Fail(q)
            PROVE  pc[r] \in {"writing", "committing"} /\ target[r] = None
        <4>1. CASE q = r
          BY <2>3, <3>1, <4>1 DEF Arrive, Handle, InsertEvent, WriteIncident, Commit, Accept,
                Fail, Answer, Goto
        <4>2. CASE q # r
          BY <3>1, <4>2 DEF Arrive, Handle, InsertEvent, SelectIncident, WriteIncident,
                Commit, Accept, Fail, Answer, Goto
        <4>. QED
          BY <4>1, <4>2
      <3>2. ASSUME NEW p \in Servers, Crash(p)
            PROVE  pc[r] \in {"writing", "committing"} /\ target[r] = None
        BY <3>2 DEF Crash
      <3>3. ASSUME \/ \E a \in Actions : Act(a) \/ FailAction(a) \/ Respond(a)
                   \/ \E d \in Dashboards : Dashboard(d)
            PROVE  UNCHANGED <<pc, target>>
        BY <3>3 DEF Act, FailAction, Respond, LogAction, FinishAction, Dashboard
      <3>. QED
        BY <1>2, <3>1, <3>2, <3>3 DEF HistoryNext, Next
    <2>. QED
      BY <2>1, <2>2, <2>3 DEF PassedNoneOver
  <1>. QED
    BY <1>1, <1>2

\* A detection opens an incident only if none was there for it all the while.
THEOREM CorrelationCorrect == HistorySpec => NoNeedlessIncident
  <1>1. HistoryInit => Books /\ PassedNoneOver
    BY BooksInit DEF HistoryInit, Init, PassedNoneOver
  <1>2. Books /\ [HistoryNext]_historyVars => Books'
    BY BooksStep, HistoryRefines
  <1>3. Books /\ PassedNoneOver /\ [HistoryNext]_historyVars =>
          [\A r \in Requests :
             status[r] = "absent" /\ status'[r] = "open" => match[r] = {}]_historyVars
    <2>. SUFFICES ASSUME Books, PassedNoneOver, HistoryNext, NEW r \in Requests,
                         status[r] = "absent", status'[r] = "open"
                  PROVE  match[r] = {}
      OBVIOUS
    <2>. USE DEF Books, Typing, TypeOK, tables
    <2>1. PICK q \in Requests : pc[q] = "committing" /\ Publish(q)
      <3>1. ASSUME NEW q \in Requests, Commit(q) \/ Fail(q)
            PROVE  pc[q] = "committing" /\ Publish(q)
        BY <3>1 DEF Commit, Fail
      <3>2. ASSUME NEW a \in Actions, Act(a) \/ FailAction(a) PROVE status'[r] # "open"
        <4>1. \A t \in Tasks : t.incident \in Requests /\ t.action # "open"
          BY DEF Tasks
        <4>. QED
          BY <3>2, <4>1 DEF Act, FailAction
      <3>3. ASSUME \/ \E q \in Requests : \/ Arrive(q) \/ InsertEvent(q)
                                          \/ SelectIncident(q) \/ WriteIncident(q)
                                          \/ Accept(q)
                   \/ \E a \in Actions : Respond(a)
                   \/ \E p \in Servers : Crash(p)
                   \/ \E d \in Dashboards : Dashboard(d)
            PROVE  UNCHANGED status
        BY <3>3 DEF Arrive, InsertEvent, SelectIncident, WriteIncident, Accept, Respond,
                    LogAction, FinishAction, Crash, Dashboard
      <3>. QED
        BY <3>1, <3>2, <3>3 DEF HistoryNext, Next, Handle
    <2>2. r = Incident(q)
      BY <2>1 DEF Publish
    <2>3. target[q] = None
      BY <2>1, <2>2 DEF Incident, Consistent, Targeted
    <2>. QED
      BY <2>1, <2>2, <2>3 DEF Incident, PassedNoneOver
  <1>. QED
    BY <1>1, <1>2, <1>3, PassedNoneOverStep, PTL DEF HistorySpec, NoNeedlessIncident

=============================================================================
