-------------------------- MODULE VisionOpsProofs --------------------------
(***************************************************************************)
(* Proofs about VisionOps, for any number of processes, requests,          *)
(* operators, subscriptions and connections, and whatever fails.           *)
(***************************************************************************)
EXTENDS VisionOps, TLAPS

USE NoneAssumption

-----------------------------------------------------------------------------
(* The inductive invariant.                                                *)

\* The types of the variables that the two components share an interest in.
Typing ==
    /\ joined \in [Requests -> Requests \union {None}]
    /\ handler \in [Requests -> I!Steps]
    /\ req \in [Requests -> Bodies \union {None}]
    /\ target \in [Requests -> Requests \union {None}]
    /\ reply \in [Requests -> {"none", "accepted", "duplicate", "failed"}]
    /\ jobStatus \in [Requests -> O!Statuses]
    /\ accepted \in [Requests -> SUBSET Subs]
    /\ worker \in [Servers -> O!Steps]
    /\ job \in [Servers -> Requests \union {NoJob}]

Working(w) == worker[w] \in O!Busy \union {"locked"}

\* A worker has a job that was queued ...
Held == \A w \in Servers : Working(w) => job[w] \in Requests /\ jobStatus[job[w]] # "absent"

\* ... which is to say that its detection is committed, and nobody else posts.
Queued ==
    /\ \A r \in Requests : jobStatus[r] # "absent" <=> joined[r] # None
    /\ \A r \in Requests : accepted[r] # {} => joined[r] # None

\* Only a handler past its commit has a committed detection, and it alone says so.
Told ==
    /\ \A r \in Requests : joined[r] # None => handler[r] \in {"announcing", "replied"}
    /\ \A r \in Requests : handler[r] = "announcing" \/ reply[r] = "accepted" => joined[r] # None

\* Behind a "duplicate" is a committed detection, and neither event will change.
Repeated ==
    \A r \in Requests : reply[r] = "duplicate" =>
        /\ handler[r] = "replied"
        /\ \E q \in Requests : joined[q] # None /\ I!EventKey(q) = I!EventKey(r)

Consistent == Held /\ Queued /\ Told /\ Repeated

Joint == Typing /\ Consistent

LEMMA JointInit == Init => Joint
  <1>. SUFFICES ASSUME Init PROVE Joint
    OBVIOUS
  <1>1. /\ \A r \in Requests : joined[r] = None /\ handler[r] = "new" /\ reply[r] = "none"
        /\ \A r \in Requests : jobStatus[r] = "absent" /\ accepted[r] = {}
        /\ \A w \in Servers : worker[w] = "idle"
    BY DEF Init, I!Init, O!Init
  <1>2. Typing
    BY DEF Init, I!Init, O!Init, Typing, I!Steps, O!Steps, O!Statuses
  <1>3. Consistent
    BY <1>1 DEF Consistent, Held, Queued, Told, Repeated, Working, O!Busy
  <1>. QED
    BY <1>2, <1>3 DEF Joint

-----------------------------------------------------------------------------
(* Steps of the worker's side, which leave the handlers alone.             *)

\* The rows of outbox_jobs stay there; what is new in accepted is the job of a worker.
Steady ==
    /\ \A r \in Requests : jobStatus'[r] # "absent" <=> jobStatus[r] # "absent"
    /\ \A r \in Requests : accepted'[r] # {} => accepted[r] # {} \/ jobStatus[r] # "absent"

OutboxTyped ==
    /\ jobStatus \in [Requests -> O!Statuses]
    /\ accepted \in [Requests -> SUBSET Subs]
    /\ worker \in [Servers -> O!Steps]
    /\ job \in [Servers -> Requests \union {NoJob}]

\* A step that leaves the workers where they are and every row in the table.
LEMMA StillHeld ==
  ASSUME Held, Steady, UNCHANGED <<worker, job>>
  PROVE  Held'
  BY DEF Held, Steady, Working

\* A worker step keeps its job a queued one, and posts for no other.
LEMMA WorkStep ==
  ASSUME OutboxTyped, Held, NEW w \in Servers, O!WorkOne(w)
  PROVE  OutboxTyped' /\ Held' /\ Steady
  <1>. USE DEF OutboxTyped, O!Statuses, O!Steps, O!Busy
  <1>0. ASSUME UNCHANGED <<jobStatus, accepted>> PROVE Steady
    BY <1>0 DEF Steady
  <1>a. ASSUME Steady, NEW next \in O!Steps,
               worker' = [worker EXCEPT ![w] = next], UNCHANGED job,
               Working(w) \/ ~(next \in O!Busy \union {"locked"})
        PROVE  Held'
    BY <1>a DEF Held, Steady, Working
  <1>b. ASSUME Steady, O!Rest(w) PROVE Held' /\ worker' \in [Servers -> O!Steps]
                                       /\ job' \in [Servers -> Requests \union {NoJob}]
    BY <1>b DEF O!Rest, Held, Steady, Working
  <1>1. ASSUME NEW j \in Requests, O!LockJob(w, j) PROVE OutboxTyped' /\ Held' /\ Steady
    <2>1. jobStatus[j] = "pending" /\ UNCHANGED <<jobStatus, accepted>>
      BY <1>1 DEF O!LockJob, O!Claimable, O!jobVars, O!history
    <2>2. /\ worker' = [worker EXCEPT ![w] = "locked"]
          /\ job' = [job EXCEPT ![w] = j]
      BY <1>1 DEF O!LockJob
    <2>3. Held'
      BY <2>1, <2>2 DEF Held, Working
    <2>. QED
      BY <1>0, <2>1, <2>2, <2>3
  <1>2. ASSUME O!MarkProcessing(w), worker[w] = "locked"
        PROVE  Steady /\ jobStatus' \in [Requests -> O!Statuses] /\ UNCHANGED accepted
    <2>1. job[w] \in Requests /\ jobStatus[job[w]] # "absent"
      BY <1>2 DEF Held, Working
    <2>2. jobStatus' = [jobStatus EXCEPT ![job[w]] = "processing"] /\ UNCHANGED accepted
      BY <1>2 DEF O!MarkProcessing, O!history
    <2>. QED
      BY <2>1, <2>2 DEF Steady
  <1>3. CASE O!CommitClaim(w)
    <2>1. worker[w] = "locked" /\ O!MarkProcessing(w)
      BY <1>3 DEF O!CommitClaim
    <2>2. worker' = [worker EXCEPT ![w] = "claimed"] /\ UNCHANGED job
      BY <1>3 DEF O!CommitClaim, O!Goto
    <2>3. Held'
      BY <1>2, <1>a, <2>1, <2>2 DEF Working
    <2>. QED
      BY <1>2, <2>1, <2>2, <2>3
  <1>4. CASE O!AbandonClaim(w)
    <2>1. Steady /\ jobStatus' \in [Requests -> O!Statuses] /\ UNCHANGED accepted
      BY <1>0, <1>2, <1>4 DEF O!AbandonClaim, O!jobVars, O!history
    <2>. QED
      BY <1>4, <1>b, <2>1 DEF O!AbandonClaim
  <1>5. CASE O!ReadSubscriptions(w)
    <2>1. PICK next \in {"sending", "failed"} :
             worker' = [worker EXCEPT ![w] = next] /\ UNCHANGED job
      BY <1>5 DEF O!ReadSubscriptions, O!Goto
    <2>2. worker[w] = "claimed" /\ UNCHANGED <<jobStatus, accepted>>
      BY <1>5 DEF O!ReadSubscriptions, O!jobVars, O!history
    <2>3. Held'
      BY <1>0, <1>a, <2>1, <2>2 DEF Working
    <2>. QED
      BY <1>0, <2>1, <2>2, <2>3
  <1>6. ASSUME NEW s \in Subs, O!Post(w, s) PROVE OutboxTyped' /\ Held' /\ Steady
    <2>1. worker[w] = "sending" /\ UNCHANGED <<jobStatus, job>>
      BY <1>6 DEF O!Post, O!jobVars
    <2>2. job[w] \in Requests /\ jobStatus[job[w]] # "absent"
      BY <2>1 DEF Held, Working
    <2>3. PICK next \in {"answered", "refused"} : worker' = [worker EXCEPT ![w] = next]
      BY <1>6 DEF O!Post
    <2>4. accepted' = accepted \/ accepted' = [accepted EXCEPT ![job[w]] = @ \union {s}]
      BY <1>6 DEF O!Post
    <2>5. Steady /\ accepted' \in [Requests -> SUBSET Subs]
      BY <2>1, <2>2, <2>4 DEF Steady
    <2>6. Held'
      BY <1>a, <2>1, <2>3, <2>5 DEF Working
    <2>. QED
      BY <2>1, <2>3, <2>5, <2>6
  <1>7. CASE O!RecordDelivery(w) \/ O!BreakCursor(w)
    <2>1. PICK next \in {"sending", "failed"} :
             worker' = [worker EXCEPT ![w] = next] /\ UNCHANGED job
      BY <1>7 DEF O!RecordDelivery, O!BreakCursor, O!Goto
    <2>2. worker[w] \in {"sending", "answered", "refused"} /\ UNCHANGED <<jobStatus, accepted>>
      BY <1>7 DEF O!RecordDelivery, O!BreakCursor, O!jobVars, O!history
    <2>3. Held'
      BY <1>0, <1>a, <2>1, <2>2 DEF Working
    <2>. QED
      BY <1>0, <2>1, <2>2, <2>3
  <1>8. CASE O!FinishDone(w)
    <2>1. job[w] \in Requests /\ jobStatus[job[w]] # "absent"
      BY <1>8 DEF O!FinishDone, Held, Working
    <2>2. UNCHANGED accepted
          /\ (UNCHANGED jobStatus \/ jobStatus' = [jobStatus EXCEPT ![job[w]] = "done"])
      BY <1>8 DEF O!FinishDone, O!history
    <2>3. Steady /\ jobStatus' \in [Requests -> O!Statuses]
      BY <2>1, <2>2 DEF Steady
    <2>. QED
      BY <1>8, <1>b, <2>2, <2>3 DEF O!FinishDone
  <1>9. CASE O!FinishFailed(w)
    <2>1. job[w] \in Requests /\ jobStatus[job[w]] # "absent" /\ worker[w] = "failed"
      BY <1>9 DEF O!FinishFailed, Held, Working
    <2>2. O!Outcome(w) \in {"dead", "pending"}
      BY DEF O!Outcome
    <2>3. UNCHANGED accepted
          /\ (UNCHANGED jobStatus \/ jobStatus' = [jobStatus EXCEPT ![job[w]] = O!Outcome(w)])
      BY <1>9 DEF O!FinishFailed, O!history
    <2>4. Steady /\ jobStatus' \in [Requests -> O!Statuses]
      BY <2>1, <2>2, <2>3 DEF Steady
    <2>5. PICK next \in {"burying", "retrying"} :
             worker' = [worker EXCEPT ![w] = next] /\ UNCHANGED job
      BY <1>9 DEF O!FinishFailed, O!Goto
    <2>6. Held'
      BY <1>a, <2>4, <2>5
    <2>. QED
      BY <2>3, <2>4, <2>5, <2>6
  <1>10. CASE O!Announce(w)
    <2>1. UNCHANGED <<jobStatus, accepted>> /\ O!Rest(w)
      BY <1>10 DEF O!Announce, O!jobVars, O!history
    <2>. QED
      BY <1>0, <1>b, <2>1
  <1>. QED
    BY <1>1, <1>3, <1>4, <1>5, <1>6, <1>7, <1>8, <1>9, <1>10 DEF O!WorkOne, O!Deliver

IngestTyped ==
    /\ joined \in [Requests -> Requests \union {None}]
    /\ handler \in [Requests -> I!Steps]
    /\ req \in [Requests -> Bodies \union {None}]
    /\ target \in [Requests -> Requests \union {None}]
    /\ reply \in [Requests -> {"none", "accepted", "duplicate", "failed"}]

\* Every step of workers, operators of jobs and time.
LEMMA OutboxSide ==
  ASSUME Joint, UNCHANGED ingest,
         \/ \E w \in Servers : O!WorkOne(w) \/ O!Restart(w)
         \/ \E q \in Servers, j \in Requests : O!Replay(q, j) \/ O!AnnounceReplay(q, j)
         \/ \E s \in Subs : O!AddSubscription(s)
         \/ O!Tick
         \/ UNCHANGED outbox
  PROVE  Joint'
  <1>. USE DEF OutboxTyped, IngestTyped
  <1>1. OutboxTyped /\ IngestTyped /\ Consistent
    BY DEF Joint, Typing
  <1>2. ASSUME OutboxTyped', Held', Steady PROVE Joint'
    <2>1. UNCHANGED <<joined, handler, req, target, reply>>
      BY DEF ingest
    <2>2. Typing'
      BY <1>1, <1>2, <2>1 DEF Typing
    <2>3. Queued'
      BY <1>1, <1>2, <2>1 DEF Consistent, Queued, Steady
    <2>4. Told'
      BY <1>1, <2>1 DEF Consistent, Told
    <2>5. Repeated'
      BY <1>1, <2>1 DEF Consistent, Repeated, I!EventKey
    <2>. QED
      BY <1>2, <2>2, <2>3, <2>4, <2>5 DEF Joint, Consistent
  <1>3. ASSUME OutboxTyped', Steady, UNCHANGED <<worker, job>> PROVE Joint'
    BY <1>1, <1>2, <1>3, StillHeld DEF Consistent
  <1>4. ASSUME NEW w \in Servers, O!WorkOne(w) PROVE Joint'
    BY <1>1, <1>2, <1>4, WorkStep DEF Consistent
  <1>5. ASSUME NEW w \in Servers, O!Restart(w) PROVE Joint'
    <2>1. UNCHANGED <<jobStatus, accepted, job>> /\ worker' = [worker EXCEPT ![w] = "idle"]
      BY <1>5 DEF O!Restart, O!Goto, O!jobVars, O!history
    <2>2. Steady /\ OutboxTyped'
      BY <1>1, <2>1 DEF Steady, O!Steps
    <2>3. Held'
      BY <1>1, <2>1 DEF Held, Working, Consistent, O!Busy
    <2>. QED
      BY <1>2, <2>2, <2>3
  <1>6. ASSUME NEW q \in Servers, NEW j \in Requests, O!Replay(q, j) PROVE Joint'
    <2>1. jobStatus[j] = "dead" /\ jobStatus' = [jobStatus EXCEPT ![j] = "pending"]
          /\ UNCHANGED <<accepted, worker, job>>
      BY <1>6 DEF O!Replay, O!workerVars
    <2>2. Steady /\ OutboxTyped'
      BY <1>1, <2>1 DEF Steady, O!Statuses
    <2>. QED
      BY <1>3, <2>1, <2>2
  <1>7. ASSUME UNCHANGED <<jobStatus, accepted, worker, job>> PROVE Joint'
    BY <1>1, <1>3, <1>7 DEF Steady
  <1>8. ASSUME NEW q \in Servers, NEW j \in Requests, O!AnnounceReplay(q, j) PROVE Joint'
    BY <1>7, <1>8 DEF O!AnnounceReplay, O!jobVars, O!workerVars, O!history
  <1>9. ASSUME NEW s \in Subs, O!AddSubscription(s) PROVE Joint'
    BY <1>7, <1>9 DEF O!AddSubscription, O!jobVars, O!workerVars, O!history
  <1>10. CASE O!Tick
    BY <1>7, <1>10 DEF O!Tick, O!workerVars
  <1>11. CASE UNCHANGED outbox
    BY <1>7, <1>11 DEF outbox
  <1>. QED
    BY <1>4, <1>5, <1>6, <1>8, <1>9, <1>10, <1>11

-----------------------------------------------------------------------------
(* Steps of the handlers of detections.                                    *)

\* A committed detection stays committed, and a request that has arrived stays the
\* same: what is known of repeated events can only grow.
LEMMA StillRepeated ==
  ASSUME Told, Repeated,
         \A r \in Requests : joined[r] # None => joined'[r] # None,
         \A r \in Requests : handler[r] # "new" => req'[r] = req[r],
         \A r \in Requests : reply'[r] = "duplicate" =>
             /\ handler'[r] = "replied"
             /\ handler[r] # "new"
             /\ \/ reply[r] = "duplicate"
                \/ \E q \in Requests : joined[q] # None /\ I!EventKey(q) = I!EventKey(r)
  PROVE  Repeated'
  <1>. SUFFICES ASSUME NEW r \in Requests, reply'[r] = "duplicate"
                PROVE  /\ handler'[r] = "replied"
                       /\ \E q \in Requests : joined'[q] # None /\ I!EventKey(q)' = I!EventKey(r)'
    BY DEF Repeated
  <1>1. PICK q \in Requests : joined[q] # None /\ I!EventKey(q) = I!EventKey(r)
    BY DEF Repeated
  <1>2. handler[q] # "new" /\ handler[r] # "new"
    BY <1>1 DEF Told
  <1>3. I!EventKey(q)' = I!EventKey(q) /\ I!EventKey(r)' = I!EventKey(r)
    BY <1>2 DEF I!EventKey
  <1>. QED
    BY <1>1, <1>3

\* A step of one handler that commits nothing.
LEMMA HandlerSide ==
  ASSUME Joint, NEW r \in Requests, NEW where \in I!Steps,
         IngestTyped', UNCHANGED joined, UNCHANGED outbox,
         handler' = [handler EXCEPT ![r] = where],
         where = "announcing" => joined[r] # None,
         joined[r] # None => where \in {"announcing", "replied"},
         UNCHANGED reply \/ \E code \in {"accepted", "duplicate", "failed"} :
             /\ reply' = [reply EXCEPT ![r] = code]
             /\ where = "replied"
             /\ code = "accepted" => joined[r] # None
             /\ code = "duplicate" =>
                  \E q \in Requests : joined[q] # None /\ I!EventKey(q) = I!EventKey(r),
         \A x \in Requests : handler[x] # "new" => req'[x] = req[x],
         handler[r] = "new" => where # "replied",
         handler[r] # "replied"
  PROVE  Joint'
  <1>1. IngestTyped /\ Consistent
    BY DEF Joint, Typing, IngestTyped
  <1>2. UNCHANGED <<jobStatus, accepted, worker, job>>
    BY DEF outbox
  <1>3. Typing'
    BY <1>2 DEF Joint, Typing, IngestTyped
  <1>4. Held' /\ Queued'
    BY <1>1, <1>2 DEF Consistent, Held, Queued, Working
  <1>5. Told'
    BY <1>1 DEF Consistent, Told, IngestTyped
  <1>6. reply[r] # "duplicate"
    BY <1>1 DEF Consistent, Repeated
  <1>7. \A x \in Requests : reply'[x] = "duplicate" =>
             /\ handler'[x] = "replied"
             /\ handler[x] # "new"
             /\ \/ reply[x] = "duplicate"
                \/ \E q \in Requests : joined[q] # None /\ I!EventKey(q) = I!EventKey(x)
    BY <1>1, <1>6 DEF Consistent, Repeated, IngestTyped
  <1>8. Repeated'
    BY <1>1, <1>7, StillRepeated DEF Consistent
  <1>. QED
    BY <1>3, <1>4, <1>5, <1>8 DEF Joint, Consistent

\* The commit of a detection with its job, whether or not the handler hears of it.
LEMMA Published ==
  ASSUME Joint, NEW r \in Requests, handler[r] = "committing",
         joined' = [joined EXCEPT ![r] = I!Incident(r)], O!Enqueue(r),
         NEW where \in {"announcing", "replied"},
         handler' = [handler EXCEPT ![r] = where],
         UNCHANGED reply \/ reply' = [reply EXCEPT ![r] = "failed"],
         UNCHANGED req, target' \in [Requests -> Requests \union {None}]
  PROVE  Joint'
  <1>1. /\ IngestTyped /\ OutboxTyped /\ Consistent
    BY DEF Joint, Typing, IngestTyped, OutboxTyped
  <1>2. I!Incident(r) \in Requests
    BY <1>1 DEF I!Incident, IngestTyped
  <1>3. /\ jobStatus' = [jobStatus EXCEPT ![r] = "pending"]
        /\ UNCHANGED <<accepted, worker, job>>
    BY DEF O!Enqueue, O!workerVars
  <1>4. Typing'
    BY <1>1, <1>2, <1>3 DEF Typing, IngestTyped, OutboxTyped, I!Steps, O!Statuses
  <1>5. joined'[r] # None /\ \A x \in Requests : joined[x] # None => joined'[x] # None
    BY <1>1, <1>2 DEF IngestTyped
  <1>6. Held'
    BY <1>1, <1>3 DEF Consistent, Held, Working, OutboxTyped
  <1>7. Queued'
    BY <1>1, <1>2, <1>3 DEF Consistent, Queued, IngestTyped, OutboxTyped
  <1>8. Told'
    BY <1>1, <1>2 DEF Consistent, Told, IngestTyped
  <1>9. \A x \in Requests : reply'[x] = "duplicate" =>
             /\ handler'[x] = "replied"
             /\ handler[x] # "new"
             /\ reply[x] = "duplicate"
    BY <1>1 DEF Consistent, Repeated, IngestTyped
  <1>10. Repeated'
    BY <1>1, <1>5, <1>9, StillRepeated DEF Consistent
  <1>. QED
    BY <1>4, <1>6, <1>7, <1>8, <1>10 DEF Joint, Consistent

LEMMA ArriveStep == ASSUME Joint, NEW r \in Requests, Arrive(r) PROVE Joint'
  <1>1. I!Arrive(r) /\ UNCHANGED outbox
    BY DEF Arrive
  <1>2. /\ handler[r] = "new" /\ handler' = [handler EXCEPT ![r] = "inserting"]
        /\ UNCHANGED <<joined, reply, target>>
    BY <1>1 DEF I!Arrive, I!Goto, I!tables
  <1>3. PICK b \in Bodies : req' = [req EXCEPT ![r] = b]
    BY <1>1 DEF I!Arrive
  <1>4. IngestTyped'
    BY <1>2, <1>3 DEF Joint, Typing, IngestTyped, I!Steps
  <1>5. \A x \in Requests : handler[x] # "new" => req'[x] = req[x]
    BY <1>2, <1>3 DEF Joint, Typing
  <1>6. joined[r] = None
    BY <1>2 DEF Joint, Consistent, Told
  <1>7. "inserting" \in I!Steps
    BY DEF I!Steps
  <1>. QED
    BY <1>1, <1>2, <1>4, <1>5, <1>6, <1>7, HandlerSide

\* The handler goes on to its next statement.
LEMMA GoOn ==
  ASSUME Joint, NEW r \in Requests, NEW where \in I!InTransaction,
         handler[r] \in {"inserting", "selecting", "writing"},
         handler' = [handler EXCEPT ![r] = where],
         UNCHANGED <<joined, req, reply>>, UNCHANGED outbox,
         target' \in [Requests -> Requests \union {None}]
  PROVE  Joint'
  <1>1. where \in I!Steps /\ where \notin {"announcing", "replied"}
    BY DEF I!Steps, I!InTransaction
  <1>2. IngestTyped'
    BY <1>1 DEF Joint, Typing, IngestTyped
  <1>3. joined[r] = None
    BY DEF Joint, Consistent, Told
  <1>. QED
    BY <1>1, <1>2, <1>3, HandlerSide

\* The handler answers, having committed nothing in this step.
LEMMA AnswerStep ==
  ASSUME Joint, NEW r \in Requests, NEW code \in {"accepted", "duplicate", "failed"},
         I!Answer(r, code), UNCHANGED joined, UNCHANGED outbox,
         handler[r] \notin {"new", "replied"},
         code = "accepted" => handler[r] = "announcing",
         code = "duplicate" =>
            \E q \in Requests : joined[q] # None /\ I!EventKey(q) = I!EventKey(r)
  PROVE  Joint'
  <1>1. /\ handler' = [handler EXCEPT ![r] = "replied"]
        /\ target' = [target EXCEPT ![r] = None]
        /\ reply' = [reply EXCEPT ![r] = code]
        /\ UNCHANGED req
    BY DEF I!Answer, I!Goto
  <1>2. IngestTyped' /\ "replied" \in I!Steps
    BY <1>1 DEF Joint, Typing, IngestTyped, I!Steps
  <1>3. code = "accepted" => joined[r] # None
    BY DEF Joint, Consistent, Told
  <1>. QED
    BY <1>1, <1>2, <1>3, HandlerSide

LEMMA DetectStep == ASSUME Joint, NEW r \in Requests, Detect(r) PROVE Joint'
  <1>1. CASE BeginTx(r)
    BY <1>1, OutboxSide DEF BeginTx
  <1>2. CASE InsertEvent(r)
    <2>1. I!InsertEvent(r) /\ UNCHANGED outbox
      BY <1>2 DEF InsertEvent
    <2>2. handler[r] = "inserting" /\ UNCHANGED joined
      BY <2>1 DEF I!InsertEvent, I!tables
    <2>3. CASE I!Answer(r, "duplicate")
               /\ \E q \in I!Committed : I!EventKey(q) = I!EventKey(r)
      BY <2>1, <2>2, <2>3, AnswerStep DEF I!Committed
    <2>4. CASE I!Goto(r, "selecting") /\ UNCHANGED <<req, via, target, row, reply>>
      <3>1. target' \in [Requests -> Requests \union {None}] /\ "selecting" \in I!InTransaction
        BY <2>4 DEF Joint, Typing, I!InTransaction
      <3>. QED
        BY <2>1, <2>2, <2>4, <3>1, GoOn DEF I!Goto
    <2>. QED
      BY <2>1, <2>3, <2>4 DEF I!InsertEvent
  <1>3. CASE FindAndWrite(r)
    <2>1. CASE I!SelectIncident(r)
      <3>1. PICK i \in Requests \union {None} : target' = [target EXCEPT ![r] = i]
        BY <2>1 DEF I!SelectIncident, I!Candidates, I!Latest
      <3>2. target' \in [Requests -> Requests \union {None}] /\ "writing" \in I!InTransaction
        BY <3>1 DEF Joint, Typing, I!InTransaction
      <3>. QED
        BY <1>3, <2>1, <3>2, GoOn DEF FindAndWrite, I!SelectIncident, I!Goto, I!tables
    <2>2. CASE I!WriteIncident(r)
      <3>1. UNCHANGED target /\ "committing" \in I!InTransaction
        BY <2>2 DEF I!WriteIncident, I!InTransaction
      <3>2. target' \in [Requests -> Requests \union {None}]
        BY <3>1 DEF Joint, Typing
      <3>. QED
        BY <1>3, <2>2, <3>1, <3>2, GoOn DEF FindAndWrite, I!WriteIncident, I!Goto, I!tables
    <2>. QED
      BY <1>3, <2>1, <2>2 DEF FindAndWrite
  <1>4. CASE Commit(r)
    <2>1. I!Commit(r) /\ O!Enqueue(r)
      BY <1>4 DEF Commit, Queue
    <2>2. /\ handler[r] = "committing"
          /\ handler' = [handler EXCEPT ![r] = "announcing"]
          /\ joined' = [joined EXCEPT ![r] = I!Incident(r)]
          /\ UNCHANGED <<req, target, reply>>
      BY <2>1 DEF I!Commit, I!Publish, I!Goto
    <2>3. target' \in [Requests -> Requests \union {None}]
      BY <2>2 DEF Joint, Typing
    <2>. QED
      BY <2>1, <2>2, <2>3, Published
  <1>5. CASE Accept(r)
    BY <1>5, AnswerStep DEF Accept, I!Accept, I!tables
  <1>. QED
    BY <1>1, <1>2, <1>3, <1>4, <1>5 DEF Detect

\* A commit that is carried out although its answer is lost has queued the job as
\* well: the step that changes joined is the one that inserts it.
LEMMA FailStep == ASSUME Joint, NEW r \in Requests, Fail(r) PROVE Joint'
  <1>1. /\ I!Fail(r)
        /\ IF joined' = joined THEN UNCHANGED outbox ELSE O!Enqueue(r)
    BY DEF Fail, Queue
  <1>2. /\ handler[r] \in I!InTransaction \union {"inserting"}
        /\ I!Answer(r, "failed")
    BY <1>1 DEF I!Fail
  <1>3. CASE UNCHANGED joined
    BY <1>1, <1>2, <1>3, AnswerStep DEF I!InTransaction
  <1>4. CASE joined' # joined
    <2>1. handler[r] = "committing" /\ joined' = [joined EXCEPT ![r] = I!Incident(r)]
      BY <1>1, <1>4 DEF I!Fail, I!Publish, I!tables
    <2>2. /\ handler' = [handler EXCEPT ![r] = "replied"]
          /\ target' = [target EXCEPT ![r] = None]
          /\ reply' = [reply EXCEPT ![r] = "failed"]
          /\ UNCHANGED req
      BY <1>2 DEF I!Answer, I!Goto
    <2>3. target' \in [Requests -> Requests \union {None}]
      BY <2>2 DEF Joint, Typing
    <2>. QED
      BY <1>1, <1>4, <2>1, <2>2, <2>3, Published
  <1>. QED
    BY <1>3, <1>4

-----------------------------------------------------------------------------
(* The end of a process, and the step relation.                            *)

\* Handlers that end without a committed detection say so, the others are as before.
LEMMA StopStep == ASSUME Joint, NEW p \in Servers, Stop(p) PROVE Joint'
  <1>1. OutboxTyped /\ IngestTyped /\ Consistent
    BY DEF Joint, Typing, OutboxTyped, IngestTyped
  <1>2. /\ worker' = [worker EXCEPT ![p] = "stopped"]
        /\ job' = [job EXCEPT ![p] = NoJob]
        /\ UNCHANGED <<jobStatus, accepted>>
    BY DEF Stop, O!Stop, O!jobVars, O!history
  <1>3. OutboxTyped'
    BY <1>1, <1>2 DEF OutboxTyped, O!Steps
  <1>4. Held'
    BY <1>1, <1>2 DEF Consistent, Held, Working, OutboxTyped, O!Busy
  <1>5. /\ IngestTyped'
        /\ UNCHANGED <<joined, req>>
        /\ \A r \in Requests :
              \/ handler'[r] = handler[r] /\ reply'[r] = reply[r]
              \/ /\ handler[r] \notin {"new", "replied"}
                 /\ handler'[r] = "replied" /\ reply'[r] = "failed"
    <2>1. CASE UNCHANGED ingest
      BY <1>1, <2>1 DEF ingest, IngestTyped
    <2>2. CASE I!Crash(p)
      <3>1. /\ handler' = [r \in Requests |-> IF r \in I!Serving(p) THEN "replied" ELSE handler[r]]
            /\ target' = [r \in Requests |-> IF r \in I!Serving(p) THEN None ELSE target[r]]
            /\ reply' = [r \in Requests |-> IF r \in I!Serving(p) THEN "failed" ELSE reply[r]]
            /\ UNCHANGED <<joined, req>>
        BY <2>2 DEF I!Crash, I!tables
      <3>2. IngestTyped'
        BY <1>1, <3>1 DEF IngestTyped, I!Steps
      <3>3. \A r \in I!Serving(p) : handler[r] \notin {"new", "replied"}
        BY DEF I!Serving
      <3>. QED
        BY <3>1, <3>2, <3>3
    <2>. QED
      BY <2>1, <2>2 DEF Stop
  <1>6. Typing'
    BY <1>3, <1>5 DEF Typing, OutboxTyped, IngestTyped
  <1>7. Queued'
    BY <1>1, <1>2, <1>5 DEF Consistent, Queued
  <1>8. Told'
    BY <1>1, <1>5 DEF Consistent, Told
  <1>9. \A r \in Requests : reply'[r] = "duplicate" =>
             /\ handler'[r] = "replied" /\ handler[r] # "new"
             /\ reply[r] = "duplicate"
    BY <1>1, <1>5 DEF Consistent, Repeated
  <1>10. Repeated'
    BY <1>1, <1>5, <1>9, StillRepeated DEF Consistent
  <1>. QED
    BY <1>4, <1>6, <1>7, <1>8, <1>10 DEF Joint, Consistent

\* What operators of incidents and dashboards do touches none of this.
LEMMA Elsewhere ==
  ASSUME Joint, UNCHANGED <<joined, handler, req, target, reply>>,
         UNCHANGED <<jobStatus, accepted, worker, job>>
  PROVE  Joint'
  <1>1. Typing'
    BY DEF Joint, Typing
  <1>2. Held' /\ Queued' /\ Told'
    BY DEF Joint, Consistent, Held, Queued, Told, Working
  <1>3. Repeated'
    BY DEF Joint, Consistent, Repeated, I!EventKey
  <1>. QED
    BY <1>1, <1>2, <1>3 DEF Joint, Consistent

LEMMA JointStep == Joint /\ [Next]_vars => Joint'
  <1>. SUFFICES ASSUME Joint, [Next]_vars PROVE Joint'
    OBVIOUS
  <1>1. ASSUME NEW r \in Requests, Arrive(r) \/ Detect(r) \/ Fail(r) PROVE Joint'
    BY <1>1, ArriveStep, DetectStep, FailStep
  <1>2. ASSUME NEW a \in Actions, Act(a) \/ Respond(a) \/ \E p \in Servers : TakeUp(a, p)
        PROVE  Joint'
    <2>1. UNCHANGED <<jobStatus, accepted, worker, job>>
      BY <1>2 DEF Act, Respond, TakeUp, outbox
    <2>2. UNCHANGED <<joined, handler, req, target, reply>>
      <3>1. CASE I!Act(a) \/ I!FailAction(a)
        BY <3>1 DEF I!Act, I!FailAction, I!detectors
      <3>2. CASE I!LogAction(a) \/ I!FinishAction(a)
        BY <3>2 DEF I!LogAction, I!FinishAction, I!tables, I!detectors
      <3>3. CASE UNCHANGED ingest
        BY <3>3 DEF ingest
      <3>. QED
        BY <1>2, <3>1, <3>2, <3>3 DEF Act, Respond, TakeUp
    <2>. QED
      BY <2>1, <2>2, Elsewhere
  <1>3. ASSUME NEW p \in Servers, NEW j \in Requests, Replay(p, j) PROVE Joint'
    BY <1>3, OutboxSide DEF Replay
  <1>4. ASSUME NEW s \in Subs, AddSubscription(s) PROVE Joint'
    BY <1>4, OutboxSide DEF AddSubscription
  <1>5. ASSUME NEW p \in Servers, Work(p) \/ Restart(p) PROVE Joint'
    BY <1>5, OutboxSide DEF Work, Restart
  <1>6. ASSUME NEW p \in Servers, Stop(p) PROVE Joint'
    BY <1>6, StopStep
  <1>7. ASSUME NEW d \in Dashboards, Dashboard(d) PROVE Joint'
    BY <1>7, Elsewhere
    DEF Dashboard, I!Dashboard, I!tables, I!detectors, O!Dashboard, O!jobVars, O!workerVars,
        O!history
  <1>8. CASE Tick
    BY <1>8, OutboxSide DEF Tick, O!PromptTick
  <1>9. CASE UNCHANGED vars
    BY <1>9, OutboxSide DEF vars
  <1>. QED
    BY <1>1, <1>2, <1>3, <1>4, <1>5, <1>6, <1>7, <1>8, <1>9 DEF Next

\* What a producer is answered holds of the notification as well: the detection
\* behind a 202 or a "duplicate" is committed together with its job, and no
\* webhook hears of one that is not, whatever fails and wherever processes stop.
THEOREM AnswersCorrect == Spec => []AnsweredMeansQueued
  <1>1. Joint => AnsweredMeansQueued
    <2>. SUFFICES ASSUME Joint PROVE AnsweredMeansQueued
      OBVIOUS
    <2>1. \A r \in Requests : reply[r] \in {"accepted", "duplicate"} =>
             \E q \in Requests : jobStatus[q] # "absent" /\ I!EventKey(q) = I!EventKey(r)
      BY DEF Joint, Consistent, Queued, Told, Repeated
    <2>. QED
      BY <2>1 DEF Joint, Consistent, Queued, AnsweredMeansQueued
  <1>. QED
    BY <1>1, JointInit, JointStep, PTL DEF Spec

=============================================================================
