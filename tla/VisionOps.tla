----------------------------- MODULE VisionOps -----------------------------
(***************************************************************************)
(* Ingest and Outbox as one system: the API processes of a deployment,     *)
(* each with its HTTP handlers, its worker, its hub and its pool of        *)
(* database connections, over one database.  The two components meet in    *)
(* the commit of a detection, which is also what queues its job; in the    *)
(* hub, which both use; in the end of a process, which is the end of both; *)
(* and in the pool, for which handlers and worker compete.                 *)
(*                                                                         *)
(* A request and the job its transaction inserts have the same number.     *)
(***************************************************************************)
EXTENDS Integers, FiniteSets

CONSTANTS
    Servers, NoServer, Dashboards, ChannelCap,
    Requests, Actions, Cameras, Events, Bodies, Window,
    Subs, MaxAttempts, MaxReplaying,
    OrgOf,          \* the organization of each camera, request and subscription
    HandlerFaults,  \* failures of the handlers, and
    WorkerFaults,   \* of the worker
    PoolSize,       \* connections a process may have open (12 in the code)
    None, NoJob, NoSub

ASSUME PoolSizeAssumption == PoolSize \in Nat
ASSUME NoneAssumption == None \notin Requests

VARIABLES
    server, channel,
    joined, incidentStatus, last, count, trail,
    handler, req, via, target, row, reply, step, task,
    jobStatus, attempts, wait, enabled, rows,
    worker, job, tries, todo, dest, replaying, owed, accepted,
    conn    \* connections the handlers hold: <<request or operator action, process>>

I == INSTANCE Ingest WITH
    status <- incidentStatus, pc <- handler, Faults <- HandlerFaults

O == INSTANCE Outbox WITH
    Jobs <- Requests, status <- jobStatus, pc <- worker, Faults <- WorkerFaults,
    MaxAge <- 0, age <- [j \in Requests |-> 0]

\* The state of each component without the hub.
ingest == <<joined, incidentStatus, last, count, trail,
            handler, req, via, target, row, reply, step, task>>
outbox == <<jobStatus, attempts, wait, enabled, rows,
            worker, job, tries, todo, dest, replaying, owed, accepted>>
vars == <<server, channel, ingest, outbox, conn>>

Init == I!Init /\ O!Init /\ conn = {}

-----------------------------------------------------------------------------
(* The pool of database connections of a process.                          *)

\* The cursor over the subscriptions keeps its connection up to its last row.
Exhausted(p) == worker[p] = "sending" /\ todo[p] = {}
CursorOpen(p) == worker[p] \in {"sending", "answered", "refused"} /\ ~Exhausted(p)

\* Mutant of HeldByWorker: deliveries are made inside the claiming transaction.
HeldThroughout(p) ==
    CASE CursorOpen(p) -> 2
      [] worker[p] \in {"locked", "claimed", "failed"} \/ Exhausted(p) -> 1
      [] OTHER -> 0

\* The worker holds the connection of its claiming transaction, and then that of
\* the cursor for as long as it posts; in between and afterwards it holds none.
HeldByWorker(p) == IF worker[p] = "locked" \/ CursorOpen(p) THEN 1 ELSE 0

Free(p) == Cardinality({h \in conn : h[2] = p}) + HeldByWorker(p) < PoolSize

Holds(x) == \E p \in Servers : <<x, p>> \in conn

\* A request takes a connection of its process, and waits for it as long as
\* the pool is exhausted; or gives it back.
Take(x, p) ==
    /\ ~Holds(x)
    /\ Free(p)
    /\ conn' = conn \union {<<x, p>>}

GiveBack(x) == conn' = {h \in conn : h[1] # x}

-----------------------------------------------------------------------------
(* Detections.                                                             *)

Arrive(r) ==
    /\ I!Arrive(r)
    /\ worker[via'[r]] # "stopped"
    /\ OrgOf[req'[r].camera] = OrgOf[r]
    /\ UNCHANGED <<outbox, conn>>

BeginTx(r) ==
    /\ handler[r] = "inserting"
    /\ Take(r, via[r])
    /\ UNCHANGED <<server, channel, ingest, outbox>>

InsertEvent(r) ==
    /\ Holds(r)
    /\ I!InsertEvent(r)
    /\ IF handler'[r] = "replied" THEN GiveBack(r) ELSE UNCHANGED conn
    /\ UNCHANGED outbox

FindAndWrite(r) ==
    /\ I!SelectIncident(r) \/ I!WriteIncident(r)
    /\ UNCHANGED <<outbox, conn>>

\* Mutant of Queue: the job is inserted by a statement of its own, which may fail.
QueueApart(r) == O!Enqueue(r) \/ UNCHANGED outbox

\* The transaction of a detection has also inserted its job.
Queue(r) == O!Enqueue(r)

\* Mutant of Commit: the job is inserted through the pool, on a connection besides
\* that of the transaction.
CommitTakingAnother(r) ==
    /\ I!Commit(r)
    /\ Free(via[r])
    /\ Queue(r)
    /\ GiveBack(r)

Commit(r) ==
    /\ I!Commit(r)
    /\ Queue(r)
    /\ GiveBack(r)

Accept(r) ==
    /\ I!Accept(r)
    /\ UNCHANGED <<outbox, conn>>

\* A statement fails, or the commit, carried out or not.
Fail(r) ==
    /\ I!Fail(r)
    /\ IF joined' = joined THEN UNCHANGED outbox ELSE Queue(r)
    /\ GiveBack(r)

Detect(r) == BeginTx(r) \/ InsertEvent(r) \/ FindAndWrite(r) \/ Commit(r) \/ Accept(r)

-----------------------------------------------------------------------------
(* Operators.                                                              *)

\* An operator's update of an incident that is there holds a connection while
\* it waits for the lock of the row.
TakeUp(a, p) ==
    /\ step[a] = "new"
    /\ \E i \in Requests : incidentStatus[i] # "absent"
    /\ worker[p] # "stopped"
    /\ Take(a, p)
    /\ UNCHANGED <<server, channel, ingest, outbox>>

Act(a) ==
    /\ Holds(a)
    /\ I!Act(a) \/ I!FailAction(a)
    /\ task'[a] # None => <<a, task'[a].via>> \in conn
    /\ GiveBack(a)
    /\ UNCHANGED outbox

Respond(a) ==
    /\ \/ I!LogAction(a) /\ Free(task[a].via)
       \/ I!FinishAction(a)
    /\ UNCHANGED <<outbox, conn>>

Replay(p, j) ==
    /\ \/ O!Replay(p, j) /\ Free(p)
       \/ O!AnnounceReplay(p, j)
    /\ UNCHANGED <<ingest, conn>>

AddSubscription(s) ==
    /\ O!AddSubscription(s)
    /\ \E p \in O!Running : Free(p)
    /\ UNCHANGED <<ingest, conn>>

-----------------------------------------------------------------------------
(* Workers, processes, dashboards and time.                                *)

\* Here the worker is about to ask for a connection of its own: for the claiming
\* transaction, for the cursor, for a delivery row while the cursor is open, and
\* for the outcome, the cursor's being back in the pool by then.
NeedsConnection(w) ==
    worker[w] \in {"idle", "claimed", "answered", "refused", "failed"} \/ Exhausted(w)

\* An error of the cursor ends the attempt without another query.
Work(w) ==
    /\ NeedsConnection(w) => Free(w) \/ O!BreakCursor(w)
    /\ O!WorkOne(w)
    /\ UNCHANGED <<ingest, conn>>

\* The process ends: its worker and all its requests with it.
Stop(p) ==
    /\ O!Stop(p)
    /\ IF I!Serving(p) = {} /\ I!Performing(p) = {} THEN UNCHANGED ingest ELSE I!Crash(p)
    /\ conn' = {h \in conn : h[2] # p}

Restart(p) ==
    /\ O!Restart(p)
    /\ UNCHANGED <<ingest, conn>>

Dashboard(d) ==
    /\ I!Dashboard(d)
    /\ O!Dashboard(d)
    /\ UNCHANGED conn

Tick ==
    /\ O!PromptTick
    /\ UNCHANGED <<ingest, conn>>

Next ==
    \/ \E r \in Requests : Arrive(r) \/ Detect(r) \/ Fail(r)
    \/ \E a \in Actions : Act(a) \/ Respond(a) \/ \E p \in Servers : TakeUp(a, p)
    \/ \E p \in Servers, j \in Requests : Replay(p, j)
    \/ \E s \in Subs : AddSubscription(s)
    \/ \E p \in Servers : Work(p) \/ Stop(p) \/ Restart(p)
    \/ \E d \in Dashboards : Dashboard(d)
    \/ Tick

\* A request that a lock or the pool holds up time and again gets it in the end,
\* processes are restarted and time passes.
FairnessFor(R) ==
    /\ \A r \in R : SF_vars(Detect(r))
    /\ \A a \in Actions : SF_vars(Act(a) \/ Respond(a))
    /\ \A w \in Servers : SF_vars(Work(w)) /\ WF_vars(Restart(w))
    /\ WF_vars(Tick)

\* The oldest job goes first, so every one has its turn; see Outbox.
FairnessAmongJobs ==
    \A j \in Requests : SF_vars(\E w \in Servers : Work(w) /\ O!LockJob(w, j))

Spec == Init /\ [][Next]_vars /\ FairnessFor(Requests) /\ FairnessAmongJobs

-----------------------------------------------------------------------------
(* Properties.                                                             *)

\* An answered producer can rely on the notification too: behind every 202 and
\* every "duplicate" there is a job for the event, a job is there exactly if its
\* detection is, and no webhook hears of a detection that is not in the database.
AnsweredMeansQueued ==
    /\ \A r \in Requests : reply[r] \in {"accepted", "duplicate"} =>
          \E q \in Requests : jobStatus[q] # "absent" /\ I!EventKey(q) = I!EventKey(r)
    /\ \A r \in Requests : jobStatus[r] # "absent" <=> joined[r] # None
    /\ \A r \in Requests : accepted[r] # {} => joined[r] # None

InProgress(r) == handler[r] \notin {"new", "replied"}
Acting(a) == Holds(a) \/ step[a] \in {"logging", "announcing"}

\* Every detection and every operator is answered in the end.  One waits for the
\* event of another, or for the row of an incident another has updated, and holds
\* a connection meanwhile, of a pool that is smaller than what handlers and worker
\* need together: these waits never close a circle.  (A request arrives once, so
\* all are answered if none is in progress again and again.)
EveryRequestAnswered ==
    []<>(/\ \A r \in Requests : ~InProgress(r)
         /\ \A a \in Actions : ~Acting(a))

Abandoned(j) ==
    jobStatus[j] = "processing" /\ \A w \in Servers : ~O!Owns(w, j)

Settled(r) == jobStatus[r] \in {"done", "dead"} \/ Abandoned(r)

\* Unless processes stop again and again, every committed detection is notified,
\* or its job is dead for an operator to see (who may replay it, again and
\* again), or was left by a worker that had stopped: the worker gets its
\* connections although it holds one while it waits for another.
EveryDetectionSettled ==
    \A r \in Requests :
        []<>(joined[r] # None => Settled(r) \/ \E p \in Servers : worker[p] = "stopped")

=============================================================================
