------------------------------ MODULE Outbox ------------------------------
(***************************************************************************)
(* The transactional outbox: the table outbox_jobs, the workers that claim *)
(* its rows and deliver them to the webhook subscriptions of the job's     *)
(* organization (internal/visionops/worker.go), and the endpoints that     *)
(* add subscriptions and replay dead jobs (internal/visionops/app.go).     *)
(*                                                                         *)
(* Every statement a worker sends to the database, and every HTTP POST, is *)
(* a step of its own, so that several API processes (each runs one worker) *)
(* interleave between any two of them and may stop between any two.        *)
(*                                                                         *)
(* There is one clock: the time.Now() a worker adds its back-off to and    *)
(* the now() of PostgreSQL it is compared with do not drift apart here.    *)
(* Subscriptions are only added; that a start in production deletes the    *)
(* one of the demo receiver is a step of Bootstrap.                        *)
(***************************************************************************)
EXTENDS Hub, Integers, FiniteSets

CONSTANTS
    Jobs,         \* jobs, numbered in the order of their created_at
    Subs,         \* webhook subscriptions
    OrgOf,        \* the organization of each job and of each subscription
    MaxAttempts,  \* attempts before a job is dead (5 in the code)
    Faults,       \* which failures the environment may produce
    MaxReplaying, \* bound: replay requests being served at the same time
    MaxAge,       \* bound: seconds after which the stopwatch of a job stops
    NoJob, NoSub

\* "crash": a process is killed or shut down at any point; "db": a statement
\* fails; "refuse": a webhook answers with an error or not at all.
FaultKinds == {"crash", "db", "refuse"}

ASSUME JobsAssumption == Jobs \subseteq Nat /\ NoJob \notin Jobs
ASSUME SubsAssumption == NoSub \notin Subs
ASSUME MaxAttemptsAssumption == MaxAttempts \in Nat \ {0}
ASSUME MaxReplayingAssumption == MaxReplaying \in Nat
ASSUME MaxAgeAssumption == MaxAge \in Nat
ASSUME FaultsAssumption == Faults \subseteq FaultKinds

VARIABLES
    status,       \* outbox_jobs.status; "absent" before the row is committed
    attempts,     \* outbox_jobs.attempts
    wait,         \* seconds until outbox_jobs.available_at (0: available)
    enabled,      \* rows of webhook_subscriptions (no endpoint disables one)
    rows,         \* webhook_deliveries of a job: which subscription, 2xx or not
    pc, job, tries, todo, dest,   \* locals of workOne and deliver, per worker
    replaying,    \* requests that replayed a job and are about to broadcast it
    owed,         \* history: subscriptions its organization had when the job was created
    accepted,     \* history: subscriptions that accepted the job
    age           \* history: seconds the job has been unsettled since it was queued or replayed

jobVars    == <<status, attempts, wait>>
workerVars == <<pc, job, tries, todo, dest>>
history    == <<owed, accepted, age>>
vars == <<hubVars, jobVars, enabled, rows, workerVars, replaying, history>>

Statuses == {"absent", "pending", "processing", "done", "dead"}

\* Where the worker of a process is: between rounds ("idle"), inside the claiming
\* transaction ("locked"), about to read the subscriptions ("claimed"), about
\* to post to the next one ("sending"), about to insert a delivery row
\* ("answered", "refused"), about to write the failure ("failed"), or about
\* to broadcast it ("retrying", "burying"), the job no longer its own.
Busy  == {"claimed", "sending", "answered", "refused", "failed"}
Steps == {"stopped", "idle", "locked", "retrying", "burying"} \union Busy

\* Mutant of Backoff: a second after every attempt.
BackoffConstant(n) == 1

\* 1 << min(n, 5) seconds: the delay after an attempt that found n earlier ones.
Backoff(n) == <<1, 2, 4, 8, 16, 32>>[1 + (IF n < 5 THEN n ELSE 5)]

Running == {w \in Servers : pc[w] # "stopped"}

\* Mutant of SubsOf: the query forgets the organization.
SubsOfEveryone(j) == enabled

SubsOf(j) == {s \in enabled : OrgOf[s] = OrgOf[j]}

TypeOK ==
    /\ status \in [Jobs -> Statuses]
    /\ attempts \in [Jobs -> Nat]
    /\ wait \in [Jobs -> Nat]
    /\ enabled \in SUBSET Subs
    /\ rows \in [Jobs -> SUBSET (Subs \X BOOLEAN)]
    /\ pc \in [Servers -> Steps]
    /\ job \in [Servers -> Jobs \union {NoJob}]
    /\ tries \in [Servers -> Nat]
    /\ todo \in [Servers -> SUBSET Subs]
    /\ dest \in [Servers -> Subs \union {NoSub}]
    /\ replaying \in SUBSET (Servers \X Jobs)
    /\ owed \in [Jobs -> SUBSET Subs]
    /\ accepted \in [Jobs -> SUBSET Subs]
    /\ age \in [Jobs -> Nat]

Init ==
    /\ HubInit
    /\ status = [j \in Jobs |-> "absent"]
    /\ attempts = [j \in Jobs |-> 0]
    /\ wait = [j \in Jobs |-> 0]
    /\ enabled = {}
    /\ rows = [j \in Jobs |-> {}]
    /\ pc = [w \in Servers |-> "idle"]
    /\ job = [w \in Servers |-> NoJob]
    /\ tries = [w \in Servers |-> 0]
    /\ todo = [w \in Servers |-> {}]
    /\ dest = [w \in Servers |-> NoSub]
    /\ replaying = {}
    /\ owed = [j \in Jobs |-> {}]
    /\ accepted = [j \in Jobs |-> {}]
    /\ age = [j \in Jobs |-> 0]

-----------------------------------------------------------------------------
(* Jobs and subscriptions arrive.                                          *)

\* The commit of the ingest transaction that inserted the job.  created_at is
\* the start of that transaction, so jobs may appear in any order.
Enqueue(j) ==
    /\ Running # {}
    /\ status[j] = "absent"
    /\ status' = [status EXCEPT ![j] = "pending"]
    /\ owed' = [owed EXCEPT ![j] = SubsOf(j)]
    /\ UNCHANGED <<hubVars, attempts, wait, enabled, rows, workerVars, replaying, accepted, age>>

\* POST /api/v1/webhooks.
AddSubscription(s) ==
    /\ Running # {}
    /\ s \notin enabled
    /\ enabled' = enabled \union {s}
    /\ UNCHANGED <<hubVars, jobVars, rows, workerVars, replaying, history>>

-----------------------------------------------------------------------------
(* workOne: claim one job.                                                 *)

\* The worker is back in the select of StartWorker, its locals gone.
Rest(w) ==
    /\ pc' = [pc EXCEPT ![w] = "idle"]
    /\ job' = [job EXCEPT ![w] = NoJob]
    /\ tries' = [tries EXCEPT ![w] = 0]
    /\ todo' = [todo EXCEPT ![w] = {}]
    /\ dest' = [dest EXCEPT ![w] = NoSub]

Goto(w, step) ==
    /\ pc' = [pc EXCEPT ![w] = step]
    /\ UNCHANGED <<job, tries, todo, dest>>

Locked(j) == \E w \in Servers : pc[w] = "locked" /\ job[w] = j

\* Mutant of Claimable: the select has no "for update skip locked".
ClaimableUnlocked(j) == status[j] = "pending" /\ wait[j] = 0

Claimable(j) == status[j] = "pending" /\ wait[j] = 0 /\ ~Locked(j)

\* select ... order by created_at for update skip locked limit 1.
LockJob(w, j) ==
    /\ pc[w] = "idle"
    /\ Claimable(j)
    /\ \A k \in Jobs : Claimable(k) => j <= k
    /\ pc' = [pc EXCEPT ![w] = "locked"]
    /\ job' = [job EXCEPT ![w] = j]
    /\ tries' = [tries EXCEPT ![w] = attempts[j]]
    /\ UNCHANGED <<hubVars, jobVars, enabled, rows, todo, dest, replaying, history>>

\* Mutant of MarkProcessing: the claim does not count the attempt.
MarkProcessingUncounted(w) ==
    /\ status' = [status EXCEPT ![job[w]] = "processing"]
    /\ UNCHANGED <<hubVars, attempts, wait, enabled, rows, replaying, history>>

MarkProcessing(w) ==
    /\ status' = [status EXCEPT ![job[w]] = "processing"]
    /\ attempts' = [attempts EXCEPT ![job[w]] = @ + 1]
    /\ UNCHANGED <<hubVars, wait, enabled, rows, replaying, history>>

\* update ... set status='processing', attempts=attempts+1, and its commit.
CommitClaim(w) ==
    /\ pc[w] = "locked"
    /\ MarkProcessing(w)
    /\ Goto(w, "claimed")

\* The update or the commit fails: the transaction is rolled back, or it was
\* committed and only the answer was lost.  The worker returns either way.
AbandonClaim(w) ==
    /\ pc[w] = "locked"
    /\ "db" \in Faults
    /\ \/ UNCHANGED <<hubVars, jobVars, enabled, rows, replaying, history>>
       \/ MarkProcessing(w)
    /\ Rest(w)

-----------------------------------------------------------------------------
(* deliver: post the job to every enabled subscription of its organization. *)

\* Mutant of ReadSubscriptions: a retry leaves out what an earlier attempt has
\* a delivery row for, successful or not.
ReadUntriedSubscriptions(w) ==
    /\ pc[w] = "claimed"
    /\ pc' = [pc EXCEPT ![w] = "sending"]
    /\ todo' = [todo EXCEPT ![w] =
                  {s \in SubsOf(job[w]) : \A ok \in BOOLEAN : <<s, ok>> \notin rows[job[w]]}]
    /\ UNCHANGED <<hubVars, jobVars, enabled, rows, job, tries, dest, replaying, history>>

ReadSubscriptions(w) ==
    /\ pc[w] = "claimed"
    /\ \/ /\ pc' = [pc EXCEPT ![w] = "sending"]
          /\ todo' = [todo EXCEPT ![w] = SubsOf(job[w])]
          /\ UNCHANGED <<job, tries, dest>>
       \/ /\ "db" \in Faults
          /\ Goto(w, "failed")
    /\ UNCHANGED <<hubVars, jobVars, enabled, rows, replaying, history>>

\* Posting to the next row of the cursor, in whatever order it yields them:
\* the subscription accepts and answers 2xx, or accepts and its answer is
\* lost (a timeout, a reset connection), or does not accept.
Post(w, s) ==
    /\ pc[w] = "sending"
    /\ s \in todo[w]
    /\ \/ /\ pc' = [pc EXCEPT ![w] = "answered"]
          /\ accepted' = [accepted EXCEPT ![job[w]] = @ \union {s}]
       \/ /\ "refuse" \in Faults
          /\ pc' = [pc EXCEPT ![w] = "refused"]
          /\ accepted' \in {accepted, [accepted EXCEPT ![job[w]] = @ \union {s}]}
    /\ todo' = [todo EXCEPT ![w] = @ \ {s}]
    /\ dest' = [dest EXCEPT ![w] = s]
    /\ UNCHANGED <<hubVars, jobVars, enabled, rows, job, tries, replaying, owed, age>>

\* Mutant of RecordDelivery: only an accepted post leaves a row.
RecordAccepted(w) ==
    /\ pc[w] \in {"answered", "refused"}
    /\ rows' = IF pc[w] = "refused" THEN rows
               ELSE [rows EXCEPT ![job[w]] = @ \union {<<dest[w], TRUE>>}]
    /\ pc' = [pc EXCEPT ![w] = IF pc[w] = "answered" THEN "sending" ELSE "failed"]
    /\ dest' = [dest EXCEPT ![w] = NoSub]
    /\ UNCHANGED <<hubVars, jobVars, enabled, job, tries, todo, replaying, history>>

\* insert into webhook_deliveries, whose error is ignored; a refused post
\* ends the attempt, so later subscriptions are not tried.
RecordDelivery(w) ==
    /\ pc[w] \in {"answered", "refused"}
    /\ \/ rows' = [rows EXCEPT ![job[w]] = @ \union {<<dest[w], pc[w] = "answered">>}]
       \/ "db" \in Faults /\ UNCHANGED rows
    /\ pc' = [pc EXCEPT ![w] = IF pc[w] = "answered" THEN "sending" ELSE "failed"]
    /\ dest' = [dest EXCEPT ![w] = NoSub]
    /\ UNCHANGED <<hubVars, jobVars, enabled, job, tries, todo, replaying, history>>

\* The connection of the cursor breaks between two rows: rows.Err().
BreakCursor(w) ==
    /\ pc[w] = "sending"
    /\ "db" \in Faults
    /\ Goto(w, "failed")
    /\ UNCHANGED <<hubVars, jobVars, enabled, rows, replaying, history>>

-----------------------------------------------------------------------------
(* workOne: write the outcome.  Both updates name the job by id alone, and *)
(* the error of both is ignored.                                           *)

FinishDone(w) ==
    /\ pc[w] = "sending"
    /\ todo[w] = {}
    /\ \/ status' = [status EXCEPT ![job[w]] = "done"]
       \/ "db" \in Faults /\ UNCHANGED status
    /\ Rest(w)
    /\ UNCHANGED <<hubVars, attempts, wait, enabled, rows, replaying, history>>

\* Mutants of Outcome: a status the other statements do not know; one attempt
\* too many; and a failed attempt that does not give the job back.
OutcomeUnknown(w) == IF tries[w] + 1 >= MaxAttempts THEN "dead_letter" ELSE "pending"
OutcomeLate(w) == IF tries[w] + 1 > MaxAttempts THEN "dead" ELSE "pending"
OutcomeKept(w) == IF tries[w] + 1 >= MaxAttempts THEN "dead" ELSE "processing"

Outcome(w) == IF tries[w] + 1 >= MaxAttempts THEN "dead" ELSE "pending"

FinishFailed(w) ==
    /\ pc[w] = "failed"
    /\ \/ /\ status' = [status EXCEPT ![job[w]] = Outcome(w)]
          /\ wait' = [wait EXCEPT ![job[w]] = Backoff(tries[w])]
       \/ "db" \in Faults /\ UNCHANGED <<status, wait>>
    /\ Goto(w, IF Outcome(w) = "dead" THEN "burying" ELSE "retrying")
    /\ UNCHANGED <<hubVars, attempts, enabled, rows, replaying, history>>

\* The broadcast that ends a failed attempt, made even if the update failed.
Announce(w) ==
    /\ pc[w] \in {"retrying", "burying"}
    /\ Broadcast(w, [type |-> IF pc[w] = "burying" THEN "job.dead" ELSE "job.pending",
                     job |-> job[w]])
    /\ Rest(w)
    /\ UNCHANGED <<jobVars, enabled, rows, replaying, history>>

-----------------------------------------------------------------------------
(* Operators, processes and time.                                          *)

\* Mutant of Replay: a delivered job can be replayed too.
ReplaySettled(p, j) ==
    /\ p \in Running
    /\ Cardinality(replaying) < MaxReplaying
    /\ status[j] \in {"dead", "done"}
    /\ status' = [status EXCEPT ![j] = "pending"]
    /\ attempts' = [attempts EXCEPT ![j] = 0]
    /\ wait' = [wait EXCEPT ![j] = 0]
    /\ replaying' = replaying \union {<<p, j>>}
    /\ age' = [age EXCEPT ![j] = 0]
    /\ UNCHANGED <<hubVars, enabled, rows, workerVars, owed, accepted>>

\* POST /api/v1/jobs/{id}/replay, served by process p: the update ...
Replay(p, j) ==
    /\ p \in Running
    /\ Cardinality(replaying) < MaxReplaying
    /\ status[j] = "dead"
    /\ status' = [status EXCEPT ![j] = "pending"]
    /\ attempts' = [attempts EXCEPT ![j] = 0]
    /\ wait' = [wait EXCEPT ![j] = 0]
    /\ replaying' = replaying \union {<<p, j>>}
    /\ age' = [age EXCEPT ![j] = 0]
    /\ UNCHANGED <<hubVars, enabled, rows, workerVars, owed, accepted>>

\* ... and the broadcast.
AnnounceReplay(p, j) ==
    /\ <<p, j>> \in replaying
    /\ replaying' = replaying \ {<<p, j>>}
    /\ Broadcast(p, [type |-> "job.replayed", job |-> j])
    /\ UNCHANGED <<jobVars, enabled, rows, workerVars, history>>

\* The process ends, killed or by SIGTERM: main returns without waiting for
\* the worker, and the database rolls back what was not committed.
Stop(w) ==
    /\ "crash" \in Faults
    /\ w \in Running
    /\ pc' = [pc EXCEPT ![w] = "stopped"]
    /\ job' = [job EXCEPT ![w] = NoJob]
    /\ tries' = [tries EXCEPT ![w] = 0]
    /\ todo' = [todo EXCEPT ![w] = {}]
    /\ dest' = [dest EXCEPT ![w] = NoSub]
    /\ Drop({d \in Dashboards : server[d] = w})
    /\ replaying' = {r \in replaying : r[1] # w}
    /\ UNCHANGED <<jobVars, enabled, rows, history>>

Restart(w) ==
    /\ pc[w] = "stopped"
    /\ Goto(w, "idle")
    /\ UNCHANGED <<hubVars, jobVars, enabled, rows, replaying, history>>

\* One second passes.
Tick ==
    /\ \E j \in Jobs : wait[j] > 0
    /\ wait' = [j \in Jobs |-> IF wait[j] > 0 THEN wait[j] - 1 ELSE 0]
    /\ age' = [j \in Jobs |->
                 IF status[j] \in {"pending", "processing"} /\ age[j] < MaxAge
                 THEN age[j] + 1 ELSE age[j]]
    /\ UNCHANGED <<hubVars, status, attempts, enabled, rows, workerVars, replaying,
                   owed, accepted>>

\* A dashboard connects, is sent an update or leaves.
Dashboard(d) ==
    /\ \/ \E p \in Running : Connect(d, p)
       \/ Receive(d)
       \/ Disconnect(d)
    /\ UNCHANGED <<jobVars, enabled, rows, workerVars, replaying, history>>

Deliver(w) ==
    \/ ReadSubscriptions(w)
    \/ \E s \in Subs : Post(w, s)
    \/ RecordDelivery(w)
    \/ BreakCursor(w)

WorkOne(w) ==
    \/ \E j \in Jobs : LockJob(w, j)
    \/ CommitClaim(w)
    \/ AbandonClaim(w)
    \/ Deliver(w)
    \/ FinishDone(w)
    \/ FinishFailed(w)
    \/ Announce(w)

Step ==
    \/ \E j \in Jobs : Enqueue(j)
    \/ \E p \in Servers, j \in Jobs : Replay(p, j) \/ AnnounceReplay(p, j)
    \/ \E s \in Subs : AddSubscription(s)
    \/ \E w \in Servers : WorkOne(w) \/ Stop(w) \/ Restart(w)
    \/ \E d \in Dashboards : Dashboard(d)

Next == Step \/ Tick

Spec == Init /\ [][Next]_vars

-----------------------------------------------------------------------------
(* Safety.                                                                 *)

Owns(w, j) == pc[w] \in Busy \union {"locked"} /\ job[w] = j

\* No two workers ever hold the same job, although the lock of the claiming
\* transaction is gone before the deliveries start: from then on only the
\* status 'processing' keeps the others away ("more workers can run safely").
ExclusiveClaim ==
    \A v, w \in Servers, j \in Jobs : Owns(v, j) /\ Owns(w, j) => v = w

\* attempts counts exactly the claims since the job was queued or replayed: a
\* job that can be claimed has an attempt left, a dead job has used them all,
\* and a worker's copy of the counter is never stale.
RetryBudget ==
    /\ \A j \in Jobs :
        /\ status[j] \in {"absent", "pending"} => attempts[j] < MaxAttempts
        /\ status[j] \in {"processing", "done"} => attempts[j] \in 1..MaxAttempts
        /\ status[j] = "dead" => attempts[j] = MaxAttempts
    /\ \A w \in Servers :
        pc[w] \in Busy => attempts[job[w]] = tries[w] + 1

\* A job marked done was accepted by every subscription its organization had
\* when the job was created, however many attempts, crashes and lost answers
\* there were on the way.
DoneMeansDelivered ==
    \A j \in Jobs : status[j] = "done" => owed[j] \subseteq accepted[j]

\* No job is lost: while processes do not stop and statements do not fail, a
\* row in 'processing' is in the hands of a worker that will settle it.
NoOrphan ==
    \A j \in Jobs : status[j] = "processing" => \E w \in Servers : Owns(w, j)

\* What the delivery log says happened did happen, and only subscriptions of
\* the job's own organization were ever posted to.
LogIsTruthful ==
    \A j \in Jobs :
        /\ \A s \in Subs : <<s, TRUE>> \in rows[j] => s \in accepted[j]
        /\ \A s \in accepted[j] : OrgOf[s] = OrgOf[j]

\* Where statements do not fail, the log explains each settled job to the
\* operator: a done job has a successful row for every subscription it was
\* owed to, a dead one at least one failed row.
LogExplainsOutcome ==
    \A j \in Jobs :
        /\ status[j] = "done" => owed[j] \X {TRUE} \subseteq rows[j]
        /\ status[j] = "dead" => \E s \in Subs : <<s, FALSE>> \in rows[j]

\* What the back-offs after the first n attempts add up to.
FullBackoff(n) == IF n < 6 THEN 2^n - 1 ELSE 63 + 32 * (n - 6)

\* A webhook that is down gets the whole back-off to come back, 1 + 2 + 4 + 8
\* seconds between the five attempts of the code: no job is dead sooner, whichever
\* worker makes each attempt and wherever workers stop in between.
DeadOnlyAfterFullBackoff ==
    \A j \in Jobs : status[j] = "dead" => age[j] >= FullBackoff(MaxAttempts - 1)

\* The status of a job only moves along the documented transitions (a claim,
\* its outcome, a replay of a dead job); in particular a done job never moves
\* again, whatever a slower worker or an operator does.
LegalTransitions ==
    [][\A j \in Jobs :
         \/ status'[j] = status[j]
         \/ <<status[j], status'[j]>> \in
              {<<"absent", "pending">>, <<"pending", "processing">>,
               <<"processing", "pending">>, <<"processing", "done">>,
               <<"processing", "dead">>, <<"dead", "pending">>}]_status

\* The outbox does what it promises, under the mapping that forgets workers,
\* delivery rows and time.
Promise == INSTANCE Notifications WITH
    phase <- status, tried <- attempts, due <- owed, reached <- accepted

KeepsPromise == Promise!Spec

-----------------------------------------------------------------------------
(* Liveness, where no process stops and no statement fails.                *)

\* A broadcast is a few instructions that never block: no second passes
\* between the update of a failed attempt and the worker's next wait.
Announcing == \E w \in Servers : pc[w] \in {"retrying", "burying"}

PromptTick == ~Announcing /\ Tick

\* The ticker keeps a running worker going, an HTTP post ends within its four
\* seconds and time passes.  A back-off is never shorter than the one-second
\* period of the ticker, so a worker polls while an older job is waiting: a
\* job that can be claimed again and again is claimed in the end.
Fairness ==
    /\ \A w \in Servers : WF_vars(WorkOne(w))
    /\ \A j \in Jobs : SF_vars(\E w \in Servers : LockJob(w, j))
    /\ \A p \in Servers, j \in Jobs : WF_vars(AnnounceReplay(p, j))
    /\ WF_vars(PromptTick)

FairSpec == Init /\ [][Step \/ PromptTick]_vars /\ Fairness

\* Every queued job is settled: delivered, or dead for an operator to see.
Settles ==
    \A j \in Jobs : status[j] = "pending" ~> status[j] \in {"done", "dead"}

\* An operator who keeps replaying dead jobs.
OperatedSpec ==
    /\ FairSpec
    /\ \A j \in Jobs : WF_vars(\E p \in Servers : Replay(p, j))

Refusal == \E w \in Servers : pc[w] = "sending" /\ pc'[w] = "refused"

\* Once the webhooks stop refusing for good, replays bring every job to done,
\* even if it had used up its attempts before.
RecoversAfterReplay ==
    <>[][~Refusal]_vars =>
        \A j \in Jobs : (status[j] # "absent") ~> (status[j] = "done")

\* Processes that are restarted after they stop.
RestartedSpec == FairSpec /\ \A w \in Servers : WF_vars(Restart(w))

Halt == \E w \in Servers : Stop(w)

\* The test plan expects a job to be taken again after its worker crashed:
\* "Worker baru atau restart dapat langsung mengambil ulang job tersebut"
\* (docs/04-quality-and-testing/QA-TEST-PLAN.md:44).  The row lock is indeed
\* released, but after the claim is committed the lock is not what keeps the
\* job from the others: nothing moves it out of 'processing', and replay only
\* takes dead jobs.
CrashedJobIsRetaken ==
    <>[][~Halt]_vars =>
        \A j \in Jobs : status[j] = "processing" ~> status[j] # "processing"

=============================================================================
