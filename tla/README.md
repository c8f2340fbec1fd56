# VisionOps in TLA+

VisionOps takes detections from camera services, turns them into incidents,
shows them on a live dashboard and delivers them to webhooks. This directory
holds its verification project: TLA+ modules translated from the Go and
JavaScript sources, TLC configurations that check them on small instances, and
theorems about them that TLAPS checks. `PROJECT.json` lists the runs, the
source lines behind every definition, the hazards the properties are for and a
plausible bug (a mutant operator, next to the definition it replaces) that
breaks each property.

    tlc -workers 2 -config Outbox_safety.cfg MCOutboxFaults.tla
    tlapm OutboxProofs.tla

## The system

One or more API processes (`cmd/api`) share a PostgreSQL database. Each process
serves HTTP requests as concurrent goroutines, runs one outbox worker, and keeps
in memory a hub of event streams and the windows of its rate limiter. Nothing
else coordinates processes: only the database does.

    camera service --POST detection--> ingest --+--> detection_events, incidents,
                                                |    incident_activity, outbox_jobs
    operator ----POST acknowledge/resolve-------+              |
    operator ----POST replay---------------------------------> | outbox worker
                                                               v (one per process)
    browser <--SSE-- hub <--broadcast-- ingest, actions,   webhook_deliveries
       |                                replay, worker         |
       +--GET pages--> database                                +--POST--> webhooks

    camera adapter --GET cameras, POST heartbeats, POST detections--> API

| Component | State | Operations | What is hard | What makes it correct |
|---|---|---|---|---|
| Outbox worker (`worker.go`, `App.jobAction`, `App.webhooks`) | `outbox_jobs`, `webhook_subscriptions`, `webhook_deliveries`; the locals of `workOne` | claim, deliver, write the outcome, back off, replay | several workers; the row lock ends before the deliveries start; crashes and ignored errors between any two statements; lost answers | one owner per job, exact retry budget, done means delivered, a truthful log, every job settled |
| Ingest and incident actions (`App.ingest`, `App.incidentAction`) | `detection_events`, `incidents`, `incident_activity` | receive a detection, acknowledge, resolve | concurrent transactions at READ COMMITTED; duplicates; lost commits; operators racing | one effect per event, exact counts, truthful answers, one winner |
| Hub (`Hub`, `App.events`) | a channel of 8 messages per stream, per process | register, broadcast, drain, unregister | full channels are skipped, streams break | order, no needless loss, no lost wake-up |
| Rate limiter (`allowRate`, `clearRate`) | a window per API key or address | count, refuse, purge, clear | purges by other keys, sign-ins that overlap, window boundaries | a bound in every minute for a key, for an address by its successes; no unjustified refusal |
| Web dashboard (`web/app.js`) | the page, fetches under way, the loading flag | update, timer, navigation | overlapping fetches, ignored updates, fetches without a timeout | never an older page, ends up current |
| Authentication, roles, tenancy | none (signed tokens) | sign, verify, check the role | - | every statement names the caller's organization |
| One process (`main`, `OpenDB`) | its pool of 12 database connections | every statement takes one; a stop ends handlers and worker at once | the worker holds one connection while it waits for another, handlers hold theirs while they wait for locks | no circular waits: everyone is answered, every detection settled; a job behind every answer |
| Cameras and heartbeats (`App.cameras`, `cameraHeartbeat`, `ingestCameras`) | `cameras.last_heartbeat_at` | register, discover, heartbeat, status when read | late and lost heartbeats, several adapters of one camera, tenants that reuse a name | online only with a recent heartbeat, and always with one |
| Camera adapter (`cmd/camera-adapter`, `cameraadapter`) | the place in its scenario, a ticker, two requests under way | discover, heartbeat, send | no retry, no timeout, two goroutines, restarts | the heartbeats never leave a gap by themselves, the log is the truth |
| Bootstrap (`Migrate`, `seed`) | `schema_migrations`, demo rows | migrate, seed | processes starting at once, crashes between statements that each commit | each migration once and in order, one tenant, every process comes to serve |
| Administration, metrics, demo receiver | users, keys, a flag | single statements | - | - |

## Modules

| Module | Models | Extends |
|---|---|---|
| `Hub` | `Hub.Broadcast`, `App.events`: the channels of all processes | |
| `HubFeed`, `HubFeedProofs` | the hubs alone, with numbered broadcasts | `Hub` |
| `Notifications` | what the outbox promises, with no worker, database or clock | |
| `Outbox`, `OutboxProofs` | `StartWorker`, `workOne`, `deliver`, `POST /webhooks`, replay, process stop and restart, time | `Hub` |
| `IncidentLedger` | what ingest promises of incidents, with no handler, lock or clock | |
| `Ingest` | `ingest` and `incidentAction` | `Hub` |
| `IngestHistory`, `IngestProofs` | `Ingest` with the incidents a request could have joined throughout | `Ingest` |
| `VisionOps`, `VisionOpsProofs` | API processes: `Ingest` and `Outbox` over one database and one pool per process | instances of both |
| `Adapter`, `AdapterProofs` | `cmd/camera-adapter` and the endpoints it uses | |
| `RateLimiter`, `RateLimiterProofs` | `allowRate`, `clearRate`, ingest and login | |
| `LiveDashboard`, `LiveDashboardProofs` | `renderRoute`, `connectLiveUpdates`, `shouldRefreshLiveData` | `Hub` |
| `Bootstrap`, `BootstrapProofs` | `main`, `App.Migrate`, `App.seed` | |
| `MC*` | constants of the instances, symmetry; `MCVisionOps` also where the instance starts | |

A `*Proofs` module extends the module named before it and TLAPS, and holds the
theorems about it.

**Hub.** `server[d]` is the process in whose `Hub.clients` the dashboard's
channel is, `channel[d]` what it buffers. `Broadcast(p, m)` is a single step:
the mutex is held throughout and no send blocks. `Outbox`, `Ingest` and
`LiveDashboard` call the same operators. `HubFeed` says when a dashboard is handed an
update and not what it does with it: the browser fetches nothing for a connect or a
reconnect and ignores some updates, which is `LiveDashboard`'s subject.

**Outbox.** A worker's program counter `pc[w]` walks through `workOne`: `idle`
(in the `select` of `StartWorker`), `locked` (the row selected `for update skip
locked`, line 39), `claimed` (committed, line 44), `sending` (in the loop of
`deliver`), `answered`/`refused` (posted, the delivery row not yet inserted),
`failed` (about to write the outcome of line 57), `retrying`/`burying` (about to
broadcast, line 58). Each statement and each POST is a step, so workers,
replays, crashes and time come in between. `tries[w]` is the variable `attempts`
of the code, read before the increment. A `POST` may be accepted and answered,
accepted with the answer lost, or not accepted. A failing statement has the
effect the code gives it: a failed claim is abandoned (or was committed and only
the answer lost), a failed insert of a delivery row and a failed update of the
outcome are ignored. `wait[j]` counts the seconds to `available_at`. `owed`,
`accepted` and `age` are history, read by no guard: `age[j]` is a stopwatch of an
unsettled job, which stops at `MaxAge` (0 where no property looks at it). There is
one clock: the worker's `time.Now()` (line 52) and PostgreSQL's `now()` (line 39) do
not drift apart, so a skew that shortens a back-off is not covered. Subscriptions
are only added, as no endpoint disables one; that a start in production deletes the
demo receiver's (`app.go:152`) is in `Bootstrap`, not here.

**Ingest.** A request is a handler of its own, with the statements `InsertEvent`,
`SelectIncident`, `WriteIncident`, `Commit`, `Accept`. The variables hold what is
committed; `target[r]` and `row[r]` are a transaction's own. `InsertEvent` waits
for another open transaction with the same event, as the unique index makes it;
`WriteIncident` waits for the row lock and then applies to the row as it is by
then, which is what PostgreSQL does with `update ... where id`. The inserts of
activity and outbox rows have no condition and are part of `Commit`; the outbox
row is `Outbox!Enqueue`. An incident is named after the request that created it.
`KeepsLedger` is the refinement of `IncidentLedger`: a committed detection is one
`Enter`, an operator's update one `Acknowledge` or `Resolve`, everything else
stutters. The ledger says what concurrency must not break: an event enters once,
the occurrences of an incident are the events that joined it, all of one camera,
and a status only moves forward.

**VisionOps.** `Ingest` and `Outbox` are instances that share the hub, and the
requests of one are the jobs of the other. `Commit` is `Ingest!Commit` and
`Outbox!Enqueue` in one step, because the code inserts the job in the detection's
transaction (line 410); `Stop` ends the worker, the handlers, the streams and the
connections of a process. `conn` has the connections that handlers hold, from
`BeginTx` to the end of the transaction, or for an operator's update until it has
its row; `HeldByWorker` is the worker's: the claiming transaction, then the
cursor over the subscriptions, which stays open while each delivery row is
inserted on another connection. When the cursor has yielded its last row,
`database/sql` takes its connection back (`worker.go:67`), and the update of the
outcome asks for a fresh one (`NeedsConnection`). Whoever needs a connection waits
until fewer than `PoolSize` are taken. Queries before a handler's transaction take a connection
and give it back at once; they hold nothing while they wait and are left out.

**Adapter.** `pc[a]` is where `main` is (`discovering`, `pausing` for three
seconds, `waiting` for the next event, `posting`, `finished`), `loop[a]` where
`heartbeatLoop` is; `call` has the request each of them waits for and its age.
A tick of time passes only when no goroutine has something to do, and ages
tickers, timers, heartbeats and requests. `due[a]` is the tick in the ticker's
channel, which holds one. A request takes up to `MaxDelay` ticks, is refused,
gets lost before or after the API has handled it, or hangs for good, as
`http.DefaultClient` has no timeout; a request whose adapter has stopped is
handled within the same time, or not at all. A new run starts only after that.
Three history variables serve the properties: the events of this run that are
stored, the time since a heartbeat for a camera was last sent, and the time since
an adapter's last mishap (`calm`).

**RateLimiter.** `log`, `clears` and `answer` are history variables: all requests a key
got through, each with the start of its window and its number in it, and the times
at which a successful sign-in deleted the window. What is logged stays logged; a
request's `era` counts the deletions before it.

**LiveDashboard.** `version` counts committed changes; a page shows how many of
them it has seen. Every `renderRoute` is a fetch in a slot: `Asked`, then the
version its query saw, then shown. `hurried` is a history variable: the user
started a fetch while another was under way. `user[d]` is what `shouldRefreshLiveData`
and the timer look at: a visible page, a hidden one, an open form, or the organization
page, on which neither updates nor the timer fetch anything. Going there and back
fetches, as every `hashchange` does.

**Bootstrap.** `pc[p]` walks through `Migrate` (`checking`, `applying`,
`committing` for each file) and the statements of `seed`, each of which commits
by itself (`counting` to `keying`), to `serving`. `Exit` is what an error, a
crash or a stop leaves: nothing of the process and everything it committed. A
process that ended by itself, on an error its own statement brought about (the key
of a version, a foreign key), is `failed`; one that was killed, stopped or lost its
database is `stopped`. Both are started again, but only the latter is a `Crash`. The
organization a process inserts is named after it; `keys` has the ingestion key
of production and that of development, because production refuses the demo key.
Two history variables: `effects` counts how often a migration took effect,
`overlapped` records that two seeds ran at the same time.

## Runs

| Run | Instance | Checks | States |
|---|---|---|---|
| `Outbox_safety` | 2 workers, 1 job, 3 subscriptions (one of another organization), 3 attempts, all failures | `TypeOK`, `ExclusiveClaim`, `RetryBudget`, `DoneMeansDelivered`, `LogIsTruthful`, `DeadOnlyAfterFullBackoff`, `KeepsPromise` | 1 375 000 |
| `Outbox_liveness` | 2 workers, 2 jobs, 1 subscription, 2 attempts, refusals, an operator who replays | `NoOrphan`, `LogExplainsOutcome`, `Settles`, `RecoversAfterReplay` | 111 000 |
| `Outbox_crash` | 2 workers that restart | `CrashedJobIsRetaken` is **violated** | |
| `Ingest_races` | 3 detections, 2 actions, 2 cameras in 2 organizations, failing statements | `TypeOK`, `RepliesAreTruthful`, `OneOperatorWins`, `KeepsLedger`, `NoNeedlessIncident` | 946 000 |
| `Ingest_burst` | 2 detections at once | `OneIncidentPerBurst` is **violated** | |
| `Ingest_window` | 2 detections nine minutes apart | `CorrelatesAsDocumented` is **violated** | |
| `HubFeed_updates` | 2 processes, 2 dashboards, channels of 2, 4 broadcasts each | `TypeOK`, `InOrder`, `LossNeedsLag`, `NoLostWakeup` | 5 200 |
| `RateLimiter_windows` | 1 key, 1 address, limit 2, minute of 2 ticks, clock to 3, 2 sign-ins checked at once, 2 successful | `TypeOK`, `BelowTwiceLimit`, `RefusedOnlyAtLimit`, `SuccessBuysOneLimit` | 585 000 |
| `LiveDashboard_pages` | 1 dashboard, 2 fetches, 2 processes, 3 changes, all failures | `TypeOK`, `PageNeverGoesBack`, `Converges` | 132 000 |
| `Bootstrap_starts` | 2 processes, 2 files, 2 users, crashes, a change of environment | `TypeOK`, `MigratedOnceInOrder`, `OneTenant`, `ServesAccounts`, `NoDemoInProduction`, `Serves` | 169 000 |
| `Adapter_health` | 2 adapters of one camera, another tenant's camera of that name, 2 events, all failures | `TypeOK`, `HealthIsHonest`, `HealthyIsOnline`, `ScenarioAccountedFor` | 1 800 000 |
| `VisionOps_flow` | 1 process with 2 connections, an open incident, 1 action, 1 subscription; 1 event sent twice with all failures but those of the worker's statements, or 2 events with none | `AnsweredMeansQueued`, `EveryRequestAnswered`, `EveryDetectionSettled` | 119 000 |

### What the violations show

- **A crashed worker's job is stuck** (`Outbox_crash`). The QA test plan expects
  that a restarted worker can take the job of a crashed one at once, because the
  row lock is released. It is, but the claim was committed before: the row says
  `processing`, workers select `pending` ones and replay accepts `dead` ones.
- **A burst may open two incidents** (`Ingest_burst`). Two transactions that both
  select before either commits both insert one. What does hold is
  `NoNeedlessIncident`: an incident that was there for a detection from its
  arrival to its commit is never passed over.
- **The window is one-sided** (`Ingest_window`). `last_seen_at > observed_at - 5m`
  has no upper bound, so a late detection joins an incident last seen long after
  it and moves `last_seen_at` back.

### What holds, and only just

- `BelowTwiceLimit` is not what the documents say. `README.md:69` ("capped at 60
  requests per API key per minute") and `docs/OPERATIONS.md:46` give the limit itself;
  windows are fixed and start with a request (`app.go:436`), so the end of one and the
  beginning of the next add up, and a key may get 119 requests through in a minute. TLC
  reaches the bound: it is what the code keeps, and no less.
- `CorrelatesAsDocumented` is the half of `docs/PRODUCT.md:47` about the five minutes.
  The half about open and acknowledged incidents is not kept either: the update names
  the incident the select found by id alone (`app.go:402`), so one that an operator
  resolves in between takes the detection. It stays resolved (`KeepsLedger`, which
  allows an entry in a resolved incident for that reason).
- `Converges` supposes that fetches end, which the code does not see to: `fetch` has no
  timeout (`app.js:23`), and one that hangs keeps the loading flag set. It also speaks
  of pages that refresh themselves, which the organization page does not.
- The sign-ins of an address have no bound in a minute: every success deletes the
  window. `SuccessBuysOneLimit` says what each buys: one limit, not more, whatever was
  being checked meanwhile.
- `Converges` bounds how long a page is behind by the timer, not by the stream:
  an update that comes in while a fetch is under way is ignored (`app.js:202`),
  though that fetch may have read the database before the change.
- `OneTenant` and `NoDemoInProduction` are stated for processes that seed one
  after another, as with the single `api` service of the compose file. Two first
  starts at once may insert two organizations, of which only one gets the key.
- `Serves` has one exception: a database with deliveries to the demo receiver
  that is moved to production. Deleting the subscription then violates the
  foreign key of `webhook_deliveries`, and every start fails at that statement. Its
  premise rules out crashes and changes of the environment, not starts that fail by
  themselves: a start that lost the race for a migration fails too and must get
  through the next time. Without the exception TLC finds the failing starts.
- `EveryDetectionSettled` needs a pool of two. The worker waits for a second
  connection while it holds its cursor, and no handler does: whoever holds the
  others ends its transaction without asking for more, once it has the event and the
  row it waits for, and those are held by handlers that wait for nothing. With
  deliveries inside the claiming transaction (the mutant `HeldThroughout`) two would
  not be enough; with a handler that inserts the job through the pool instead of its
  transaction (`CommitTakingAnother`) three are not, because those who wait for its row
  have the others.
  It excepts jobs abandoned by a worker that had stopped, as `Outbox_crash` shows
  there are.
- `HealthyIsOnline` excepts adapters that are stuck in a heartbeat or a discovery
  that hangs: those never recover, and the camera stays degraded. A detection that
  hangs stops the scenario, not the heartbeats.
- `ScenarioAccountedFor` does not say that every event arrives: one whose request
  fails is logged and never sent again.
- `ServesAccounts` speaks of users and key only: a start that ends between the
  organization and its camera leaves a tenant without the camera for good.

### Bounds, and why they are enough

Two workers are the least that can race for a job, a third one would race with
either in the same way: every guard looks at one job and one worker. One job is
enough for the safety of a job, since no step of one job reads another's row but
the order of `LockJob`, for which the liveness run has two. Three attempts have a
first, a middle and a last one and two back-offs of different length;
`DeadOnlyAfterFullBackoff` states their sum, `FullBackoff(n)` for the first n
back-offs: 2^n - 1 seconds up to six of them and 32 more for each further one,
which is 15 for the four between the five attempts of the code. Three subscriptions give a prefix that
accepted, one that refused and one of another organization. The theorems below
hold for any of these constants.

Three detections are what it takes for an incident, one joining it and one
racing with that; two actions for two operators. The instances of `Bodies`
contain the same event twice, events inside the window in and out of order, and
the same event of two organizations. A window of 5 stands for five minutes.

Channels of two overflow with three broadcasts; four leave room for one after
the overflow. A clock to three
ticks has two windows of two, and every minute that touches both; with two successful
sign-ins an address gets as far as the bound of seven requests in one of them. Two fetches are the least that overlap; three changes let an answer
be overtaken twice.

A pool of two is the smallest in which the worker can post at all, and less than
the two handlers, the operator and the worker need together; twelve only make the
same waits rarer. `VisionOps_flow`
starts from the state after a first detection (`Begun`, which `Spec` reaches), as waits
for a row take an incident that is there. A detection that has updated it has the row up
to its commit; meanwhile an operator, or another detection that has inserted its own
event, waits for the row, and the same detection sent again waits for the event, each
with a connection in hand. With one event sent twice everything may fail. With two
different ones nothing does (`BegunNext`), which keeps the instance small: there the
question is whether waits close a circle, and failures only end waits. The composition has no dashboards and neither have the runs
of its parts: what the hub does with their broadcasts, in any interleaving, is
`HubFeed_updates` and `LiveDashboard_pages`.

Two adapters of one camera are what `docker-compose.yml` may start (the profiles
`camera-demo` and `recorded-demo`). Two events make order and turn matter. Times
are in ticks: what counts is that a heartbeat interval plus the longest delay
fits the window, which is an assumption (`IntervalAssumption`, from
`docs/DATA-API-CONTRACT.md:64`). With an interval and a delay of one and a window
of two it only just does, and a slow heartbeat meets the next tick.

Two processes are the least that start at once; two files make the order matter,
two users make a seed that ends between them possible.

Symmetry is used for processes, dashboards, requests and actions, which nothing
orders, and never in a run with liveness properties. Deadlock is checked where
the system can always go on; `Ingest` ends when all requests are answered, and
without crashes and replays `Outbox` ends when all jobs are settled, so those
configurations turn it off.

### Fairness, and why the code justifies it

- `Outbox`: a running worker is fair (`WF WorkOne`): the ticker fires every
  second, a webhook call ends within its timeout of four seconds, statements end.
  Time passes (`WF PromptTick`), and no second passes between the update of a
  failed attempt and the worker's next wait, a few instructions that never block.
  A job that is claimable again and again is claimed (`SF LockJob` per job): the
  select takes the oldest claimable job, a back-off is never shorter than the
  ticker's period, so a worker polls while an older failing job waits.
  `OperatedSpec` adds an operator who keeps replaying, `RestartedSpec` processes
  that are restarted; each is used only where the property is about that.
- `VisionOps`: a request that can go on does, even if a lock or the pool holds it
  up in between (`SF Detect`, `SF Act or Respond`): PostgreSQL grants row locks in
  turn, and `database/sql` hands a connection that is returned to one of those
  waiting, each of which it picks in the end. The same holds for the worker
  (`SF Work`), whose ticker fires every second, and for each job (`SF LockJob`, as
  in `Outbox`). A stopped process is restarted (`WF Restart`, `restart:
  unless-stopped`) and time passes. Nothing is assumed of arrivals, failures or
  stops; `EveryDetectionSettled` names the behaviours in which stops never end.
  The run does without the fairness among jobs (`FairnessAmongJobs`), as none of its
  jobs has to wait for others that are queued again and again.
- `Ingest` and `Adapter` have safety properties only. What `Adapter` says of being
  online in time is a bound, stated as an invariant over the clock.
- `Bootstrap`: a started process runs on and one that ended is started again,
  which `restart: unless-stopped` of `deploy/compose.server.yml` does. Crashes
  are not assumed to end; `Serves` speaks of the behaviours in which they do.
- `LiveDashboard`: the timer ticks, and nothing else is assumed: not of broadcasts,
  streams or users, nor that fetches end. `Converges` supposes instead that from some
  time on the user watches a page that refreshes itself and no fetch fails, and that
  every fetch ends (`FetchesEnd`). Then the timer alone is enough, whatever was lost
  before; without either the timer or the ending of fetches TLC refutes it.

## Proofs

Every safety property that a passing run checks is the statement of a theorem,
proved for all values of the constants: any number of processes, workers, jobs,
requests, cameras, dashboards or files, any limit, any choice of faults. The
assumptions are those named in the modules, which every run evaluates, and each
is what the code or the database provides:

- that markers such as `None`, `NoJob`, `NoServer` differ from the values they stand
  beside, and that counts and times are numbers;
- `LimitAssumption`, `MaxAttemptsAssumption`, `ChannelCapAssumption`: the limits of the
  code are positive;
- `BodiesAssumption` and `ScenariosAssumption`: requests and scenario files have the
  fields that decoding gives them (`AfterSeconds` is a Go `int`, of either sign;
  which scenarios are accepted is `Loadable`, not an assumption);
- `IntervalAssumption`: a heartbeat interval and the longest request fit the
  window, as `docs/DATA-API-CONTRACT.md:64` asks of integrations. It is not
  enforced by the code, and `OnlineCorrect` needs it.

Three theorems about the outbox have a hypothesis of their own, because without
it the property is false: `NoneOrphaned` assumes neither crashes nor failed
statements, `LogComplete` no failed statements, and `BackoffKept` that the stopwatch
`age`, a history variable, runs as far as the bound it measures.

The properties are not inductive. For each module follows what carries them;
except in `RateLimiterProofs` and `VisionOpsProofs`, the first part is the type
invariant together with what a program counter says of the locals (a worker past
the select has a job, a process past the count has an organization).

**OutboxProofs.** `TypeCorrect`, `ClaimsCorrect` (`ExclusiveClaim`), `BudgetCorrect`
(`RetryBudget`), `TransitionsCorrect` (the documented transitions of a job),
`DeliveriesCorrect`, `LogCorrect`, `NoneOrphaned`, `LogComplete`
(`LogExplainsOutcome`), `BackoffKept` (`DeadOnlyAfterFullBackoff`) and `PromiseKept`, the
refinement of `Notifications`. They rest on:

- `RowAgrees`: while a worker holds a job, the row is what it read: `pending`
  with `tries[w]` attempts while it is locked, `processing` with one more
  afterwards. This is why updating by id alone is safe: no one else moves a row
  out of `processing`. With exclusive ownership and the budget it is the
  inductive invariant `Claims`;
- `OwedIsEnabled`, `NoneSkipped`, `Coverage`: subscriptions are never removed, so
  what a job owes is among what an attempt reads; whoever is not in `todo` any
  more has accepted in this attempt, as a refusal ends it; hence an attempt that
  runs out of subscriptions covered all the job owes;
- `PostsAtHome`, `SuccessIsReal`, `Posts`: what a worker has still to post to
  belongs to the job's organization, and a pending success row is of a post
  that was accepted;
- `Logged`, `Settled`, `Explained`: the same coverage, told by the rows of
  `webhook_deliveries` instead of by what was posted. An attempt that failed has
  logged a refusal, which a later replay must not forget;
- `Patience`: what a pending job has waited and still has to wait covers the
  back-offs of all its attempts, and a locked job has nothing left to wait. `age` is
  not reset by a claim but is by a replay, as `attempts` is, which is why the two
  stay in step whichever worker makes each attempt.

`PromiseKept` follows step by step: a claim is `Begin`, an accepted post `Reach`,
the outcomes `Complete`, `TryLater` and `GiveUp`, a replay `Reopen`; all other
steps stutter. `Claims` supplies the retry budget and `Coverage` that a completed
job reached what it owed.

**IngestProofs.** `TypeCorrect`, `RepliesCorrect` (`RepliesAreTruthful`), `OperatorsCorrect`
(`OneOperatorWins`), `LedgerKept` (`KeepsLedger`) and
`CorrelationCorrect` (`NoNeedlessIncident`). The inductive invariant `Books` says what
the tables have to do with each other and with open transactions:

- `Placed`, `Founded`: a committed detection is under an incident that exists and is
  of its camera, and an incident exists exactly from the commit of the detection
  that founded it;
- `Targeted`: what a transaction selected still exists when it writes, and the row
  it wrote counts one more than the table. The count stays right because two
  transactions never have written the same row, which is the row lock;
- `EventExclusive`: the event of an open transaction is in no other and not
  committed, which is the unique index.

`LedgerKept` maps the commit of a detection to `Enter`, which needs all four: the
event is new, the incident is of its camera, the count grows by one. `Told` adds to
the books that only a handler past its commit answers 202; `Lasting` that an
operator's update is not undone; `PassedNoneOver` that a transaction which found
nothing had nothing to find, at its select, nor afterwards, since what it could
join from its arrival on only shrinks.

**HubFeedProofs.** `TypeCorrect`, `OrderKept` (`InOrder`), `LossIsLag` (`LossNeedsLag`),
`DrainedIsCurrent` (`NoLostWakeup`). The invariant `Fed(d)` speaks of one dashboard and
of the stream it has received or has in its channel: ascending and broadcast since
it connected (`Ordered`), complete or a channel long (`Lagging`), and handed over
after the last broadcast if there is nothing left to receive (`Woken`). A skipped broadcast keeps the last because a
full channel is not empty, which is where a capacity of at least one is needed. The
lemmas about appending to and moving along a sequence come first.

**LiveDashboardProofs.** `TypeCorrect` and `PagesCorrect` (`PageNeverGoesBack`, an
action property). `Committed` says that nobody shows what is not committed yet;
`Single` that a dashboard whose user was never in a hurry has at most one fetch
under way, that its loading flag is set meanwhile, and that what the fetch has read
is no older than the page. The flag is what keeps updates and the timer from
starting a second one.

**BootstrapProofs.** `TypeCorrect`, `MigrationsCorrect` (`MigratedOnceInOrder`),
`AccountsCorrect` (`ServesAccounts`), `TenantCorrect` (`OneTenant`), `DemoCorrect`
(`NoDemoInProduction`). `Ordered`: the applied migrations are always the first ones, no
process has passed over a missing one, and only one can be about to commit, whose
file is not applied. `Peopled`: a process has done what it crossed off its list, and
nothing takes users or keys away. `Single`: as long as no two seeds have met, one
process at most is between the count and serving, there is one organization at
most and a process founds one only while there is none; no other process serves
until a first seed has reached the curation, since before that there is nobody's
organization to serve.

**AdapterProofs.** `TypeCorrect`, `HealthCorrect` (`HealthIsHonest`), `LogCorrect`
(`ScenarioAccountedFor`), `OnlineCorrect` (`HealthyIsOnline`). Three invariants:

- `Honest`: a recorded heartbeat was sent at most `MaxDelay` before it was recorded,
  and one under way when its request was; late ones of an adapter that is gone
  included;
- `Accounted`: the property itself, that the goroutine `main` waits for nothing but a
  discovery or a detection, and that `stored` has events only;
- `Punctual`: how the goroutines hang together (`Orderly`), how long ago the last
  mishap can be while an adapter still looks for its camera (`Seeking`), and the
  measure that counts down to the next heartbeat. `Ahead(a)` are the ticks until it
  is answered at most; the last heartbeat (`Fresh`) or else the last mishap
  (`Recent`) is never longer ago than that leaves room for. A tick takes one from
  `Ahead` and adds one to the age, an answer starts the measure anew, and
  `IntervalAssumption` turns it into the window.

**VisionOpsProofs.** `AnswersCorrect` (`AnsweredMeansQueued`), a property of the
composition that neither part can state. `Joint`: a worker's job is a queued one
(`Held`), a job is queued exactly if its detection is committed and only queued jobs
reach a webhook (`Queued`), only a handler past its commit speaks of a committed
detection (`Told`), and behind a "duplicate" is one that neither event will lose
(`Repeated`). The step lemmas separate the worker's side, which leaves the handlers
alone, from the handlers', which touch the jobs in one step only: the commit, also
when its answer is lost.

**RateLimiterProofs.** `LimiterTypeCorrect`, `LimitHolds` (`BelowTwiceLimit`),
`SuccessBounded` (`SuccessBuysOneLimit`) and `RefusalsJustified` (`RefusedOnlyAtLimit`).
Windows delete and forget what they counted, so the bound on a minute has to be proved
of the whole history. The strengthening has, for each key: its window is deleted at times
that only grow (`Ascending`) and, for an API key, never (`KeptForApiKeys`); the deletions
cut the requests into eras, and each request lies in its own (`InEra`), in a window
(`InWindow`) whose requests are numbered from one to at most the limit, none twice
(`Numbered`); two windows of an era start a minute apart (`Apart`); the map holds the
newest window of the last era, or that has expired (`Newest`); and a refused key has a
full one (`RefusedFull`). Then the requests of a minute are counted. An era that began
before that minute has at most two windows in it, and if it has two, the request that
opened the older is out of it: twice the limit less one (`LateRecentBounded`, an injection
into an interval). Each later era was begun by a success in the minute and has one window: it adds
a limit at most (`EarlyRecentBounded`). `RecentBounded` adds them up, and an API key has one era.

**Only model-checked.** All liveness: `Settles`, `RecoversAfterReplay`,
`EveryRequestAnswered`, `EveryDetectionSettled`, `Converges`, `Serves`. They rest on
fairness, and with it on `ENABLED`, which the prover does not reason about. The documented claims that the violation runs refute are not theorems. Of `VisionOps` only the property about both parts is proved: the types of
its parts and their own invariants are proved of `Ingest` and `Outbox` by
themselves.

## Not modelled

- Payloads, signatures, titles, notes, error texts, HTTP status codes beyond what
  the properties tell apart; token signing; webhook address validation (pure
  functions without state; a refused address is a refused post).
- Routes by role, sign-in and sign-out and forms of the dashboard, except that an
  open form and the organization page suspend refreshes.
- Sign-in and `POST /users`: a row is inserted once and read by the sign-in, and a
  token carries everything later requests need, so there is no state to interleave
  with. The limiter on sign-ins is in `RateLimiter`.
- Read-only endpoints and metrics, the demo receiver, deployment.
- Signing out and in again in one browser tab while a page is being fetched.

## Plan

1. Done: `Hub`, `Outbox` with `Notifications`, `Ingest` with `IncidentLedger`,
   `VisionOps` with the pool, `Adapter`, `RateLimiter`, `LiveDashboard`,
   `Bootstrap`; theorems that state every safety property the passing runs check.
2. That `VisionOps` is a refinement of `Ingest` and of `Outbox`, which would carry
   their theorems over to the composition.
3. Sign-out and sign-in in `LiveDashboard`: a fetch that outlives its session.
