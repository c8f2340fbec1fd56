------------------------------ MODULE Adapter ------------------------------
(***************************************************************************)
(* Camera adapters (cmd/camera-adapter, internal/cameraadapter) and the    *)
(* endpoints they use: camera discovery, heartbeats and detections, with   *)
(* the camera health that the API computes from the last heartbeat         *)
(* (internal/visionops/app.go).                                            *)
(*                                                                         *)
(* An adapter is two goroutines: main discovers its camera and then posts  *)
(* the events of its scenario, and the heartbeat loop posts a heartbeat    *)
(* per tick.  Each has at most one HTTP request under way.  Time is        *)
(* discrete; a request ends within MaxDelay ticks unless it hangs, for     *)
(* http.DefaultClient has no timeout.                                      *)
(***************************************************************************)
EXTENDS Integers, Sequences

CONSTANTS
    Adapters, Cameras,
    Seeded,      \* the cameras there are from the start (App.seed inserts one)
    OrgOf,       \* the organization of each camera and of each adapter's key
    NameOf,      \* the name of each camera
    Wanted,      \* the camera name each adapter is configured with, or AnyName
    Scenarios,   \* what scenario files may contain
    Pause,       \* ticks between discoveries that failed (3 s in the code)
    Interval,    \* ticks between heartbeats (15 s in the deployment)
    Window,      \* ticks after which a heartbeat is stale (5 min in the code)
    MaxDelay,    \* ticks a request takes at most
    Faults,      \* which failures the environment may produce
    AnyName, None, Hung

\* "stop": an adapter ends; "lose": a request is refused, or it or its answer
\* is lost, as all are while the API is down; "hang": a request never ends.
FaultKinds == {"stop", "lose", "hang"}

ASSUME PauseAssumption == Pause \in Nat \ {0} /\ MaxDelay \in Nat
\* "Send a heartbeat at an interval shorter than five minutes"
\* (docs/DATA-API-CONTRACT.md:64).
ASSUME IntervalAssumption == Interval \in Nat \ {0} /\ Window \in Nat /\ Interval + MaxDelay <= Window
ASSUME NoneAssumption == None \notin Nat \union {Hung} \union Cameras /\ Hung \notin Nat
ASSUME SeededAssumption == Seeded \subseteq Cameras
ASSUME ScenariosAssumption ==
    Scenarios \subseteq [mode : STRING, disclosed : BOOLEAN,
                        events : Seq([after : Int, valid : BOOLEAN])]
ASSUME FaultsAssumption == Faults \subseteq FaultKinds

VARIABLES
    \* tables of the API: the organizations that have a key, the cameras that are
    \* registered, ticks since the last_heartbeat_at of each (None: null)
    keys, cameras, beat,
    \* main of an adapter: where it is, its scenario, the camera it found, ticks
    \* until it goes on, and what it logged of each event it posted
    pc, scenario, found, timer, log,
    \* the heartbeat loop of an adapter: where it is, ticks until its ticker
    \* fires, whether a tick is buffered
    loop, ticker, due,
    \* the request each goroutine waits for: ticks since it was sent
    call,
    \* history: events of this run the API has stored; ticks since a heartbeat
    \* for a camera was last sent; ticks since an adapter's last mishap
    stored, sent, calm

api   == <<keys, cameras, beat>>
main  == <<pc, scenario, found, timer, log>>
beats == <<loop, ticker, due>>
vars  == <<api, main, beats, call, stored, sent, calm>>

Goroutines == {"main", "beat"}
Steps == {"stopped", "discovering", "pausing", "waiting", "posting", "finished"}

\* Bounds: the longest times the model tells apart.
Stale   == Window + 1
Silent  == Window + MaxDelay + 1
Settled == 1 + MaxDelay + IF Pause + MaxDelay > Interval THEN Pause + MaxDelay ELSE Interval

Older(t, bound) == IF t \in Nat /\ t < bound THEN t + 1 ELSE t

TypeOK ==
    /\ keys \in SUBSET {OrgOf[a] : a \in Adapters}
    /\ cameras \in SUBSET Cameras
    /\ beat \in [Cameras -> 0..Stale \union {None}]
    /\ pc \in [Adapters -> Steps]
    /\ scenario \in [Adapters -> Scenarios \union {None}]
    /\ found \in [Adapters -> Cameras \union {None}]
    /\ timer \in [Adapters -> Nat]
    /\ log \in [Adapters -> Seq({"accepted", "failed"})]
    /\ loop \in [Adapters -> {"off", "posting", "idle"}]
    /\ ticker \in [Adapters -> 1..Interval \union {None}]
    /\ due \in [Adapters -> BOOLEAN]
    /\ call \in [Adapters \X Goroutines -> 0..MaxDelay \union {None, Hung}]
    /\ sent \in [Cameras -> 0..Silent]
    /\ calm \in [Adapters -> 0..Settled]
    /\ \A a \in Adapters : loop[a] # "off" => found[a] \in cameras

Init ==
    /\ keys = {}
    /\ cameras = Seeded
    /\ beat = [c \in Cameras |-> None]
    /\ pc = [a \in Adapters |-> "stopped"]
    /\ scenario = [a \in Adapters |-> None]
    /\ found = [a \in Adapters |-> None]
    /\ timer = [a \in Adapters |-> 0]
    /\ log = [a \in Adapters |-> <<>>]
    /\ loop = [a \in Adapters |-> "off"]
    /\ ticker = [a \in Adapters |-> None]
    /\ due = [a \in Adapters |-> FALSE]
    /\ call = [r \in Adapters \X Goroutines |-> None]
    /\ stored = [a \in Adapters |-> {}]
    /\ sent = [c \in Cameras |-> Silent]
    /\ calm = [a \in Adapters |-> 0]

-----------------------------------------------------------------------------
(* The API.                                                                *)

\* Mutant of Health: any heartbeat ever received counts.
HealthEver(c) == IF beat[c] = None THEN "offline" ELSE "online"

\* The status GET /api/v1/cameras computes.
Health(c) ==
    IF beat[c] = None THEN "offline" ELSE IF beat[c] > Window THEN "degraded" ELSE "online"

\* POST /api/v1/cameras: nothing ever removes one.
RegisterCamera(c) ==
    /\ c \notin cameras
    /\ cameras' = cameras \union {c}
    /\ UNCHANGED <<keys, beat, main, beats, call, stored, sent, calm>>

\* POST /api/v1/api-keys, or the seed: nothing ever takes a key back.
IssueKey(org) ==
    /\ org \notin keys
    /\ keys' = keys \union {org}
    /\ UNCHANGED <<cameras, beat, main, beats, call, stored, sent, calm>>

\* select organization_id from api_keys where key_hash.
Authorized(a) == OrgOf[a] \in keys

\* Mutant of Visible: the query forgets the organization.
VisibleToAll(a) == {c \in cameras : Wanted[a] \in {NameOf[c], AnyName}}

\* ingestCameras, and the choice of DiscoverCamera: the first that has the name
\* it wants, or the first of all (here: any of them, as names are not unique).
Visible(a) == {c \in cameras : OrgOf[c] = OrgOf[a] /\ Wanted[a] \in {NameOf[c], AnyName}}

Connectable(a) == Authorized(a) /\ Visible(a) # {}

\* cameraHeartbeat: update cameras set last_heartbeat_at = now() where id and
\* organization_id, 404 if there is none.
Stamp(a) ==
    /\ Authorized(a)
    /\ beat' = [c \in Cameras |->
                  IF c = found[a] /\ c \in cameras /\ OrgOf[c] = OrgOf[a] THEN 0 ELSE beat[c]]
    /\ UNCHANGED stored

\* App.ingest, for an event id that was never used before.
Store(a) ==
    /\ Authorized(a)
    /\ stored' = [stored EXCEPT ![a] = @ \union {Len(log[a]) + 1}]
    /\ UNCHANGED beat

\* What the API does with a request that gets no answer: maybe nothing.
Unanswered(a, g) ==
    \/ UNCHANGED <<beat, stored>>
    \/ g = "beat" /\ Stamp(a)
    \/ g = "main" /\ pc[a] # "discovering" /\ Store(a)

-----------------------------------------------------------------------------
(* The adapter: main.                                                      *)

\* LoadScenario: an adapter whose scenario is not valid exits at once.
Loadable(s) ==
    /\ s.events # <<>>
    /\ s.mode \in {"fixture", "recorded_scenario"}
    /\ s.mode = "recorded_scenario" => s.disclosed
    /\ \A i \in DOMAIN s.events : s.events[i].after >= 0 /\ s.events[i].valid

Running(a) == pc[a] # "stopped"
Waiting(a, g) == call[<<a, g>>] \in Nat

\* The goroutine that is to bring the camera online waits for ever: a detection
\* that hangs does not keep heartbeats from being sent.
Stuck(a) == call[<<a, "beat">>] = Hung \/ (pc[a] = "discovering" /\ call[<<a, "main">>] = Hung)

Send(a, g) == call' = [call EXCEPT ![<<a, g>>] = 0]
End(a, g) == call' = [call EXCEPT ![<<a, g>>] = None]

\* Bound: not before the API is done with what an earlier run left behind.
Start(a) ==
    /\ ~Running(a)
    /\ \A g \in Goroutines : call[<<a, g>>] = None
    /\ \E s \in {x \in Scenarios : Loadable(x)} : scenario' = [scenario EXCEPT ![a] = s]
    /\ pc' = [pc EXCEPT ![a] = "discovering"]
    /\ found' = [found EXCEPT ![a] = None]
    /\ log' = [log EXCEPT ![a] = <<>>]
    /\ stored' = [stored EXCEPT ![a] = {}]
    /\ Send(a, "main")
    /\ UNCHANGED <<api, timer, beats, sent, calm>>

\* The loop over the scenario's events: the next is due after its time.
Await(a, n) ==
    /\ pc' = [pc EXCEPT ![a] = IF n <= Len(scenario[a].events) THEN "waiting" ELSE "finished"]
    /\ timer' = [timer EXCEPT ![a] =
                   IF n <= Len(scenario[a].events) THEN scenario[a].events[n].after ELSE 0]

\* discover has its camera: main goes on to the first event, and starts the
\* heartbeat loop, which posts at once.
Discover(a) ==
    /\ pc[a] = "discovering" /\ Waiting(a, "main")
    /\ Authorized(a)
    /\ \E c \in Visible(a) :
          /\ found' = [found EXCEPT ![a] = c]
          /\ sent' = [sent EXCEPT ![c] = 0]
    /\ Await(a, 1)
    /\ loop' = [loop EXCEPT ![a] = "posting"]
    /\ call' = [call EXCEPT ![<<a, "main">>] = None, ![<<a, "beat">>] = 0]
    /\ UNCHANGED <<api, scenario, log, ticker, due, stored, calm>>

\* An error, 401, 500, or no camera with the name: again in three seconds.
DiscoverNothing(a) ==
    /\ pc[a] = "discovering" /\ Waiting(a, "main")
    /\ ~Connectable(a) \/ "lose" \in Faults
    /\ pc' = [pc EXCEPT ![a] = "pausing"]
    /\ timer' = [timer EXCEPT ![a] = Pause]
    /\ calm' = [calm EXCEPT ![a] = 0]
    /\ End(a, "main")
    /\ UNCHANGED <<api, scenario, found, log, beats, stored, sent>>

DiscoverAgain(a) ==
    /\ pc[a] = "pausing" /\ timer[a] = 0
    /\ pc' = [pc EXCEPT ![a] = "discovering"]
    /\ Send(a, "main")
    /\ UNCHANGED <<api, scenario, found, timer, log, beats, stored, sent, calm>>

\* SendDetection, with an event id of its own.
PostEvent(a) ==
    /\ pc[a] = "waiting" /\ timer[a] = 0
    /\ pc' = [pc EXCEPT ![a] = "posting"]
    /\ Send(a, "main")
    /\ UNCHANGED <<api, scenario, found, timer, log, beats, stored, sent, calm>>

\* Mutant of Accepts: any answer will do.
AcceptsAnyAnswer(answer) == answer # "lost"

\* The statuses client.post takes for success.
Accepts(answer) == answer \in {"accepted", "duplicate"}

\* The answer, or the error, that ends SendDetection.  Either way the loop
\* logs it and goes on with the next event.
FinishEvent(a) ==
    /\ pc[a] = "posting" /\ Waiting(a, "main")
    /\ \E answer \in {"accepted", "refused", "lost"} :
          /\ \/ answer = "accepted" /\ Store(a)
             \/ answer = "refused" /\ "lose" \in Faults /\ UNCHANGED <<beat, stored>>
             \/ answer = "lost" /\ "lose" \in Faults /\ Unanswered(a, "main")
          /\ log' = [log EXCEPT ![a] =
                       Append(@, IF Accepts(answer) THEN "accepted" ELSE "failed")]
    /\ Await(a, Len(log[a]) + 2)
    /\ End(a, "main")
    /\ UNCHANGED <<keys, cameras, scenario, found, beats, sent, calm>>

-----------------------------------------------------------------------------
(* The adapter: heartbeatLoop.                                             *)

\* A tick is in the ticker's channel.
PostHeartbeat(a) ==
    /\ loop[a] = "idle" /\ due[a]
    /\ loop' = [loop EXCEPT ![a] = "posting"]
    /\ due' = [due EXCEPT ![a] = FALSE]
    /\ sent' = [sent EXCEPT ![found[a]] = 0]
    /\ Send(a, "beat")
    /\ UNCHANGED <<api, main, ticker, stored, calm>>

\* Mutant of Rest: a heartbeat that fails ends the loop, and its ticker with it.
RestUnlessFailed(a, well) ==
    /\ loop' = [loop EXCEPT ![a] = "idle"]
    /\ ticker' = [ticker EXCEPT ![a] = IF ~well THEN None ELSE IF @ = None THEN Interval ELSE @]
    /\ calm' = IF well THEN calm ELSE [calm EXCEPT ![a] = 0]

\* Back in the select of the loop, whether the heartbeat was accepted or only
\* logged as failed; the ticker is made after the first one.
Rest(a, well) ==
    /\ loop' = [loop EXCEPT ![a] = "idle"]
    /\ ticker' = [ticker EXCEPT ![a] = IF @ = None THEN Interval ELSE @]
    /\ calm' = IF well THEN calm ELSE [calm EXCEPT ![a] = 0]

FinishHeartbeat(a) ==
    /\ loop[a] = "posting" /\ Waiting(a, "beat")
    /\ \/ Stamp(a) /\ Rest(a, TRUE)
       \/ /\ "lose" \in Faults
          /\ Unanswered(a, "beat")
          /\ Rest(a, FALSE)
    /\ End(a, "beat")
    /\ UNCHANGED <<keys, cameras, main, due, sent>>

-----------------------------------------------------------------------------
(* Failures and time.                                                      *)

\* The request never ends; the API has handled it by now or never will.
Hang(a, g) ==
    /\ "hang" \in Faults
    /\ Running(a) /\ Waiting(a, g)
    /\ Unanswered(a, g)
    /\ call' = [call EXCEPT ![<<a, g>>] = Hung]
    /\ UNCHANGED <<keys, cameras, main, beats, sent, calm>>

\* Mutant of Stop: the end of main does not end the heartbeat loop.
StopMain(a) ==
    /\ "stop" \in Faults
    /\ Running(a)
    /\ pc' = [pc EXCEPT ![a] = "stopped"]
    /\ timer' = [timer EXCEPT ![a] = 0]
    /\ End(a, "main")
    /\ calm' = [calm EXCEPT ![a] = 0]
    /\ UNCHANGED <<api, scenario, found, log, beats, stored, sent>>

\* SIGTERM or a crash: both goroutines end; what was sent may yet be handled.
Stop(a) ==
    /\ "stop" \in Faults
    /\ Running(a)
    /\ pc' = [pc EXCEPT ![a] = "stopped"]
    /\ timer' = [timer EXCEPT ![a] = 0]
    /\ loop' = [loop EXCEPT ![a] = "off"]
    /\ ticker' = [ticker EXCEPT ![a] = None]
    /\ due' = [due EXCEPT ![a] = FALSE]
    /\ calm' = [calm EXCEPT ![a] = 0]
    /\ call' = [r \in Adapters \X Goroutines |->
                  IF r[1] = a /\ (call[r] = Hung \/ pc[a] = "discovering") THEN None ELSE call[r]]
    /\ UNCHANGED <<api, scenario, found, log, stored, sent>>

\* The API is done with a request whose sender is gone.
Outlive(a, g) ==
    /\ ~Running(a) /\ Waiting(a, g)
    /\ Unanswered(a, g)
    /\ End(a, g)
    /\ UNCHANGED <<keys, cameras, main, beats, sent, calm>>

\* A goroutine that is not waiting for anything goes on before time passes.
Prompt(a) ==
    \/ loop[a] = "idle" /\ due[a]
    \/ pc[a] \in {"pausing", "waiting"} /\ timer[a] = 0

\* One tick of time passes; a ticker that fires while a tick is still buffered
\* drops the new one.
Tick ==
    /\ \A a \in Adapters : ~Prompt(a) /\ \A g \in Goroutines : call[<<a, g>>] # MaxDelay
    /\ beat' = [c \in Cameras |-> Older(beat[c], Stale)]
    /\ timer' = [a \in Adapters |-> IF timer[a] > 0 THEN timer[a] - 1 ELSE 0]
    /\ due' = [a \in Adapters |-> due[a] \/ ticker[a] = 1]
    /\ ticker' = [a \in Adapters |->
                    IF ticker[a] = 1 THEN Interval
                    ELSE IF ticker[a] = None THEN None ELSE ticker[a] - 1]
    /\ call' = [r \in Adapters \X Goroutines |-> Older(call[r], MaxDelay)]
    /\ sent' = [c \in Cameras |-> Older(sent[c], Silent)]
    /\ calm' = [a \in Adapters |->
                  IF ~Running(a) \/ ~Connectable(a) \/ Stuck(a) THEN 0
                  ELSE Older(calm[a], Settled)]
    /\ UNCHANGED <<keys, cameras, pc, scenario, found, log, loop, stored>>

Main(a) ==
    \/ Discover(a) \/ DiscoverNothing(a) \/ DiscoverAgain(a)
    \/ PostEvent(a) \/ FinishEvent(a)

HeartbeatLoop(a) == PostHeartbeat(a) \/ FinishHeartbeat(a)

Next ==
    \/ \E a \in Adapters : Start(a) \/ Main(a) \/ HeartbeatLoop(a) \/ Stop(a)
    \/ \E a \in Adapters, g \in Goroutines : Hang(a, g) \/ Outlive(a, g)
    \/ \E c \in Cameras : RegisterCamera(c)
    \/ \E a \in Adapters : IssueKey(OrgOf[a])
    \/ Tick

Spec == Init /\ [][Next]_vars

-----------------------------------------------------------------------------
(* Properties.                                                             *)

\* "A visible camera-health transition no later than five minutes after a
\* missed heartbeat interval" (docs/OPERATIONS.md:5): a camera is not shown
\* online once its last heartbeat was sent longer ago than the window and the
\* time a request takes, whatever became of the adapter, of the API or of
\* requests that were still under way; and nobody else's heartbeat revives it.
HealthIsHonest ==
    \A c \in Cameras : Health(c) = "online" => sent[c] <= Window + MaxDelay

\* No false alarm: an adapter that is running and not stuck in a request, and
\* whose requests get through, has found its camera and keeps it online, at the
\* latest one discovery and one heartbeat after its last mishap: whatever went
\* wrong before, in whatever order the adapter, the camera and the key came to
\* be, and although slow heartbeats overlap the ticker.
HealthyIsOnline ==
    \A a \in Adapters :
        calm[a] = Settled => loop[a] # "off" /\ Health(found[a]) = "online"

\* The log accounts for the whole scenario: an event logged as accepted is in
\* the database, and an event in the database was posted in its turn, never
\* ahead of the log by more than the request under way.
ScenarioAccountedFor ==
    \A a \in Adapters :
        /\ \A i \in DOMAIN log[a] : log[a][i] = "accepted" => i \in stored[a]
        /\ stored[a] \subseteq 1 .. Len(log[a]) + (IF pc[a] \in {"posting", "stopped"} THEN 1 ELSE 0)

=============================================================================
