--------------------------- MODULE AdapterProofs ---------------------------
(***************************************************************************)
(* Proofs about Adapter, for any number of adapters and cameras, any       *)
(* scenarios and any intervals that keep the documented relation.          *)
(***************************************************************************)
EXTENDS Adapter, SequenceTheorems, TLAPS

USE PauseAssumption, IntervalAssumption, NoneAssumption

-----------------------------------------------------------------------------
(* The inductive invariants.                                               *)

\* A running adapter has loaded its scenario.
Scripted == \A a \in Adapters : Running(a) => scenario[a] \in Scenarios /\ Loadable(scenario[a])

\* The heartbeat loop of an adapter has ended with it.
Ended == \A a \in Adapters : ~Running(a) => loop[a] = "off"

Typing == TypeOK /\ Scripted /\ Ended

\* A heartbeat under way was sent when its request was, and one the API has recorded
\* was sent at most the longest request before.
Honest ==
    /\ \A c \in Cameras : beat[c] \in Nat /\ beat[c] <= Window => sent[c] <= beat[c] + MaxDelay
    /\ \A a \in Adapters : Waiting(a, "beat") =>
          found[a] \in Cameras /\ sent[found[a]] <= call[<<a, "beat">>]

\* Main waits for nothing but a discovery or a detection.
Asking == \A a \in Adapters : Running(a) /\ Waiting(a, "main") => pc[a] \in {"discovering", "posting"}

StoredTyped == stored \in [Adapters -> SUBSET Nat]

Accounted == StoredTyped /\ Asking /\ ScenarioAccountedFor

\* How the goroutines of an adapter, its requests and its camera hang together.
Orderly(a) ==
    /\ loop[a] = "off" <=> pc[a] \in {"stopped", "discovering", "pausing"}
    /\ loop[a] # "off" => OrgOf[found[a]] = OrgOf[a]
    /\ loop[a] = "posting" => call[<<a, "beat">>] # None
    /\ loop[a] = "idle" => ticker[a] # None /\ call[<<a, "beat">>] = None
    /\ pc[a] = "discovering" => call[<<a, "main">>] # None

\* A mishap cannot be long ago while an adapter is still looking for its camera.
Seeking(a) ==
    /\ pc[a] = "stopped" => calm[a] = 0
    /\ pc[a] = "pausing" => calm[a] + timer[a] <= Pause
    /\ pc[a] = "discovering" => calm[a] <= Pause + MaxDelay
    /\ pc[a] = "discovering" /\ call[<<a, "main">>] \in Nat => calm[a] <= Pause + call[<<a, "main">>]

\* Ticks until the next heartbeat is answered, at most.
Ahead(a) ==
    IF loop[a] = "posting" THEN MaxDelay - call[<<a, "beat">>]
    ELSE IF due[a] THEN MaxDelay ELSE MaxDelay + ticker[a]

\* The last heartbeat, or else the last mishap, was at most an interval, a request
\* and a pause before the answer that comes next; a hung heartbeat keeps what was so.
Fresh(a) == beat[found[a]] \in Nat /\ beat[found[a]] + Ahead(a) <= Interval + MaxDelay
Recent(a) == calm[a] + Ahead(a) < Settled

Beating(a) ==
    /\ loop[a] # "off" /\ call[<<a, "beat">>] # Hung => Fresh(a) \/ Recent(a)
    /\ loop[a] # "off" /\ call[<<a, "beat">>] = Hung =>
          \/ beat[found[a]] \in Nat /\ beat[found[a]] <= Interval + MaxDelay
          \/ calm[a] < Settled

Healthy(a) == Orderly(a) /\ Seeking(a) /\ Beating(a)

Punctual == \A a \in Adapters : Healthy(a)

-----------------------------------------------------------------------------
(* Typing.                                                                 *)

LEMMA Bounds == /\ Stale \in Nat /\ Silent \in Nat /\ Settled \in Nat
                /\ Settled > Pause + 2 * MaxDelay /\ Settled > Interval + MaxDelay
                /\ Window < Stale
  BY DEF Stale, Silent, Settled

ApiTyped ==
    /\ keys \in SUBSET {OrgOf[a] : a \in Adapters}
    /\ cameras \in SUBSET Cameras
    /\ beat \in [Cameras -> 0..Stale \union {None}]

MainTyped ==
    /\ pc \in [Adapters -> Steps]
    /\ scenario \in [Adapters -> Scenarios \union {None}]
    /\ found \in [Adapters -> Cameras \union {None}]
    /\ timer \in [Adapters -> Nat]
    /\ log \in [Adapters -> Seq({"accepted", "failed"})]

LoopTyped ==
    /\ loop \in [Adapters -> {"off", "posting", "idle"}]
    /\ ticker \in [Adapters -> 1..Interval \union {None}]
    /\ due \in [Adapters -> BOOLEAN]

CallTyped == call \in [Adapters \X Goroutines -> 0..MaxDelay \union {None, Hung}]
SentTyped == sent \in [Cameras -> 0..Silent]
CalmTyped == calm \in [Adapters -> 0..Settled]

Attached == \A a \in Adapters : loop[a] # "off" => found[a] \in cameras

LEMMA TypingParts ==
  Typing <=> /\ ApiTyped /\ MainTyped /\ LoopTyped /\ CallTyped /\ SentTyped /\ CalmTyped
             /\ Attached /\ Scripted /\ Ended
  BY DEF Typing, TypeOK, ApiTyped, MainTyped, LoopTyped, CallTyped, SentTyped, CalmTyped, Attached

LEMMA TypingInit == Init => Typing
  <1>. SUFFICES ASSUME Init PROVE Typing
    OBVIOUS
  <1>1. ApiTyped /\ SentTyped /\ CalmTyped
    BY Bounds, SeededAssumption DEF Init, ApiTyped, SentTyped, CalmTyped
  <1>2. MainTyped
    BY EmptySeq DEF Init, MainTyped, Steps
  <1>3. LoopTyped /\ CallTyped
    BY DEF Init, LoopTyped, CallTyped
  <1>4. Attached /\ Scripted /\ Ended
    BY DEF Init, Attached, Scripted, Ended, Running
  <1>. QED
    BY <1>1, <1>2, <1>3, <1>4, TypingParts

\* What the API records of a heartbeat is that it has just come.
LEMMA StampTyped ==
  ASSUME ApiTyped, NEW a \in Adapters, UNCHANGED <<keys, cameras>>,
         UNCHANGED beat \/ Stamp(a)
  PROVE  ApiTyped'
  <1>1. beat' \in [Cameras -> 0..Stale \union {None}]
    <2>1. CASE Stamp(a)
      <3>1. 0 \in 0..Stale
        BY Bounds
      <3>. QED
        BY <2>1, <3>1 DEF ApiTyped, Stamp
    <2>. QED
      BY <2>1 DEF ApiTyped
  <1>. QED
    BY <1>1 DEF ApiTyped

LEMMA UnansweredTyped ==
  ASSUME ApiTyped, NEW a \in Adapters, NEW g \in Goroutines, UNCHANGED <<keys, cameras>>,
         Unanswered(a, g)
  PROVE  ApiTyped'
  BY StampTyped DEF Unanswered, Store

\* A goroutine sends a request, or its request ends.
LEMMA CallStep ==
  ASSUME CallTyped, NEW a \in Adapters, NEW g \in Goroutines,
         Send(a, g) \/ End(a, g) \/ call' = [call EXCEPT ![<<a, g>>] = Hung]
  PROVE  CallTyped'
  <1>1. <<a, g>> \in Adapters \X Goroutines /\ 0 \in 0..MaxDelay
    OBVIOUS
  <1>. QED
    BY <1>1 DEF CallTyped, Send, End

\* The time until the next event is one of the scenario.
LEMMA AwaitStep ==
  ASSUME MainTyped, NEW a \in Adapters, NEW n \in Nat \ {0}, Await(a, n),
         scenario[a] \in Scenarios, Loadable(scenario[a])
  PROVE  /\ pc' \in [Adapters -> Steps]
         /\ timer' \in [Adapters -> Nat]
  <1>1. scenario[a].events \in Seq([after : Int, valid : BOOLEAN])
    BY ScenariosAssumption
  <1>2. ASSUME n <= Len(scenario[a].events) PROVE scenario[a].events[n].after \in Nat
    <2>1. n \in DOMAIN scenario[a].events
      BY <1>1, <1>2, LenProperties
    <2>2. scenario[a].events[n].after >= 0
      BY <2>1 DEF Loadable
    <2>3. scenario[a].events[n] \in [after : Int, valid : BOOLEAN]
      <3>1. n \in 1..Len(scenario[a].events)
        BY <1>1, <2>1, LenProperties
      <3>. QED
        BY <1>1, <3>1, ElementOfSeq
    <2>. QED
      BY <2>2, <2>3
  <1>3. PICK t \in Nat : timer' = [timer EXCEPT ![a] = t]
    BY <1>2 DEF Await
  <1>4. PICK step \in Steps : pc' = [pc EXCEPT ![a] = step]
    BY DEF Await, Steps
  <1>. QED
    BY <1>3, <1>4 DEF MainTyped

LEMMA TypingStep == Typing /\ [Next]_vars => Typing'
  <1>. SUFFICES ASSUME Typing, [Next]_vars PROVE Typing'
    OBVIOUS
  <1>0. /\ ApiTyped /\ MainTyped /\ LoopTyped /\ CallTyped /\ SentTyped /\ CalmTyped
        /\ Attached /\ Scripted /\ Ended
    BY TypingParts
  <1>. DEFINE Api == ApiTyped'
              Run == MainTyped' /\ Scripted'
              Beats == LoopTyped'
              Times == CallTyped' /\ SentTyped' /\ CalmTyped'
              Ties == Attached' /\ Ended'
              Goal == Api /\ Run /\ Beats /\ Times /\ Ties
  <1>. SUFFICES Goal
    BY DEF Typing, TypeOK, ApiTyped, MainTyped, LoopTyped, CallTyped, SentTyped, CalmTyped, Attached
  <1>. USE <1>0
  <1>a. ASSUME UNCHANGED api PROVE Api
    BY <1>a DEF api, ApiTyped
  <1>b. ASSUME UNCHANGED main PROVE Run
    BY <1>b DEF main, MainTyped, Scripted, Running
  <1>c. ASSUME UNCHANGED beats PROVE Beats
    BY <1>c DEF beats, LoopTyped
  <1>d. ASSUME CallTyped', UNCHANGED sent,
               UNCHANGED calm \/ \E a \in Adapters : calm' = [calm EXCEPT ![a] = 0]
        PROVE  Times
    BY <1>d, Bounds DEF SentTyped, CalmTyped
  <1>e. ASSUME NEW a \in Adapters, NEW step \in Steps, UNCHANGED <<scenario, found, log>>,
               pc' = [pc EXCEPT ![a] = step], timer' \in [Adapters -> Nat],
               step = "stopped" \/ Running(a)
        PROVE  Run
    BY <1>e DEF MainTyped, Scripted, Running
  <1>f. ASSUME UNCHANGED <<found, loop>>, cameras \subseteq cameras',
               \A a \in Adapters : Running(a) => Running(a)'
        PROVE  Ties
    BY <1>f DEF Attached, Ended, LoopTyped
  <1>1. ASSUME NEW a \in Adapters, Start(a) PROVE Goal
    <2>1. PICK s \in Scenarios : Loadable(s) /\ scenario' = [scenario EXCEPT ![a] = s]
      BY <1>1 DEF Start
    <2>2. /\ ~Running(a)
          /\ pc' = [pc EXCEPT ![a] = "discovering"]
          /\ found' = [found EXCEPT ![a] = None]
          /\ log' = [log EXCEPT ![a] = <<>>]
          /\ UNCHANGED timer
          /\ UNCHANGED api /\ UNCHANGED beats /\ UNCHANGED <<sent, calm>>
          /\ Send(a, "main")
      BY <1>1 DEF Start
    <2>3. MainTyped'
      BY <2>1, <2>2, EmptySeq DEF MainTyped, Steps
    <2>4. Scripted'
      BY <2>1, <2>2 DEF Scripted, MainTyped, Running
    <2>5. CallTyped'
      BY <2>2, CallStep DEF Goroutines
    <2>6. Ties
      BY <2>2 DEF Attached, Ended, MainTyped, LoopTyped, Running, api, beats
    <2>. QED
      BY <1>a, <1>c, <1>d, <2>2, <2>3, <2>4, <2>5, <2>6
  <1>2. ASSUME NEW a \in Adapters, Discover(a) PROVE Goal
    <2>1. PICK c \in Visible(a) : /\ found' = [found EXCEPT ![a] = c]
                                  /\ sent' = [sent EXCEPT ![c] = 0]
      BY <1>2 DEF Discover
    <2>2. c \in cameras /\ c \in Cameras
      BY DEF Visible, ApiTyped
    <2>3. /\ pc[a] = "discovering"
          /\ Await(a, 1)
          /\ loop' = [loop EXCEPT ![a] = "posting"]
          /\ call' = [call EXCEPT ![<<a, "main">>] = None, ![<<a, "beat">>] = 0]
          /\ UNCHANGED api /\ UNCHANGED <<scenario, log, ticker, due, calm>>
      BY <1>2 DEF Discover
    <2>4. Running(a) /\ scenario[a] \in Scenarios /\ Loadable(scenario[a])
      BY <2>3 DEF Running, Scripted
    <2>5. pc' \in [Adapters -> Steps] /\ timer' \in [Adapters -> Nat]
      BY <2>3, <2>4, AwaitStep
    <2>6. MainTyped'
      BY <2>1, <2>2, <2>3, <2>5 DEF MainTyped
    <2>7. PICK step \in Steps \ {"stopped"} : pc' = [pc EXCEPT ![a] = step]
      BY <2>3 DEF Await, Steps
    <2>8. Scripted'
      BY <2>3, <2>4, <2>7 DEF Scripted, MainTyped, Running
    <2>9. Beats
      BY <2>3 DEF LoopTyped
    <2>10. CallTyped'
      <3>1. <<a, "main">> \in Adapters \X Goroutines /\ <<a, "beat">> \in Adapters \X Goroutines
            /\ 0 \in 0..MaxDelay
        BY DEF Goroutines
      <3>. QED
        BY <2>3, <3>1 DEF CallTyped
    <2>11. SentTyped' /\ CalmTyped'
      <3>1. 0 \in 0..Silent
        BY Bounds
      <3>. QED
        BY <2>1, <2>3, <3>1 DEF SentTyped, CalmTyped
    <2>12. Ties
      BY <2>1, <2>2, <2>3, <2>7 DEF Attached, Ended, MainTyped, LoopTyped, Running, api
    <2>. QED
      BY <1>a, <2>3, <2>6, <2>8, <2>9, <2>10, <2>11, <2>12
  <1>3. ASSUME NEW a \in Adapters, NEW step \in {"pausing", "discovering", "posting"},
               pc[a] \in {"discovering", "pausing", "waiting"}, pc' = [pc EXCEPT ![a] = step],
               UNCHANGED timer \/ timer' = [timer EXCEPT ![a] = Pause],
               Send(a, "main") \/ End(a, "main"),
               UNCHANGED calm \/ calm' = [calm EXCEPT ![a] = 0],
               UNCHANGED api, UNCHANGED beats, UNCHANGED <<scenario, found, log, sent>>
        PROVE  Goal
    <2>1. step \in Steps /\ Running(a)
      BY <1>3 DEF Steps, Running
    <2>2. timer' \in [Adapters -> Nat]
      BY <1>3 DEF MainTyped
    <2>3. Run
      BY <1>3, <1>e, <2>1, <2>2
    <2>4. CallTyped'
      BY <1>3, CallStep DEF Goroutines
    <2>5. \A x \in Adapters : Running(x) => Running(x)'
      BY <1>3 DEF Running, MainTyped
    <2>6. Ties
      BY <1>3, <1>f, <2>5 DEF api, beats
    <2>. QED
      BY <1>3, <1>a, <1>c, <1>d, <2>3, <2>4, <2>6
  <1>4. ASSUME NEW a \in Adapters, DiscoverNothing(a) \/ DiscoverAgain(a) \/ PostEvent(a)
        PROVE  Goal
    BY <1>3, <1>4 DEF DiscoverNothing, DiscoverAgain, PostEvent
  <1>5. ASSUME NEW a \in Adapters, FinishEvent(a) PROVE Goal
    <2>1. PICK entry \in {"accepted", "failed"} : log' = [log EXCEPT ![a] = Append(@, entry)]
      BY <1>5 DEF FinishEvent
    <2>2. /\ pc[a] = "posting" /\ Await(a, Len(log[a]) + 2) /\ End(a, "main")
          /\ UNCHANGED <<scenario, found>> /\ UNCHANGED beats /\ UNCHANGED <<sent, calm>>
          /\ UNCHANGED <<keys, cameras, beat>>
      BY <1>5 DEF FinishEvent, Store, Unanswered
    <2>3. log[a] \in Seq({"accepted", "failed"})
      BY DEF MainTyped
    <2>4. Len(log[a]) + 2 \in Nat \ {0}
      BY <2>3, LenProperties
    <2>5. Running(a) /\ scenario[a] \in Scenarios /\ Loadable(scenario[a])
      BY <2>2 DEF Running, Scripted
    <2>6. pc' \in [Adapters -> Steps] /\ timer' \in [Adapters -> Nat]
      BY <2>2, <2>4, <2>5, AwaitStep
    <2>7. Append(log[a], entry) \in Seq({"accepted", "failed"})
      BY <2>3, AppendProperties
    <2>8. MainTyped'
      BY <2>1, <2>2, <2>6, <2>7 DEF MainTyped
    <2>9. PICK step \in Steps \ {"stopped"} : pc' = [pc EXCEPT ![a] = step]
      BY <2>2 DEF Await, Steps
    <2>10. Scripted' /\ \A x \in Adapters : Running(x) => Running(x)'
      BY <2>2, <2>5, <2>9 DEF Scripted, MainTyped, Running
    <2>11. CallTyped'
      BY <2>2, CallStep DEF Goroutines
    <2>12. Ties
      BY <1>f, <2>2, <2>10 DEF beats
    <2>. QED
      BY <1>a, <1>c, <1>d, <2>2, <2>8, <2>10, <2>11, <2>12 DEF api
  <1>6. ASSUME NEW a \in Adapters, PostHeartbeat(a) PROVE Goal
    <2>1. /\ loop[a] = "idle"
          /\ loop' = [loop EXCEPT ![a] = "posting"]
          /\ due' = [due EXCEPT ![a] = FALSE]
          /\ sent' = [sent EXCEPT ![found[a]] = 0]
          /\ Send(a, "beat")
          /\ UNCHANGED api /\ UNCHANGED main /\ UNCHANGED <<ticker, calm>>
      BY <1>6 DEF PostHeartbeat
    <2>2. LoopTyped'
      BY <2>1 DEF LoopTyped
    <2>3. CallTyped'
      BY <2>1, CallStep DEF Goroutines
    <2>4. SentTyped'
      <3>1. 0 \in 0..Silent
        BY Bounds
      <3>. QED
        BY <2>1, <3>1 DEF SentTyped
    <2>5. CalmTyped'
      BY <2>1 DEF CalmTyped
    <2>6. Ties
      BY <2>1 DEF Attached, Ended, Running, LoopTyped, api, main
    <2>. QED
      BY <1>a, <1>b, <2>1, <2>2, <2>3, <2>4, <2>5, <2>6
  <1>7. ASSUME NEW a \in Adapters, FinishHeartbeat(a) PROVE Goal
    <2>1. /\ loop[a] = "posting"
          /\ loop' = [loop EXCEPT ![a] = "idle"]
          /\ ticker' = [ticker EXCEPT ![a] = IF @ = None THEN Interval ELSE @]
          /\ UNCHANGED calm \/ calm' = [calm EXCEPT ![a] = 0]
          /\ End(a, "beat")
          /\ UNCHANGED <<keys, cameras, due, sent>> /\ UNCHANGED main
          /\ Stamp(a) \/ Unanswered(a, "beat")
      BY <1>7 DEF FinishHeartbeat, Rest
    <2>2. ApiTyped'
      BY <2>1, StampTyped, UnansweredTyped DEF Goroutines
    <2>3. LoopTyped'
      BY <2>1 DEF LoopTyped
    <2>4. CallTyped'
      BY <2>1, CallStep DEF Goroutines
    <2>5. Ties
      BY <2>1 DEF Attached, Ended, Running, LoopTyped, main
    <2>. QED
      BY <1>b, <1>d, <2>1, <2>2, <2>3, <2>4, <2>5
  <1>8. ASSUME NEW a \in Adapters, NEW g \in Goroutines, Unanswered(a, g),
               End(a, g) \/ call' = [call EXCEPT ![<<a, g>>] = Hung],
               UNCHANGED <<keys, cameras>>, UNCHANGED main, UNCHANGED beats,
               UNCHANGED <<sent, calm>>
        PROVE  Goal
    <2>1. ApiTyped' /\ CallTyped'
      BY <1>8, UnansweredTyped, CallStep
    <2>2. Ties
      BY <1>8, <1>f DEF main, beats, Running
    <2>. QED
      BY <1>8, <1>b, <1>c, <1>d, <2>1, <2>2
  <1>9. ASSUME NEW a \in Adapters, NEW g \in Goroutines, Hang(a, g) \/ Outlive(a, g) PROVE Goal
    BY <1>8, <1>9 DEF Hang, Outlive
  <1>10. ASSUME NEW a \in Adapters, Stop(a) PROVE Goal
    <2>1. /\ pc' = [pc EXCEPT ![a] = "stopped"]
          /\ timer' = [timer EXCEPT ![a] = 0]
          /\ loop' = [loop EXCEPT ![a] = "off"]
          /\ ticker' = [ticker EXCEPT ![a] = None]
          /\ due' = [due EXCEPT ![a] = FALSE]
          /\ calm' = [calm EXCEPT ![a] = 0]
          /\ UNCHANGED api /\ UNCHANGED <<scenario, found, log, sent>>
      BY <1>10 DEF Stop
    <2>2. call' = [r \in Adapters \X Goroutines |->
                     IF r[1] = a /\ (call[r] = Hung \/ pc[a] = "discovering")
                     THEN None ELSE call[r]]
      BY <1>10 DEF Stop
    <2>3. CallTyped'
      BY <2>2 DEF CallTyped
    <2>4. "stopped" \in Steps /\ timer' \in [Adapters -> Nat]
      BY <2>1 DEF Steps, MainTyped
    <2>5. Run
      BY <1>e, <2>1, <2>4
    <2>6. Beats
      BY <2>1 DEF LoopTyped
    <2>7. Ties
      BY <2>1 DEF Attached, Ended, Running, LoopTyped, MainTyped, api
    <2>. QED
      BY <1>a, <1>d, <2>1, <2>3, <2>5, <2>6, <2>7
  <1>11. ASSUME NEW c \in Cameras, RegisterCamera(c) PROVE Goal
    <2>1. /\ cameras' = cameras \union {c}
          /\ UNCHANGED <<keys, beat, call, sent, calm>> /\ UNCHANGED main /\ UNCHANGED beats
      BY <1>11 DEF RegisterCamera
    <2>2. ApiTyped' /\ CallTyped'
      BY <2>1 DEF ApiTyped, CallTyped
    <2>3. Ties
      BY <1>f, <2>1 DEF main, beats, Running
    <2>. QED
      BY <1>b, <1>c, <1>d, <2>1, <2>2, <2>3
  <1>12. ASSUME NEW a \in Adapters, IssueKey(OrgOf[a]) PROVE Goal
    <2>1. /\ keys' = keys \union {OrgOf[a]}
          /\ UNCHANGED <<cameras, beat, call, sent, calm>> /\ UNCHANGED main /\ UNCHANGED beats
      BY <1>12 DEF IssueKey
    <2>2. ApiTyped' /\ CallTyped'
      BY <2>1 DEF ApiTyped, CallTyped
    <2>3. Ties
      BY <1>f, <2>1 DEF main, beats, Running
    <2>. QED
      BY <1>b, <1>c, <1>d, <2>1, <2>2, <2>3
  <1>13. CASE Tick
    <2>1. UNCHANGED <<keys, cameras, pc, scenario, found, log, loop>>
      BY <1>13 DEF Tick
    <2>2. ApiTyped'
      <3>1. beat' = [c \in Cameras |-> Older(beat[c], Stale)]
        BY <1>13 DEF Tick
      <3>2. \A c \in Cameras : Older(beat[c], Stale) \in 0..Stale \union {None}
        BY Bounds DEF ApiTyped, Older
      <3>. QED
        BY <2>1, <3>1, <3>2 DEF ApiTyped
    <2>3. SentTyped'
      <3>1. sent' = [c \in Cameras |-> Older(sent[c], Silent)]
        BY <1>13 DEF Tick
      <3>2. \A c \in Cameras : Older(sent[c], Silent) \in 0..Silent
        BY Bounds DEF SentTyped, Older
      <3>. QED
        BY <3>1, <3>2 DEF SentTyped
    <2>4. CallTyped'
      <3>1. call' = [r \in Adapters \X Goroutines |-> Older(call[r], MaxDelay)]
        BY <1>13 DEF Tick
      <3>2. \A r \in Adapters \X Goroutines :
               Older(call[r], MaxDelay) \in 0..MaxDelay \union {None, Hung}
        BY DEF CallTyped, Older
      <3>. QED
        BY <3>1, <3>2 DEF CallTyped
    <2>5. CalmTyped'
      <3>1. \A a \in Adapters : Older(calm[a], Settled) \in 0..Settled /\ 0 \in 0..Settled
        BY Bounds DEF CalmTyped, Older
      <3>2. calm' = [a \in Adapters |->
                       IF ~Running(a) \/ ~Connectable(a) \/ Stuck(a) THEN 0
                       ELSE Older(calm[a], Settled)]
        BY <1>13 DEF Tick
      <3>. QED
        BY <3>1, <3>2 DEF CalmTyped
    <2>6. MainTyped'
      <3>1. timer' = [a \in Adapters |-> IF timer[a] > 0 THEN timer[a] - 1 ELSE 0]
        BY <1>13 DEF Tick
      <3>2. timer' \in [Adapters -> Nat]
        BY <3>1 DEF MainTyped
      <3>. QED
        BY <2>1, <3>2 DEF MainTyped
    <2>7. Scripted' /\ Ties
      BY <2>1 DEF Scripted, Attached, Ended, Running
    <2>8. LoopTyped'
      <3>1. /\ due' = [a \in Adapters |-> due[a] \/ ticker[a] = 1]
            /\ ticker' = [a \in Adapters |->
                            IF ticker[a] = 1 THEN Interval
                            ELSE IF ticker[a] = None THEN None ELSE ticker[a] - 1]
        BY <1>13 DEF Tick
      <3>2. due' \in [Adapters -> BOOLEAN]
        BY <3>1 DEF LoopTyped
      <3>3. ticker' \in [Adapters -> 1..Interval \union {None}]
        BY <3>1 DEF LoopTyped
      <3>. QED
        BY <2>1, <3>2, <3>3 DEF LoopTyped
    <2>. QED
      BY <2>2, <2>3, <2>4, <2>5, <2>6, <2>7, <2>8
  <1>14. CASE UNCHANGED vars
    <2>1. CallTyped' /\ Ties
      BY <1>14 DEF vars, CallTyped, Attached, Ended, Running, main, beats, api
    <2>. QED
      BY <1>14, <1>a, <1>b, <1>c, <1>d, <2>1 DEF vars
  <1>. QED
    BY <1>1, <1>2, <1>4, <1>5, <1>6, <1>7, <1>9, <1>10, <1>11, <1>12, <1>13, <1>14
    DEF Next, Main, HeartbeatLoop

LEMMA TypingHolds == Spec => []Typing
  BY TypingInit, TypingStep, PTL DEF Spec

\* The variables of the API, the adapters and the clocks always have their types.
THEOREM TypeCorrect == Spec => []TypeOK
  <1>1. Typing => TypeOK
    BY DEF Typing
  <1>. QED
    BY <1>1, TypingHolds, PTL

-----------------------------------------------------------------------------
(* Camera health.                                                          *)

LEMMA HonestInit == Init => Honest
  <1>1. \A a \in Adapters : <<a, "beat">> \in Adapters \X Goroutines
    BY DEF Goroutines
  <1>2. ASSUME Init, NEW a \in Adapters PROVE ~Waiting(a, "beat")
    <2>1. call[<<a, "beat">>] = None
      BY <1>1, <1>2 DEF Init
    <2>. QED
      BY <2>1 DEF Waiting
  <1>3. Init => \A c \in Cameras : beat[c] \notin Nat
    BY DEF Init
  <1>. QED
    BY <1>2, <1>3 DEF Honest

\* An answered, hung or outlived request has at most stamped its own camera, the
\* heartbeat of which was sent no longer ago than the longest request.
LEMMA StampHonest ==
  ASSUME Typing, Honest, NEW a \in Adapters, Waiting(a, "beat"), UNCHANGED <<found, sent>>,
         UNCHANGED beat \/ Stamp(a),
         \A x \in Adapters : Waiting(x, "beat")' => call'[<<x, "beat">>] = call[<<x, "beat">>]
  PROVE  Honest'
  <1>1. \A c \in Cameras : /\ sent[c] \in Nat
                           /\ beat[c] \in Nat /\ beat[c] <= Window => sent[c] <= beat[c] + MaxDelay
    BY DEF Typing, TypeOK, Honest
  <1>2. found[a] \in Cameras /\ sent[found[a]] <= MaxDelay
    <2>1. <<a, "beat">> \in Adapters \X Goroutines
      BY DEF Goroutines
    <2>2. call[<<a, "beat">>] \in 0..MaxDelay
      BY <2>1 DEF Typing, TypeOK, Waiting
    <2>3. found[a] \in Cameras /\ sent[found[a]] <= call[<<a, "beat">>]
      BY DEF Honest
    <2>. QED
      BY <1>1, <2>2, <2>3
  <1>3. ASSUME NEW c \in Cameras, beat'[c] \in Nat, beat'[c] <= Window
        PROVE  sent'[c] <= beat'[c] + MaxDelay
    <2>1. CASE beat'[c] = beat[c]
      BY <1>1, <1>3, <2>1
    <2>2. CASE c = found[a] /\ beat'[c] = 0
      BY <1>2, <2>2
    <2>. QED
      BY <2>1, <2>2 DEF Stamp
  <1>4. \A x \in Adapters : Waiting(x, "beat")' =>
          found'[x] \in Cameras /\ sent'[found'[x]] <= call'[<<x, "beat">>]
    BY DEF Honest, Waiting
  <1>. QED
    BY <1>3, <1>4 DEF Honest

LEMMA HonestStep == Typing /\ Honest /\ [Next]_vars => Honest'
  <1>. SUFFICES ASSUME Typing, Honest, [Next]_vars PROVE Honest'
    OBVIOUS
  <1>0. /\ sent \in [Cameras -> 0..Silent]
        /\ call \in [Adapters \X Goroutines -> 0..MaxDelay \union {None, Hung}]
        /\ Silent \in Nat
        /\ \A a \in Adapters, g \in Goroutines : <<a, g>> \in Adapters \X Goroutines
        /\ \A c \in Cameras : sent[c] \in Nat
        /\ found \in [Adapters -> Cameras \union {None}]
        /\ beat \in [Cameras -> 0..Stale \union {None}]
    BY Bounds DEF Typing, TypeOK
  <1>a. ASSUME UNCHANGED <<beat, sent, found>>,
               \A x \in Adapters : Waiting(x, "beat")' => call'[<<x, "beat">>] = call[<<x, "beat">>]
        PROVE  Honest'
    BY <1>a DEF Honest, Waiting
  <1>b. ASSUME NEW a \in Adapters, Send(a, "main") \/ End(a, "main") \/ End(a, "beat")
        PROVE  \A x \in Adapters : Waiting(x, "beat")' => call'[<<x, "beat">>] = call[<<x, "beat">>]
    BY <1>0, <1>b DEF Send, End, Waiting, Goroutines
  <1>1. ASSUME NEW a \in Adapters, Start(a) PROVE Honest'
    <2>1. /\ \A g \in Goroutines : call[<<a, g>>] = None
          /\ found' = [found EXCEPT ![a] = None]
          /\ call' = [call EXCEPT ![<<a, "main">>] = 0]
          /\ UNCHANGED <<beat, sent>>
      BY <1>1 DEF Start, Send, api
    <2>2. ASSUME NEW x \in Adapters, Waiting(x, "beat")'
          PROVE  found'[x] = found[x] /\ call'[<<x, "beat">>] = call[<<x, "beat">>]
      BY <1>0, <2>1, <2>2 DEF Waiting, Goroutines
    <2>. QED
      BY <2>1, <2>2 DEF Honest, Waiting
  <1>2. ASSUME NEW a \in Adapters, Discover(a) PROVE Honest'
    <2>1. PICK c \in Visible(a) : /\ found' = [found EXCEPT ![a] = c]
                                  /\ sent' = [sent EXCEPT ![c] = 0]
      BY <1>2 DEF Discover
    <2>2. c \in Cameras
      BY DEF Visible, Typing, TypeOK
    <2>3. call' = [call EXCEPT ![<<a, "main">>] = None, ![<<a, "beat">>] = 0]
          /\ UNCHANGED beat
      BY <1>2 DEF Discover, api
    <2>4. \A y \in Cameras : sent'[y] <= sent[y] /\ sent'[y] \in Nat
      BY <1>0, <2>1
    <2>5. \A y \in Cameras : beat'[y] \in Nat /\ beat'[y] <= Window =>
                               sent'[y] <= beat'[y] + MaxDelay
      BY <1>0, <2>3, <2>4 DEF Honest
    <2>6. ASSUME NEW x \in Adapters, Waiting(x, "beat")'
          PROVE  found'[x] \in Cameras /\ sent'[found'[x]] <= call'[<<x, "beat">>]
      <3>1. CASE x = a
        <4>1. found'[a] = c /\ call'[<<a, "beat">>] = 0 /\ sent'[c] = 0
          BY <1>0, <2>1, <2>2, <2>3 DEF Goroutines
        <4>. QED
          BY <2>2, <3>1, <4>1
      <3>2. CASE x # a
        <4>1. found'[x] = found[x] /\ call'[<<x, "beat">>] = call[<<x, "beat">>]
          BY <1>0, <2>1, <2>3, <3>2 DEF Goroutines
        <4>2. Waiting(x, "beat")
          BY <2>6, <4>1 DEF Waiting
        <4>3. found[x] \in Cameras /\ sent[found[x]] <= call[<<x, "beat">>]
              /\ call[<<x, "beat">>] \in Nat
          BY <4>2 DEF Honest, Waiting
        <4>. QED
          BY <1>0, <2>4, <4>1, <4>3
      <3>. QED
        BY <3>1, <3>2
    <2>. QED
      BY <2>5, <2>6 DEF Honest
  <1>3. ASSUME NEW a \in Adapters,
               DiscoverNothing(a) \/ DiscoverAgain(a) \/ PostEvent(a) \/ FinishEvent(a)
        PROVE  Honest'
    <2>1. UNCHANGED <<beat, sent, found>> /\ (Send(a, "main") \/ End(a, "main"))
      BY <1>3 DEF DiscoverNothing, DiscoverAgain, PostEvent, FinishEvent, Store, Unanswered, api
    <2>. QED
      BY <1>a, <1>b, <2>1
  <1>4. ASSUME NEW a \in Adapters, PostHeartbeat(a) PROVE Honest'
    <2>1. /\ loop[a] = "idle"
          /\ sent' = [sent EXCEPT ![found[a]] = 0]
          /\ call' = [call EXCEPT ![<<a, "beat">>] = 0]
          /\ UNCHANGED <<found, beat>>
      BY <1>4 DEF PostHeartbeat, Send, api, main
    <2>2. found[a] \in Cameras
      BY <2>1 DEF Typing, TypeOK
    <2>3. \A y \in Cameras : sent'[y] <= sent[y] /\ sent'[y] \in Nat
      BY <1>0, <2>1
    <2>4. \A y \in Cameras : beat'[y] \in Nat /\ beat'[y] <= Window =>
                               sent'[y] <= beat'[y] + MaxDelay
      BY <1>0, <2>1, <2>3 DEF Honest
    <2>5. ASSUME NEW x \in Adapters, Waiting(x, "beat")'
          PROVE  found'[x] \in Cameras /\ sent'[found'[x]] <= call'[<<x, "beat">>]
      <3>1. CASE x = a
        <4>1. sent'[found[a]] = 0 /\ call'[<<a, "beat">>] = 0
          BY <1>0, <2>1, <2>2 DEF Goroutines
        <4>. QED
          BY <2>1, <2>2, <3>1, <4>1
      <3>2. CASE x # a
        <4>1. call'[<<x, "beat">>] = call[<<x, "beat">>]
          BY <1>0, <2>1, <3>2 DEF Goroutines
        <4>2. Waiting(x, "beat")
          BY <2>5, <4>1 DEF Waiting
        <4>3. found[x] \in Cameras /\ sent[found[x]] <= call[<<x, "beat">>]
              /\ call[<<x, "beat">>] \in Nat
          BY <4>2 DEF Honest, Waiting
        <4>. QED
          BY <1>0, <2>1, <2>3, <4>1, <4>3
      <3>. QED
        BY <3>1, <3>2
    <2>. QED
      BY <2>4, <2>5 DEF Honest
  <1>5. ASSUME NEW a \in Adapters, FinishHeartbeat(a) PROVE Honest'
    <2>1. Waiting(a, "beat") /\ UNCHANGED <<found, sent>> /\ End(a, "beat")
          /\ (UNCHANGED beat \/ Stamp(a))
      BY <1>5 DEF FinishHeartbeat, Unanswered, Store, main
    <2>. QED
      BY <1>b, <2>1, StampHonest
  <1>6. ASSUME NEW a \in Adapters, NEW g \in Goroutines, Hang(a, g) \/ Outlive(a, g) PROVE Honest'
    <2>1. \A x \in Adapters : Waiting(x, "beat")' => call'[<<x, "beat">>] = call[<<x, "beat">>]
      BY <1>0, <1>6 DEF Hang, Outlive, End, Waiting, Goroutines
    <2>2. UNCHANGED <<found, sent>> /\ Waiting(a, g) /\ Unanswered(a, g)
      BY <1>6 DEF Hang, Outlive, main
    <2>3. CASE g = "beat" /\ Stamp(a)
      BY <2>1, <2>2, <2>3, StampHonest
    <2>4. CASE UNCHANGED beat
      BY <1>a, <2>1, <2>2, <2>4
    <2>. QED
      BY <2>2, <2>3, <2>4 DEF Unanswered, Store
  <1>7. ASSUME NEW a \in Adapters, Stop(a) PROVE Honest'
    <2>1. UNCHANGED <<beat, sent, found>>
      BY <1>7 DEF Stop, api
    <2>2. \A x \in Adapters : Waiting(x, "beat")' => call'[<<x, "beat">>] = call[<<x, "beat">>]
      BY <1>0, <1>7 DEF Stop, Waiting, Goroutines
    <2>. QED
      BY <1>a, <2>1, <2>2
  <1>8. ASSUME UNCHANGED <<beat, sent, found, call>> PROVE Honest'
    BY <1>8, <1>a
  <1>9. ASSUME NEW c \in Cameras, RegisterCamera(c) PROVE Honest'
    BY <1>8, <1>9 DEF RegisterCamera, main
  <1>10. ASSUME NEW a \in Adapters, IssueKey(OrgOf[a]) PROVE Honest'
    BY <1>8, <1>10 DEF IssueKey, main
  <1>11. CASE Tick
    <2>1. /\ beat' = [c \in Cameras |-> Older(beat[c], Stale)]
          /\ sent' = [c \in Cameras |-> Older(sent[c], Silent)]
          /\ call' = [r \in Adapters \X Goroutines |-> Older(call[r], MaxDelay)]
          /\ UNCHANGED found
          /\ \A a \in Adapters : \A g \in Goroutines : call[<<a, g>>] # MaxDelay
      BY <1>11 DEF Tick
    <2>2. \A c \in Cameras : sent'[c] \in Nat /\ sent'[c] <= sent[c] + 1
      BY <1>0, <2>1 DEF Older
    <2>3. ASSUME NEW c \in Cameras, beat'[c] \in Nat, beat'[c] <= Window
          PROVE  sent'[c] <= beat'[c] + MaxDelay
      <3>1. beat[c] \in 0..Stale \union {None}
        BY <1>0
      <3>2. beat[c] \in Nat /\ beat'[c] = beat[c] + 1
        BY <2>1, <2>3, <3>1, Bounds DEF Older, Stale
      <3>3. sent[c] <= beat[c] + MaxDelay
        BY <2>3, <3>2 DEF Honest
      <3>. QED
        BY <1>0, <2>2, <3>2, <3>3
    <2>4. ASSUME NEW x \in Adapters, Waiting(x, "beat")'
          PROVE  found'[x] \in Cameras /\ sent'[found'[x]] <= call'[<<x, "beat">>]
      <3>1. <<x, "beat">> \in Adapters \X Goroutines /\ "beat" \in Goroutines
        BY DEF Goroutines
      <3>2. call[<<x, "beat">>] \in 0..MaxDelay \union {None, Hung} /\ call[<<x, "beat">>] # MaxDelay
        BY <1>0, <2>1, <3>1
      <3>3. call[<<x, "beat">>] \in Nat /\ call'[<<x, "beat">>] = call[<<x, "beat">>] + 1
        BY <2>1, <2>4, <3>1, <3>2 DEF Older, Waiting
      <3>4. found[x] \in Cameras /\ sent[found[x]] <= call[<<x, "beat">>]
        BY <3>3 DEF Honest, Waiting
      <3>. QED
        BY <1>0, <2>1, <2>2, <3>3, <3>4
    <2>. QED
      BY <2>3, <2>4 DEF Honest
  <1>12. CASE UNCHANGED vars
    BY <1>8, <1>12 DEF vars, api, main
  <1>. QED
    BY <1>1, <1>2, <1>3, <1>4, <1>5, <1>6, <1>7, <1>9, <1>10, <1>11, <1>12
    DEF Next, Main, HeartbeatLoop

\* A camera is not shown online for longer than the window and a request after its
\* last heartbeat was sent.
THEOREM HealthCorrect == Spec => []HealthIsHonest
  <1>1. Typing /\ Honest => HealthIsHonest
    <2>. SUFFICES ASSUME Typing, Honest, NEW c \in Cameras, Health(c) = "online"
                  PROVE  sent[c] <= Window + MaxDelay
      BY DEF HealthIsHonest
    <2>1. beat[c] \in 0..Stale \union {None} /\ sent[c] \in 0..Silent
      BY DEF Typing, TypeOK
    <2>2. beat[c] \in Nat /\ beat[c] <= Window
      BY <2>1, Bounds DEF Health
    <2>3. sent[c] <= beat[c] + MaxDelay
      BY <2>2 DEF Honest
    <2>. QED
      BY <2>1, <2>2, <2>3, Bounds
  <1>. QED
    BY <1>1, TypingHolds, HonestInit, HonestStep, PTL DEF Spec

-----------------------------------------------------------------------------
(* The log of a scenario.                                                  *)

\* What the log of an adapter and the events stored for it have to do with each other.
Straight(a) ==
    /\ \A i \in DOMAIN log[a] : log[a][i] = "accepted" => i \in stored[a]
    /\ stored[a] \subseteq
         1 .. Len(log[a]) + (IF pc[a] \in {"posting", "stopped"} THEN 1 ELSE 0)

LEMMA AccountedParts == Accounted <=> StoredTyped /\ Asking /\ \A a \in Adapters : Straight(a)
  BY DEF Accounted, ScenarioAccountedFor, Straight

LEMMA AccountedInit == Init => Accounted
  <1>. SUFFICES ASSUME Init PROVE Accounted
    OBVIOUS
  <1>1. StoredTyped /\ Asking
    BY DEF Init, StoredTyped, Asking, Running
  <1>2. ASSUME NEW a \in Adapters PROVE Straight(a)
    BY EmptySeq DEF Init, Straight
  <1>. QED
    BY <1>1, <1>2, AccountedParts

LEMMA AccountedStep == Typing /\ Accounted /\ [Next]_vars => Accounted'
  <1>. SUFFICES ASSUME Typing, Accounted, [Next]_vars PROVE Accounted'
    OBVIOUS
  <1>0. /\ StoredTyped /\ Asking /\ \A a \in Adapters : Straight(a)
        /\ call \in [Adapters \X Goroutines -> 0..MaxDelay \union {None, Hung}]
        /\ \A a \in Adapters, g \in Goroutines : <<a, g>> \in Adapters \X Goroutines
        /\ pc \in [Adapters -> Steps]
        /\ log \in [Adapters -> Seq({"accepted", "failed"})]
        /\ \A a \in Adapters : Len(log[a]) \in Nat
    BY AccountedParts, LenProperties DEF Typing, TypeOK
  <1>. DEFINE Goal == StoredTyped' /\ Asking' /\ \A a \in Adapters : Straight(a)'
  <1>. SUFFICES Goal
    BY DEF Accounted, ScenarioAccountedFor, Straight
  <1>. USE <1>0
  <1>a. ASSUME NEW a \in Adapters, UNCHANGED <<log, stored>>,
               pc[a] \in {"posting", "stopped"} => pc'[a] \in {"posting", "stopped"}
        PROVE  Straight(a)'
    BY <1>a DEF Straight, StoredTyped
  <1>b. ASSUME NEW a \in Adapters, log'[a] = log[a], stored'[a] = stored[a], pc'[a] = pc[a]
        PROVE  Straight(a)'
    BY <1>b DEF Straight
  <1>c. ASSUME UNCHANGED pc,
               \A a \in Adapters : Waiting(a, "main")' => Waiting(a, "main")
        PROVE  Asking'
    BY <1>c DEF Asking, Running
  <1>d. ASSUME NEW a \in Adapters, NEW step \in Steps, pc' = [pc EXCEPT ![a] = step],
               \/ call' = [call EXCEPT ![<<a, "main">>] = None]
               \/ step \in {"discovering", "posting"} /\ call' = [call EXCEPT ![<<a, "main">>] = 0]
        PROVE  Asking'
    BY <1>d DEF Asking, Running, Waiting, Goroutines
  <1>e. ASSUME UNCHANGED <<log, stored, pc>>,
               \A a \in Adapters : Waiting(a, "main")' => Waiting(a, "main")
        PROVE  Goal
    BY <1>e, <1>b, <1>c DEF StoredTyped
  \* An event reaches the database in its turn, whatever main hears of it.
  <1>f. ASSUME NEW a \in Adapters, NEW g \in Goroutines, Unanswered(a, g), UNCHANGED <<log, pc>>,
               Waiting(a, g), \A x \in Adapters : Waiting(x, "main")' => Waiting(x, "main")
        PROVE  Goal
    <2>1. CASE UNCHANGED stored
      BY <1>e, <1>f, <2>1
    <2>2. CASE g = "main" /\ pc[a] # "discovering" /\ Store(a)
      <3>1. stored' = [stored EXCEPT ![a] = @ \union {Len(log[a]) + 1}]
        BY <2>2 DEF Store
      <3>2. pc[a] \in {"posting", "stopped"}
        BY <1>f, <2>2 DEF Asking, Running
      <3>3. StoredTyped'
        BY <3>1 DEF StoredTyped
      <3>4. Straight(a)'
        BY <1>f, <3>1, <3>2 DEF Straight, StoredTyped
      <3>5. ASSUME NEW x \in Adapters, x # a PROVE Straight(x)'
        BY <1>b, <1>f, <3>1, <3>5 DEF StoredTyped
      <3>. QED
        BY <1>c, <1>f, <3>3, <3>4, <3>5
    <2>. QED
      BY <1>f, <2>1, <2>2 DEF Unanswered, Stamp
  <1>1. ASSUME NEW a \in Adapters, Start(a) PROVE Goal
    <2>1. /\ pc' = [pc EXCEPT ![a] = "discovering"]
          /\ call' = [call EXCEPT ![<<a, "main">>] = 0]
          /\ log' = [log EXCEPT ![a] = <<>>]
          /\ stored' = [stored EXCEPT ![a] = {}]
      BY <1>1 DEF Start, Send
    <2>2. Asking'
      BY <1>d, <2>1 DEF Steps
    <2>3. StoredTyped'
      BY <2>1 DEF StoredTyped
    <2>4. Straight(a)'
      <3>1. log'[a] = <<>> /\ stored'[a] = {}
        BY <2>1 DEF StoredTyped
      <3>. QED
        BY <3>1, EmptySeq DEF Straight
    <2>5. ASSUME NEW x \in Adapters, x # a PROVE Straight(x)'
      BY <1>b, <2>1, <2>5 DEF StoredTyped
    <2>. QED
      BY <2>2, <2>3, <2>4, <2>5
  <1>2. ASSUME NEW a \in Adapters, Discover(a) PROVE Goal
    <2>1. /\ pc[a] = "discovering" /\ Await(a, 1) /\ UNCHANGED <<log, stored>>
          /\ call' = [call EXCEPT ![<<a, "main">>] = None, ![<<a, "beat">>] = 0]
      BY <1>2 DEF Discover
    <2>2. PICK step \in {"waiting", "finished"} : pc' = [pc EXCEPT ![a] = step]
      BY <2>1 DEF Await
    <2>3. Asking'
      BY <2>1, <2>2 DEF Asking, Running, Waiting, Goroutines
    <2>4. \A x \in Adapters : Straight(x)'
      BY <1>a, <2>1, <2>2
    <2>. QED
      BY <2>1, <2>3, <2>4 DEF StoredTyped
  <1>3. ASSUME NEW a \in Adapters, DiscoverNothing(a) \/ DiscoverAgain(a) \/ PostEvent(a)
        PROVE  Goal
    <2>1. PICK step \in {"pausing", "discovering", "posting"} :
             /\ pc' = [pc EXCEPT ![a] = step]
             /\ \/ call' = [call EXCEPT ![<<a, "main">>] = None]
                \/ /\ step \in {"discovering", "posting"}
                   /\ call' = [call EXCEPT ![<<a, "main">>] = 0]
      BY <1>3 DEF DiscoverNothing, DiscoverAgain, PostEvent, Send, End
    <2>2. pc[a] \in {"discovering", "pausing", "waiting"} /\ UNCHANGED <<log, stored>>
      BY <1>3 DEF DiscoverNothing, DiscoverAgain, PostEvent
    <2>3. Asking'
      BY <1>d, <2>1 DEF Steps
    <2>4. \A x \in Adapters : Straight(x)'
      BY <1>a, <2>1, <2>2
    <2>. QED
      BY <2>2, <2>3, <2>4 DEF StoredTyped
  <1>4. ASSUME NEW a \in Adapters, FinishEvent(a) PROVE Goal
    <2>1. PICK answer \in {"accepted", "refused", "lost"} :
             /\ answer = "accepted" => Store(a)
             /\ Store(a) \/ UNCHANGED stored
             /\ log' = [log EXCEPT ![a] =
                          Append(@, IF Accepts(answer) THEN "accepted" ELSE "failed")]
      BY <1>4 DEF FinishEvent, Unanswered, Stamp
    <2>2. pc[a] = "posting" /\ Await(a, Len(log[a]) + 2)
          /\ call' = [call EXCEPT ![<<a, "main">>] = None]
      BY <1>4 DEF FinishEvent, End
    <2>3. PICK step \in {"waiting", "finished"} : pc' = [pc EXCEPT ![a] = step]
      BY <2>2 DEF Await
    <2>4. Asking'
      BY <1>d, <2>2, <2>3 DEF Steps
    <2>5. PICK entry \in {"accepted", "failed"} :
             /\ log' = [log EXCEPT ![a] = Append(@, entry)]
             /\ entry = "accepted" => Store(a)
      BY <2>1 DEF Accepts
    <2>6. StoredTyped' /\ \A x \in Adapters \ {a} : stored'[x] = stored[x]
      <3>1. Len(log[a]) + 1 \in Nat
        OBVIOUS
      <3>2. UNCHANGED stored
            \/ stored' = [stored EXCEPT ![a] = stored[a] \union {Len(log[a]) + 1}]
        BY <2>1 DEF Store
      <3>. QED
        BY <3>1, <3>2 DEF StoredTyped
    <2>7. stored[a] \subseteq stored'[a] /\ stored'[a] \subseteq stored[a] \union {Len(log[a]) + 1}
          /\ (entry = "accepted" => Len(log[a]) + 1 \in stored'[a])
      BY <2>1, <2>5 DEF Store, StoredTyped
    <2>8. /\ Len(log'[a]) = Len(log[a]) + 1
          /\ DOMAIN log'[a] = 1 .. Len(log[a]) + 1
          /\ \A i \in 1 .. Len(log[a]) : log'[a][i] = log[a][i]
          /\ log'[a][Len(log[a]) + 1] = entry
      BY <2>5, AppendProperties, LenProperties
    <2>9. Straight(a)'
      <3>1. \A i \in DOMAIN log'[a] : log'[a][i] = "accepted" => i \in stored'[a]
        <4>1. \A i \in 1 .. Len(log[a]) : log[a][i] = "accepted" => i \in stored[a]
          BY LenProperties DEF Straight
        <4>2. ASSUME NEW i \in 1 .. Len(log[a]) + 1, log'[a][i] = "accepted"
              PROVE  i \in stored'[a]
          <5>1. CASE i \in 1 .. Len(log[a])
            BY <2>7, <2>8, <4>1, <4>2, <5>1
          <5>2. CASE i = Len(log[a]) + 1
            BY <2>7, <2>8, <4>2, <5>2
          <5>3. Len(log[a]) \in Nat
            OBVIOUS
          <5>. QED
            BY <5>1, <5>2, <5>3
        <4>. QED
          BY <2>8, <4>2
      <3>2. stored'[a] \subseteq 1 .. Len(log[a]) + 1
        BY <2>2, <2>7 DEF Straight
      <3>3. pc'[a] \notin {"posting", "stopped"}
        BY <2>3
      <3>4. stored'[a] \subseteq 1 .. Len(log'[a]) + 0
        BY <2>8, <3>2
      <3>. QED
        BY <3>1, <3>3, <3>4 DEF Straight
    <2>10. ASSUME NEW x \in Adapters, x # a PROVE Straight(x)'
      BY <1>b, <2>3, <2>5, <2>6, <2>10
    <2>. QED
      BY <2>4, <2>6, <2>9, <2>10
  <1>5. ASSUME NEW a \in Adapters, PostHeartbeat(a) \/ FinishHeartbeat(a) PROVE Goal
    <2>1. UNCHANGED <<log, stored, pc>> /\ (Send(a, "beat") \/ End(a, "beat"))
      BY <1>5 DEF PostHeartbeat, FinishHeartbeat, Stamp, Unanswered, main
    <2>2. \A x \in Adapters : Waiting(x, "main")' => Waiting(x, "main")
      BY <2>1 DEF Send, End, Waiting, Goroutines
    <2>. QED
      BY <1>e, <2>1, <2>2
  <1>6. ASSUME NEW a \in Adapters, NEW g \in Goroutines, Hang(a, g) \/ Outlive(a, g) PROVE Goal
    <2>1. Waiting(a, g) /\ Unanswered(a, g) /\ UNCHANGED <<log, pc>>
      BY <1>6 DEF Hang, Outlive, main
    <2>2. \A x \in Adapters : Waiting(x, "main")' => Waiting(x, "main")
      BY <1>6 DEF Hang, Outlive, End, Waiting, Goroutines
    <2>. QED
      BY <1>f, <2>1, <2>2
  <1>7. ASSUME NEW a \in Adapters, Stop(a) PROVE Goal
    <2>1. pc' = [pc EXCEPT ![a] = "stopped"] /\ UNCHANGED <<log, stored>>
      BY <1>7 DEF Stop
    <2>2. \A x \in Adapters : Waiting(x, "main")' => Waiting(x, "main")
      BY <1>7 DEF Stop, Waiting, Goroutines
    <2>3. Asking'
      BY <2>1, <2>2 DEF Asking, Running
    <2>4. \A x \in Adapters : Straight(x)'
      BY <1>a, <2>1
    <2>. QED
      BY <2>1, <2>3, <2>4 DEF StoredTyped
  <1>8. CASE Tick
    <2>1. UNCHANGED <<log, stored, pc>>
          /\ call' = [r \in Adapters \X Goroutines |-> Older(call[r], MaxDelay)]
      BY <1>8 DEF Tick
    <2>2. \A x \in Adapters : Waiting(x, "main")' => Waiting(x, "main")
      BY <2>1 DEF Waiting, Older, Goroutines
    <2>. QED
      BY <1>e, <2>1, <2>2
  <1>9. ASSUME UNCHANGED <<log, stored, pc, call>> PROVE Goal
    BY <1>9, <1>e DEF Waiting
  <1>10. ASSUME NEW c \in Cameras, RegisterCamera(c) PROVE Goal
    BY <1>9, <1>10 DEF RegisterCamera, main
  <1>11. ASSUME NEW a \in Adapters, IssueKey(OrgOf[a]) PROVE Goal
    BY <1>9, <1>11 DEF IssueKey, main
  <1>12. CASE UNCHANGED vars
    BY <1>9, <1>12 DEF vars, main
  <1>. QED
    BY <1>1, <1>2, <1>3, <1>4, <1>5, <1>6, <1>7, <1>8, <1>10, <1>11, <1>12
    DEF Next, Main, HeartbeatLoop

\* The log of an adapter and the database agree on its scenario, but for the event
\* that is under way.
THEOREM LogCorrect == Spec => []ScenarioAccountedFor
  <1>1. Accounted => ScenarioAccountedFor
    BY DEF Accounted
  <1>. QED
    BY <1>1, TypingHolds, AccountedInit, AccountedStep, PTL DEF Spec

-----------------------------------------------------------------------------
(* Heartbeats in time.                                                     *)

\* What typing says of one adapter.
LEMMA Locals ==
  ASSUME Typing, NEW a \in Adapters
  PROVE  /\ <<a, "main">> \in Adapters \X Goroutines /\ <<a, "beat">> \in Adapters \X Goroutines
         /\ pc[a] \in Steps /\ timer[a] \in Nat /\ calm[a] \in Nat
         /\ loop[a] \in {"off", "posting", "idle"}
         /\ ticker[a] \in 1..Interval \union {None} /\ due[a] \in BOOLEAN
         /\ call[<<a, "main">>] \in 0..MaxDelay \union {None, Hung}
         /\ call[<<a, "beat">>] \in 0..MaxDelay \union {None, Hung}
         /\ loop[a] # "off" => found[a] \in cameras /\ found[a] \in Cameras
         /\ \A c \in Cameras : beat[c] \in Nat \union {None}
  <1>1. <<a, "main">> \in Adapters \X Goroutines /\ <<a, "beat">> \in Adapters \X Goroutines
    BY DEF Goroutines
  <1>2. /\ call[<<a, "main">>] \in 0..MaxDelay \union {None, Hung}
        /\ call[<<a, "beat">>] \in 0..MaxDelay \union {None, Hung}
    BY <1>1 DEF Typing, TypeOK
  <1>3. /\ pc[a] \in Steps /\ timer[a] \in Nat
        /\ loop[a] \in {"off", "posting", "idle"}
        /\ ticker[a] \in 1..Interval \union {None}
        /\ loop[a] # "off" => found[a] \in cameras /\ found[a] \in Cameras
    BY DEF Typing, TypeOK
  <1>4. calm[a] \in Nat /\ \A c \in Cameras : beat[c] \in Nat \union {None}
    BY Bounds DEF Typing, TypeOK
  <1>5. due[a] \in BOOLEAN
    BY DEF Typing, TypeOK
  <1>. QED
    BY <1>1, <1>2, <1>3, <1>4, <1>5

LEMMA AheadBounds ==
  ASSUME Typing, NEW a \in Adapters, Orderly(a), loop[a] # "off", call[<<a, "beat">>] # Hung
  PROVE  Ahead(a) \in Nat /\ Ahead(a) <= Interval + MaxDelay
  <1>1. CASE loop[a] = "posting"
    <2>1. call[<<a, "beat">>] \in 0..MaxDelay
      BY <1>1, Locals DEF Orderly
    <2>. QED
      BY <1>1, <2>1 DEF Ahead
  <1>2. CASE loop[a] = "idle"
    <2>1. ticker[a] \in 1..Interval
      BY <1>2, Locals DEF Orderly
    <2>. QED
      BY <1>2, <2>1 DEF Ahead
  <1>. QED
    BY <1>1, <1>2, Locals

LEMMA PunctualInit == Init => Punctual
  <1>. SUFFICES ASSUME Init, NEW a \in Adapters PROVE Healthy(a)
    BY DEF Punctual
  <1>. QED
    BY DEF Init, Healthy, Orderly, Seeking, Beating

\* The heartbeats of an adapter as far as they go, whatever main does and whoever else
\* stamps its camera.
LEMMA BeatingKept ==
  ASSUME Typing, NEW a \in Adapters, Orderly(a), Beating(a),
         \A c \in Cameras : beat'[c] = beat[c] \/ beat'[c] = 0,
         found'[a] = found[a], loop'[a] = loop[a], ticker'[a] = ticker[a], due'[a] = due[a],
         call'[<<a, "beat">>] = call[<<a, "beat">>], calm'[a] = calm[a]
  PROVE  Beating(a)'
  <1>. SUFFICES ASSUME loop[a] # "off" PROVE Beating(a)'
    BY DEF Beating
  <1>1. Ahead(a)' = Ahead(a)
    BY DEF Ahead
  <1>2. found[a] \in Cameras /\ beat[found[a]] \in Nat \union {None}
    BY Locals
  <1>3. beat'[found'[a]] = beat[found[a]] \/ beat'[found'[a]] = 0
    BY <1>2
  <1>4. CASE call[<<a, "beat">>] # Hung
    <2>1. Ahead(a) \in Nat /\ Ahead(a) <= Interval + MaxDelay
      BY <1>4, AheadBounds
    <2>2. CASE Fresh(a)
      <3>1. Fresh(a)'
        BY <1>1, <1>3, <2>1, <2>2 DEF Fresh
      <3>. QED
        BY <1>4, <3>1 DEF Beating
    <2>3. CASE Recent(a)
      <3>1. Recent(a)'
        BY <1>1, <2>3 DEF Recent
      <3>. QED
        BY <1>4, <3>1 DEF Beating
    <2>. QED
      BY <1>4, <2>2, <2>3 DEF Beating
  <1>5. CASE call[<<a, "beat">>] = Hung
    BY <1>3, <1>5 DEF Beating
  <1>. QED
    BY <1>4, <1>5

LEMMA Aside ==
  ASSUME Typing, NEW a \in Adapters, Healthy(a),
         \A c \in Cameras : beat'[c] = beat[c] \/ beat'[c] = 0,
         pc'[a] = pc[a], found'[a] = found[a], timer'[a] = timer[a], loop'[a] = loop[a],
         ticker'[a] = ticker[a], due'[a] = due[a], calm'[a] = calm[a],
         call'[<<a, "main">>] = call[<<a, "main">>], call'[<<a, "beat">>] = call[<<a, "beat">>]
  PROVE  Healthy(a)'
  <1>1. Beating(a)'
    BY BeatingKept DEF Healthy
  <1>2. Orderly(a)'
    BY DEF Healthy, Orderly
  <1>3. Seeking(a)'
    BY DEF Healthy, Seeking
  <1>. QED
    BY <1>1, <1>2, <1>3 DEF Healthy

\* An adapter that has no heartbeat loop.
LEMMA NotBeating ==
  ASSUME NEW a \in Adapters, loop'[a] = "off", Seeking(a)',
         pc'[a] \in {"stopped", "discovering", "pausing"},
         pc'[a] = "discovering" => call'[<<a, "main">>] # None
  PROVE  Healthy(a)'
  BY DEF Healthy, Orderly, Beating

LEMMA TickHealthy ==
  ASSUME Typing, NEW a \in Adapters, Healthy(a), Tick
  PROVE  Healthy(a)'
  <1>1. /\ UNCHANGED <<cameras, pc, found, loop>>
        /\ timer'[a] = IF timer[a] > 0 THEN timer[a] - 1 ELSE 0
        /\ ticker'[a] = IF ticker[a] = 1 THEN Interval
                        ELSE IF ticker[a] = None THEN None ELSE ticker[a] - 1
        /\ calm'[a] = IF ~Running(a) \/ ~Connectable(a) \/ Stuck(a) THEN 0
                      ELSE Older(calm[a], Settled)
    BY DEF Tick
  <1>0. timer[a] \in Nat /\ calm[a] \in Nat /\ ticker[a] \in 1..Interval \union {None}
    BY Locals
  <1>c. calm'[a] = 0 \/ calm'[a] = Older(calm[a], Settled)
    BY <1>1
  <1>d. due'[a] <=> due[a] \/ ticker[a] = 1
    BY DEF Tick
  <1>p. /\ ~(loop[a] = "idle" /\ due[a])
        /\ pc[a] = "pausing" => timer[a] # 0
    BY DEF Tick, Prompt
  <1>2. /\ call'[<<a, "main">>] = Older(call[<<a, "main">>], MaxDelay)
        /\ call'[<<a, "beat">>] = Older(call[<<a, "beat">>], MaxDelay)
        /\ call[<<a, "main">>] # MaxDelay /\ call[<<a, "beat">>] # MaxDelay
    BY Locals DEF Tick, Goroutines
  <1>3. calm'[a] \in Nat /\ calm'[a] <= calm[a] + 1
    BY <1>0, <1>c DEF Older
  <1>4. /\ call[<<a, "main">>] \in Nat => call'[<<a, "main">>] = call[<<a, "main">>] + 1
                                          /\ call'[<<a, "main">>] <= MaxDelay
        /\ call[<<a, "main">>] \notin Nat => call'[<<a, "main">>] = call[<<a, "main">>]
    BY <1>2, Locals DEF Older
  <1>5. /\ call[<<a, "beat">>] \in Nat => call'[<<a, "beat">>] = call[<<a, "beat">>] + 1
                                          /\ call'[<<a, "beat">>] <= MaxDelay
        /\ call[<<a, "beat">>] \notin Nat => call'[<<a, "beat">>] = call[<<a, "beat">>]
    BY <1>2, Locals DEF Older
  <1>6. None \notin Nat /\ Hung \notin Nat /\ None # Hung
    OBVIOUS
  <1>7. Orderly(a)'
    <2>1. call[<<a, "main">>] # None => call'[<<a, "main">>] # None
      BY <1>4, <1>6, Locals
    <2>2. /\ call[<<a, "beat">>] # None => call'[<<a, "beat">>] # None
          /\ call[<<a, "beat">>] = None => call'[<<a, "beat">>] = None
      BY <1>5, <1>6, Locals
    <2>3. ticker[a] # None => ticker'[a] # None
      BY <1>0, <1>1, <1>6
    <2>. QED
      BY <1>1, <2>1, <2>2, <2>3 DEF Healthy, Orderly
  <1>8. Seeking(a)'
    <2>1. pc[a] = "stopped" => calm'[a] = 0
      BY <1>1 DEF Running
    <2>2. pc[a] = "pausing" => calm'[a] + timer'[a] <= Pause
      <3>. SUFFICES ASSUME pc[a] = "pausing" PROVE calm'[a] + timer'[a] <= Pause
        OBVIOUS
      <3>1. timer[a] \in Nat \ {0} /\ timer'[a] = timer[a] - 1
        BY <1>0, <1>1, <1>p
      <3>2. calm[a] + timer[a] <= Pause
        BY DEF Healthy, Seeking
      <3>. QED
        BY <1>0, <1>3, <3>1, <3>2
    <2>3. ASSUME pc[a] = "discovering", call'[<<a, "main">>] \in Nat
          PROVE  calm'[a] <= Pause + call'[<<a, "main">>] /\ call'[<<a, "main">>] <= MaxDelay
      <3>1. call[<<a, "main">>] \in Nat
        BY <1>4, <2>3
      <3>2. calm[a] <= Pause + call[<<a, "main">>]
        BY <2>3, <3>1 DEF Healthy, Seeking
      <3>. QED
        BY <1>0, <1>3, <1>4, <3>1, <3>2
    <2>4. ASSUME pc[a] = "discovering" PROVE calm'[a] <= Pause + MaxDelay
      <3>1. CASE call[<<a, "main">>] = Hung
        BY <1>1, <2>4, <3>1 DEF Stuck
      <3>2. CASE call[<<a, "main">>] \in Nat
        BY <1>3, <1>4, <2>3, <2>4, <3>2
      <3>. QED
        BY <2>4, <3>1, <3>2, Locals DEF Healthy, Orderly
    <2>. QED
      BY <1>1, <2>1, <2>2, <2>3, <2>4 DEF Seeking
  <1>9. Beating(a)'
    <2>. SUFFICES ASSUME loop[a] # "off" PROVE Beating(a)'
      BY <1>1 DEF Beating
    <2>1. CASE call[<<a, "beat">>] = Hung
      <3>1. calm'[a] = 0 /\ call'[<<a, "beat">>] = Hung
        BY <1>1, <1>5, <1>6, <2>1 DEF Stuck
      <3>. QED
        BY <3>1, Bounds DEF Beating
    <2>2. CASE call[<<a, "beat">>] # Hung
      <3>1. Ahead(a) \in Nat /\ Ahead(a)' = Ahead(a) - 1
        <4>1. CASE loop[a] = "posting"
          <5>1. call[<<a, "beat">>] \in 0..MaxDelay
            BY <2>2, <4>1, Locals DEF Healthy, Orderly
          <5>. QED
            BY <1>1, <1>5, <4>1, <5>1 DEF Ahead
        <4>2. CASE loop[a] = "idle"
          <5>1. ticker[a] \in 1..Interval /\ ~due[a]
            BY <1>p, <4>2, Locals DEF Healthy, Orderly
          <5>2. CASE ticker[a] = 1
            BY <1>1, <1>d, <4>2, <5>1, <5>2 DEF Ahead
          <5>3. CASE ticker[a] # 1
            <6>1. ~due'[a] /\ ticker'[a] = ticker[a] - 1
              BY <1>1, <1>6, <1>d, <5>1, <5>3
            <6>. QED
              BY <1>1, <4>2, <5>1, <6>1 DEF Ahead
          <5>. QED
            BY <5>2, <5>3
        <4>. QED
          BY <4>1, <4>2, Locals
      <3>2. call'[<<a, "beat">>] # Hung
        BY <1>5, <1>6, <2>2, Locals
      <3>3. CASE Fresh(a)
        <4>1. found[a] \in Cameras /\ beat[found[a]] \in Nat
          BY <3>3, Locals DEF Fresh
        <4>2. beat'[found[a]] = Older(beat[found[a]], Stale)
          BY <4>1 DEF Tick
        <4>3. beat'[found[a]] \in Nat /\ beat'[found[a]] <= beat[found[a]] + 1
          BY <4>1, <4>2 DEF Older
        <4>4. Fresh(a)'
          BY <1>1, <3>1, <3>3, <4>1, <4>3 DEF Fresh
        <4>. QED
          BY <3>2, <4>4 DEF Beating
      <3>4. CASE Recent(a)
        <4>1. Recent(a)'
          BY <1>0, <1>3, <3>1, <3>4, Bounds DEF Recent
        <4>. QED
          BY <3>2, <4>1 DEF Beating
      <3>. QED
        BY <2>2, <3>3, <3>4 DEF Healthy, Beating
    <2>. QED
      BY <2>1, <2>2
  <1>. QED
    BY <1>7, <1>8, <1>9 DEF Healthy

\* A request the API has handled or not touches cameras by stamping them.
LEMMA StampedAnew ==
  ASSUME Typing, NEW a \in Adapters, NEW g \in Goroutines,
         Stamp(a) \/ Unanswered(a, g) \/ UNCHANGED beat
  PROVE  \A c \in Cameras : beat'[c] = beat[c] \/ beat'[c] = 0
  BY DEF Stamp, Unanswered, Store

\* The discovery of an adapter.
LEMMA SeekingSteps ==
  ASSUME Typing, NEW a \in Adapters, Healthy(a),
         Start(a) \/ DiscoverNothing(a) \/ DiscoverAgain(a)
  PROVE  Healthy(a)'
  <1>0. /\ pc \in [Adapters -> Steps] /\ timer \in [Adapters -> Nat]
        /\ calm \in [Adapters -> 0..Settled]
        /\ call \in [Adapters \X Goroutines -> 0..MaxDelay \union {None, Hung}]
        /\ <<a, "main">> \in Adapters \X Goroutines
    BY Locals DEF Typing, TypeOK
  <1>1. CASE Start(a)
    <2>1. pc[a] = "stopped" /\ loop[a] = "off" /\ calm[a] = 0
      BY <1>1 DEF Start, Running, Typing, Ended, Healthy, Seeking
    <2>2. pc'[a] = "discovering" /\ call'[<<a, "main">>] = 0 /\ UNCHANGED <<loop, calm>>
      BY <1>0, <1>1 DEF Start, Send, beats
    <2>3. Seeking(a)'
      BY <2>1, <2>2 DEF Seeking
    <2>. QED
      BY <2>1, <2>2, <2>3, NotBeating
  <1>2. CASE DiscoverNothing(a)
    <2>1. loop[a] = "off"
      BY <1>2 DEF DiscoverNothing, Healthy, Orderly
    <2>2. pc'[a] = "pausing" /\ timer'[a] = Pause /\ calm'[a] = 0 /\ UNCHANGED loop
      BY <1>0, <1>2 DEF DiscoverNothing, beats
    <2>3. Seeking(a)'
      BY <2>2 DEF Seeking
    <2>. QED
      BY <2>1, <2>2, <2>3, NotBeating
  <1>3. CASE DiscoverAgain(a)
    <2>1. loop[a] = "off" /\ pc[a] = "pausing" /\ timer[a] = 0
      BY <1>3 DEF DiscoverAgain, Healthy, Orderly
    <2>2. calm[a] \in Nat /\ calm[a] <= Pause
      <3>1. calm[a] \in Nat /\ calm[a] + timer[a] <= Pause
        BY <2>1, Locals DEF Healthy, Seeking
      <3>. QED
        BY <2>1, <3>1
    <2>3. pc'[a] = "discovering" /\ call'[<<a, "main">>] = 0 /\ UNCHANGED <<loop, calm>>
      BY <1>0, <1>3 DEF DiscoverAgain, Send, beats
    <2>4. Seeking(a)'
      BY <2>2, <2>3 DEF Seeking
    <2>. QED
      BY <2>1, <2>3, <2>4, NotBeating
  <1>. QED
    BY <1>1, <1>2, <1>3

LEMMA DiscoverHealthy ==
  ASSUME Typing, NEW a \in Adapters, Healthy(a), Discover(a)
  PROVE  Healthy(a)'
  <1>1. PICK c \in Visible(a) : found' = [found EXCEPT ![a] = c]
    BY DEF Discover
  <1>2. /\ pc[a] = "discovering" /\ call[<<a, "main">>] \in Nat /\ Await(a, 1)
        /\ loop' = [loop EXCEPT ![a] = "posting"]
        /\ call' = [call EXCEPT ![<<a, "main">>] = None, ![<<a, "beat">>] = 0]
        /\ UNCHANGED calm
    BY DEF Discover, Waiting
  <1>3. call'[<<a, "beat">>] = 0 /\ loop'[a] = "posting" /\ found'[a] = c
    BY <1>1, <1>2, Locals DEF Typing, TypeOK
  <1>4. pc'[a] \in {"waiting", "finished"}
    BY <1>2 DEF Await, Typing, TypeOK
  <1>5. calm[a] \in Nat /\ calm[a] <= Pause + MaxDelay
    BY <1>2, Locals DEF Healthy, Seeking
  <1>6. Orderly(a)'
    BY <1>3, <1>4 DEF Orderly, Visible
  <1>7. Seeking(a)'
    BY <1>4 DEF Seeking
  <1>8. Ahead(a)' = MaxDelay
    BY <1>3 DEF Ahead
  <1>9. Recent(a)'
    BY <1>2, <1>5, <1>8, Bounds DEF Recent
  <1>10. call'[<<a, "beat">>] # Hung
    BY <1>3
  <1>11. Beating(a)'
    BY <1>9, <1>10 DEF Beating
  <1>. QED
    BY <1>6, <1>7, <1>11 DEF Healthy

\* Detections do not concern the heartbeats.
LEMMA PostingSteps ==
  ASSUME Typing, NEW a \in Adapters, Healthy(a), PostEvent(a) \/ FinishEvent(a)
  PROVE  Healthy(a)'
  <1>1. /\ pc[a] \in {"waiting", "posting"} /\ UNCHANGED <<beat, found, loop, ticker, due, calm>>
        /\ Send(a, "main") \/ End(a, "main")
    BY DEF PostEvent, FinishEvent, Store, Unanswered, api, beats
  <1>2. pc'[a] \in {"waiting", "posting", "finished"}
    BY DEF PostEvent, FinishEvent, Await, Typing, TypeOK
  <1>3. call'[<<a, "beat">>] = call[<<a, "beat">>]
    BY <1>1, Locals DEF Send, End, Typing, TypeOK
  <1>4. Beating(a)'
    BY <1>1, <1>3, BeatingKept DEF Healthy
  <1>5. Orderly(a)'
    BY <1>1, <1>2, <1>3 DEF Healthy, Orderly
  <1>6. Seeking(a)'
    BY <1>2 DEF Seeking
  <1>. QED
    BY <1>4, <1>5, <1>6 DEF Healthy

LEMMA BeatingSteps ==
  ASSUME Typing, NEW a \in Adapters, Healthy(a), PostHeartbeat(a) \/ FinishHeartbeat(a)
  PROVE  Healthy(a)'
  <1>0. /\ loop \in [Adapters -> {"off", "posting", "idle"}]
        /\ ticker \in [Adapters -> 1..Interval \union {None}]
        /\ calm \in [Adapters -> 0..Settled]
        /\ call \in [Adapters \X Goroutines -> 0..MaxDelay \union {None, Hung}]
        /\ <<a, "beat">> \in Adapters \X Goroutines
    BY Locals DEF Typing, TypeOK
  <1>1. /\ loop[a] # "off" /\ UNCHANGED <<pc, found>>
        /\ pc[a] \notin {"stopped", "discovering", "pausing"}
        /\ OrgOf[found[a]] = OrgOf[a]
        /\ found[a] \in Cameras /\ found[a] \in cameras
    BY Locals DEF PostHeartbeat, FinishHeartbeat, Healthy, Orderly, main
  <1>2. Seeking(a)'
    BY <1>1 DEF Seeking
  <1>3. CASE PostHeartbeat(a)
    <2>1. /\ loop[a] = "idle" /\ due[a] /\ UNCHANGED <<beat, calm>>
          /\ loop'[a] = "posting"
          /\ call'[<<a, "beat">>] = 0
      BY <1>0, <1>3 DEF PostHeartbeat, Send, api
    <2>2. call[<<a, "beat">>] = None /\ None # Hung /\ 0 # None /\ 0 # Hung
      BY <2>1 DEF Healthy, Orderly
    <2>3. Orderly(a)'
      BY <1>1, <2>1, <2>2 DEF Orderly
    <2>4. Ahead(a) = MaxDelay /\ Ahead(a)' = MaxDelay
      BY <2>1 DEF Ahead
    <2>5. Fresh(a) \/ Recent(a)
      BY <1>1, <2>2 DEF Healthy, Beating
    <2>6. Fresh(a)' \/ Recent(a)'
      BY <1>1, <2>1, <2>4, <2>5 DEF Fresh, Recent
    <2>7. Beating(a)'
      BY <2>1, <2>2, <2>6 DEF Beating
    <2>. QED
      BY <1>2, <2>3, <2>7 DEF Healthy
  <1>4. CASE FinishHeartbeat(a)
    <2>1. /\ loop[a] = "posting"
          /\ loop' = [loop EXCEPT ![a] = "idle"]
          /\ ticker' = [ticker EXCEPT ![a] = IF @ = None THEN Interval ELSE @]
          /\ call' = [call EXCEPT ![<<a, "beat">>] = None]
          /\ Stamp(a) \/ calm' = [calm EXCEPT ![a] = 0]
      BY <1>4 DEF FinishHeartbeat, Rest, End
    <2>2. loop'[a] = "idle" /\ call'[<<a, "beat">>] = None /\ ticker'[a] \in 1..Interval
      BY <1>0, <2>1
    <2>3. None # Hung /\ None \notin 1..Interval
      OBVIOUS
    <2>4. Orderly(a)'
      <3>1. /\ loop'[a] # "off" /\ pc'[a] = pc[a] /\ found'[a] = found[a]
            /\ ticker'[a] # None /\ call'[<<a, "beat">>] = None
        BY <1>1, <2>2, <2>3
      <3>. QED
        BY <1>1, <2>2, <3>1 DEF Orderly
    <2>5. Ahead(a)' \in Nat /\ Ahead(a)' <= Interval + MaxDelay
      <3>1. CASE due'[a]
        BY <2>2, <3>1 DEF Ahead
      <3>2. CASE ~due'[a]
        BY <2>2, <3>2 DEF Ahead
      <3>. QED
        BY <3>1, <3>2
    <2>6. CASE Stamp(a)
      <3>1. beat'[found'[a]] = 0
        BY <1>1, <2>6 DEF Stamp
      <3>2. Fresh(a)'
        BY <2>5, <3>1 DEF Fresh
      <3>. QED
        BY <1>2, <2>2, <2>3, <2>4, <3>2 DEF Healthy, Beating
    <2>7. CASE calm' = [calm EXCEPT ![a] = 0]
      <3>1. calm'[a] = 0
        BY <1>0, <2>7
      <3>2. Recent(a)'
        BY <2>5, <3>1, Bounds DEF Recent
      <3>. QED
        BY <1>2, <2>2, <2>3, <2>4, <3>2 DEF Healthy, Beating
    <2>. QED
      BY <2>1, <2>6, <2>7
  <1>. QED
    BY <1>3, <1>4

LEMMA EndingSteps ==
  ASSUME Typing, NEW a \in Adapters, Healthy(a),
         Stop(a) \/ \E g \in Goroutines : Outlive(a, g)
  PROVE  Healthy(a)'
  <1>1. pc'[a] = "stopped" /\ loop'[a] = "off" /\ calm'[a] = 0
    <2>1. CASE Stop(a)
      BY <2>1, Bounds DEF Stop, Typing, TypeOK
    <2>2. CASE \E g \in Goroutines : Outlive(a, g)
      BY <2>2 DEF Outlive, Running, Typing, Ended, Healthy, Seeking, main, beats
    <2>. QED
      BY <2>1, <2>2
  <1>2. Seeking(a)'
    BY <1>1 DEF Seeking
  <1>. QED
    BY <1>1, <1>2, NotBeating

\* A request that hangs leaves things as they are, until time passes.
LEMMA HangHealthy ==
  ASSUME Typing, NEW a \in Adapters, NEW g \in Goroutines, Healthy(a), Hang(a, g)
  PROVE  Healthy(a)'
  <1>0. /\ call \in [Adapters \X Goroutines -> 0..MaxDelay \union {None, Hung}]
        /\ <<a, g>> \in Adapters \X Goroutines /\ <<a, "main">> \in Adapters \X Goroutines
        /\ <<a, "beat">> \in Adapters \X Goroutines
    BY Locals DEF Typing, TypeOK
  <1>1. /\ call[<<a, g>>] \in Nat /\ call' = [call EXCEPT ![<<a, g>>] = Hung]
        /\ UNCHANGED <<pc, found, timer, loop, ticker, due, calm>>
        /\ \A c \in Cameras : beat'[c] = beat[c] \/ beat'[c] = 0
    BY StampedAnew DEF Hang, Waiting, main, beats
  <1>2. Hung # None /\ Hung \notin Nat /\ None \notin Nat
    OBVIOUS
  <1>3. CASE g = "main"
    <2>1. call'[<<a, "main">>] = Hung /\ call'[<<a, "beat">>] = call[<<a, "beat">>]
      BY <1>0, <1>1, <1>3
    <2>2. Beating(a)'
      BY <1>1, <2>1, BeatingKept DEF Healthy
    <2>3. Orderly(a)'
      BY <1>1, <1>2, <2>1 DEF Healthy, Orderly
    <2>4. Seeking(a)'
      BY <1>1, <1>2, <2>1 DEF Healthy, Seeking
    <2>. QED
      BY <2>2, <2>3, <2>4 DEF Healthy
  <1>4. CASE g = "beat"
    <2>1. call'[<<a, "beat">>] = Hung /\ call'[<<a, "main">>] = call[<<a, "main">>]
      BY <1>0, <1>1, <1>4
    <2>2. loop[a] # "idle" /\ call[<<a, "beat">>] # Hung
      BY <1>1, <1>2, <1>4 DEF Healthy, Orderly
    <2>3. Orderly(a)'
      BY <1>1, <1>2, <2>1, <2>2 DEF Healthy, Orderly
    <2>4. Seeking(a)'
      BY <1>1, <2>1 DEF Healthy, Seeking
    <2>5. Beating(a)'
      <3>. SUFFICES ASSUME loop[a] # "off"
                    PROVE  \/ beat'[found[a]] \in Nat /\ beat'[found[a]] <= Interval + MaxDelay
                           \/ calm[a] < Settled
        BY <1>1, <2>1 DEF Beating
      <3>1. Ahead(a) \in Nat
        BY <2>2, AheadBounds DEF Healthy
      <3>2. found[a] \in Cameras /\ calm[a] \in Nat
        BY Locals
      <3>3. CASE Fresh(a)
        <4>1. beat[found[a]] \in Nat /\ beat[found[a]] <= Interval + MaxDelay
          BY <3>1, <3>3 DEF Fresh
        <4>2. beat'[found[a]] = beat[found[a]] \/ beat'[found[a]] = 0
          BY <1>1, <3>2
        <4>. QED
          BY <4>1, <4>2
      <3>4. CASE Recent(a)
        BY <3>1, <3>2, <3>4, Bounds DEF Recent
      <3>. QED
        BY <2>2, <3>3, <3>4 DEF Healthy, Beating
    <2>. QED
      BY <2>3, <2>4, <2>5 DEF Healthy
  <1>. QED
    BY <1>3, <1>4 DEF Goroutines

LEMMA PunctualStep == Typing /\ Punctual /\ [Next]_vars => Punctual'
  <1>. SUFFICES ASSUME Typing, Punctual, [Next]_vars PROVE Punctual'
    OBVIOUS
  <1>0. \A a \in Adapters : Healthy(a)
    BY DEF Punctual
  <1>a. ASSUME NEW a \in Adapters, NEW x \in Adapters, x # a,
               Start(a) \/ Main(a) \/ HeartbeatLoop(a) \/ Stop(a)
               \/ \E g \in Goroutines : Hang(a, g) \/ Outlive(a, g)
        PROVE  Healthy(x)'
    <2>1. \A c \in Cameras : beat'[c] = beat[c] \/ beat'[c] = 0
      BY <1>a, StampedAnew
      DEF Start, Main, Discover, DiscoverNothing, DiscoverAgain, PostEvent, FinishEvent, Store,
          HeartbeatLoop, PostHeartbeat, FinishHeartbeat, Stop, Hang, Outlive, api, Goroutines
    <2>. DEFINE Apart == /\ pc'[x] = pc[x] /\ found'[x] = found[x] /\ timer'[x] = timer[x]
                         /\ loop'[x] = loop[x] /\ ticker'[x] = ticker[x] /\ due'[x] = due[x]
                         /\ calm'[x] = calm[x]
    <2>2. MainTyped /\ LoopTyped /\ CalmTyped
      BY DEF Typing, TypeOK, MainTyped, LoopTyped, CalmTyped
    <2>3. Apart
      <3>1. CASE Start(a)
        BY <1>a, <2>2, <3>1 DEF Start, MainTyped, beats
      <3>2. CASE Stop(a)
        BY <1>a, <2>2, <3>2 DEF Stop, MainTyped, LoopTyped, CalmTyped
      <3>3. CASE Discover(a)
        BY <1>a, <2>2, <3>3 DEF Discover, Await, MainTyped, LoopTyped
      <3>4. CASE DiscoverNothing(a)
        BY <1>a, <2>2, <3>4 DEF DiscoverNothing, MainTyped, CalmTyped, beats
      <3>5. CASE DiscoverAgain(a)
        BY <1>a, <2>2, <3>5 DEF DiscoverAgain, MainTyped, beats
      <3>6. CASE PostEvent(a)
        BY <1>a, <2>2, <3>6 DEF PostEvent, MainTyped, beats
      <3>7. CASE FinishEvent(a)
        BY <1>a, <2>2, <3>7 DEF FinishEvent, Await, MainTyped, beats
      <3>8. CASE PostHeartbeat(a)
        BY <1>a, <2>2, <3>8 DEF PostHeartbeat, LoopTyped, main
      <3>9. CASE FinishHeartbeat(a)
        BY <1>a, <2>2, <3>9 DEF FinishHeartbeat, Rest, LoopTyped, CalmTyped, main
      <3>10. CASE \E g \in Goroutines : Hang(a, g) \/ Outlive(a, g)
        BY <3>10 DEF Hang, Outlive, main, beats
      <3>. QED
        BY <1>a, <3>1, <3>2, <3>3, <3>4, <3>5, <3>6, <3>7, <3>8, <3>9, <3>10 DEF Main, HeartbeatLoop
    <2>4. /\ call'[<<x, "main">>] = call[<<x, "main">>]
          /\ call'[<<x, "beat">>] = call[<<x, "beat">>]
      <3>0. /\ call \in [Adapters \X Goroutines -> 0..MaxDelay \union {None, Hung}]
            /\ <<x, "main">> \in Adapters \X Goroutines /\ <<x, "beat">> \in Adapters \X Goroutines
        BY Locals DEF Typing, TypeOK
      <3>1. CASE \E g \in Goroutines :
                   Send(a, g) \/ End(a, g) \/ call' = [call EXCEPT ![<<a, g>>] = Hung]
        BY <1>a, <3>0, <3>1 DEF Send, End
      <3>2. CASE Discover(a)
        BY <1>a, <3>0, <3>2 DEF Discover
      <3>3. CASE Stop(a)
        BY <1>a, <3>0, <3>3 DEF Stop
      <3>. QED
        BY <1>a, <3>1, <3>2, <3>3
        DEF Start, Main, DiscoverNothing, DiscoverAgain, PostEvent, FinishEvent, HeartbeatLoop,
            PostHeartbeat, FinishHeartbeat, Hang, Outlive, Goroutines
    <2>. QED
      BY <1>0, <2>1, <2>3, <2>4, Aside
  <1>b. ASSUME UNCHANGED <<beat, pc, found, timer, loop, ticker, due, calm, call>> PROVE Punctual'
    BY <1>0, <1>b, Aside DEF Punctual
  <1>1. ASSUME NEW a \in Adapters, Start(a) \/ Main(a) \/ HeartbeatLoop(a) \/ Stop(a)
        PROVE  Punctual'
    <2>1. Healthy(a)'
      BY <1>0, <1>1, SeekingSteps, DiscoverHealthy, PostingSteps, BeatingSteps, EndingSteps
      DEF Main, HeartbeatLoop
    <2>. QED
      BY <1>1, <1>a, <2>1 DEF Punctual
  <1>2. ASSUME NEW a \in Adapters, NEW g \in Goroutines, Hang(a, g) \/ Outlive(a, g)
        PROVE  Punctual'
    <2>1. Healthy(a)'
      BY <1>0, <1>2, HangHealthy, EndingSteps
    <2>. QED
      BY <1>2, <1>a, <2>1 DEF Punctual
  <1>3. ASSUME NEW c \in Cameras, RegisterCamera(c) PROVE Punctual'
    BY <1>3, <1>b DEF RegisterCamera, main, beats
  <1>4. ASSUME NEW a \in Adapters, IssueKey(OrgOf[a]) PROVE Punctual'
    BY <1>4, <1>b DEF IssueKey, main, beats
  <1>5. CASE Tick
    BY <1>0, <1>5, TickHealthy DEF Punctual
  <1>6. CASE UNCHANGED vars
    BY <1>6, <1>b DEF vars, api, main, beats
  <1>. QED
    BY <1>1, <1>2, <1>3, <1>4, <1>5, <1>6 DEF Next

\* No false alarm: an adapter that has met with no mishap for the time of a
\* discovery and a heartbeat has its camera online.
THEOREM OnlineCorrect == Spec => []HealthyIsOnline
  <1>1. Typing /\ Punctual => HealthyIsOnline
    <2>. SUFFICES ASSUME Typing, Punctual, NEW a \in Adapters, calm[a] = Settled
                  PROVE  loop[a] # "off" /\ Health(found[a]) = "online"
      BY DEF HealthyIsOnline
    <2>1. Healthy(a) /\ timer[a] \in Nat
      BY Locals DEF Punctual
    <2>2. pc[a] \notin {"stopped", "discovering", "pausing"}
      <3>1. Settled # 0 /\ ~(Settled <= Pause + MaxDelay) /\ ~(Settled + timer[a] <= Pause)
        BY <2>1, Bounds
      <3>. QED
        BY <2>1, <3>1 DEF Healthy, Seeking
    <2>3. loop[a] # "off"
      BY <2>1, <2>2 DEF Healthy, Orderly
    <2>4. beat[found[a]] \in Nat /\ beat[found[a]] <= Interval + MaxDelay
      <3>1. CASE call[<<a, "beat">>] = Hung
        BY <2>1, <2>3, <3>1, Bounds DEF Healthy, Beating
      <3>2. CASE call[<<a, "beat">>] # Hung
        <4>1. Ahead(a) \in Nat
          BY <2>1, <2>3, <3>2, AheadBounds DEF Healthy
        <4>2. ~Recent(a)
          BY <4>1, Bounds DEF Recent
        <4>3. Fresh(a)
          BY <2>1, <2>3, <3>2, <4>2 DEF Healthy, Beating
        <4>. QED
          BY <4>1, <4>3 DEF Fresh
      <3>. QED
        BY <3>1, <3>2
    <2>. QED
      BY <2>3, <2>4 DEF Health
  <1>. QED
    BY <1>1, TypingHolds, PunctualInit, PunctualStep, PTL DEF Spec

=============================================================================
