------------------------ MODULE LiveDashboardProofs ------------------------
(***************************************************************************)
(* Proofs about LiveDashboard, for any number of processes, dashboards,    *)
(* changes and concurrent fetches.                                         *)
(***************************************************************************)
EXTENDS LiveDashboard, SequenceTheorems, TLAPS

USE ServersAssumption, ChannelCapAssumption, BoundsAssumption DEF Free, Asked, Nothing

-----------------------------------------------------------------------------
(* Typing.                                                                 *)

\* What a fetch has seen and what a page shows has been committed.
Committed ==
    \A d \in Dashboards :
        /\ page[d] <= version
        /\ \A s \in Slots : loads[d][s] <= version

Typing == TypeOK /\ Committed

LEMMA TypingInit == Init => Typing
  <1>. SUFFICES ASSUME Init PROVE Typing
    OBVIOUS
  <1>1. channel \in [Dashboards -> Seq(Nat)] /\ \A d \in Dashboards : Len(channel[d]) <= ChannelCap
    BY EmptySeq DEF Init, HubInit
  <1>2. loads \in [Dashboards -> [Slots -> Nat \union {Free, Asked}]]
    BY DEF Init
  <1>. QED
    BY <1>1, <1>2 DEF Init, HubInit, Typing, TypeOK, Attention, Committed

\* The state of the hubs keeps its types.
HubTyped ==
    /\ server \in [Dashboards -> Servers \union {NoServer}]
    /\ channel \in [Dashboards -> Seq(Nat)]
    /\ \A d \in Dashboards : Len(channel[d]) <= ChannelCap

LEMMA HubTypedStep ==
  ASSUME HubTyped,
         \/ \E p \in Servers, n \in Nat : Broadcast(p, n)
         \/ \E d \in Dashboards, p \in Servers : Connect(d, p)
         \/ \E d \in Dashboards : Receive(d)
         \/ \E D \in SUBSET Dashboards : Drop(D)
         \/ UNCHANGED hubVars
  PROVE  HubTyped'
  <1>. USE DEF HubTyped
  <1>1. ASSUME NEW p \in Servers, NEW n \in Nat, Broadcast(p, n) PROVE HubTyped'
    <2>1. \A d \in Listening(p) :
            Append(channel[d], n) \in Seq(Nat) /\ Len(Append(channel[d], n)) <= ChannelCap
      BY AppendProperties, LenProperties DEF Listening
    <2>2. channel' = [d \in Dashboards |->
                        IF d \in Listening(p) THEN Append(channel[d], n) ELSE channel[d]]
      BY <1>1 DEF Broadcast
    <2>3. \A d \in Dashboards : channel'[d] \in Seq(Nat) /\ Len(channel'[d]) <= ChannelCap
      BY <2>1, <2>2
    <2>4. channel' \in [Dashboards -> Seq(Nat)]
      BY <2>2, <2>3
    <2>. QED
      BY <1>1, <2>3, <2>4 DEF Broadcast
  <1>2. ASSUME NEW d \in Dashboards, NEW p \in Servers, Connect(d, p) PROVE HubTyped'
    BY <1>2 DEF Connect
  <1>3. ASSUME NEW d \in Dashboards, Receive(d) PROVE HubTyped'
    <2>1. Tail(channel[d]) \in Seq(Nat) /\ Len(Tail(channel[d])) <= ChannelCap
      BY <1>3, HeadTailProperties, LenProperties DEF Receive
    <2>. QED
      BY <1>3, <2>1 DEF Receive
  <1>4. ASSUME NEW D \in SUBSET Dashboards, Drop(D) PROVE HubTyped'
    <2>1. <<>> \in Seq(Nat) /\ Len(<<>>) = 0
      BY EmptySeq
    <2>. QED
      BY <1>4, <2>1 DEF Drop
  <1>5. CASE UNCHANGED hubVars
    BY <1>5 DEF hubVars
  <1>. QED
    BY <1>1, <1>2, <1>3, <1>4, <1>5

\* The steps in which the user has a page fetched.
LEMMA LoadSteps ==
  ASSUME user \in [Dashboards -> Attention], NEW d \in Dashboards,
         Navigate(d) \/ EnterOrganization(d) \/ LeaveOrganization(d)
  PROVE  Load(d) /\ user' \in [Dashboards -> Attention]
  BY DEF Navigate, EnterOrganization, LeaveOrganization, Attention

LEMMA TypingStep == Typing /\ [Next]_vars => Typing'
  <1>. SUFFICES ASSUME Typing, [Next]_vars PROVE Typing'
    OBVIOUS
  <1>. DEFINE Rest == /\ version \in Nat
                      /\ announcing \in SUBSET (Servers \X Nat)
                      /\ loads \in [Dashboards -> [Slots -> Nat \union {Free, Asked}]]
                      /\ loading \in [Dashboards -> BOOLEAN]
                      /\ page \in [Dashboards -> Nat \union {Nothing}]
                      /\ user \in [Dashboards -> Attention]
                      /\ hurried \in [Dashboards -> BOOLEAN]
                      /\ Committed
  <1>0. HubTyped /\ Rest
    BY DEF Typing, TypeOK, HubTyped
  <1>. SUFFICES HubTyped' /\ Rest'
    BY DEF Typing, TypeOK, HubTyped
  <1>. USE <1>0
  <1>a. ASSUME UNCHANGED hubVars PROVE HubTyped'
    BY <1>a, HubTypedStep
  <1>b. ASSUME NEW d \in Dashboards, StartLoad(d), UNCHANGED version,
               hurried' \in [Dashboards -> BOOLEAN], UNCHANGED announcing,
               user' \in [Dashboards -> Attention]
        PROVE  Rest'
    BY <1>b DEF StartLoad, Committed
  <1>c. ASSUME NEW d \in Dashboards, NEW s \in Slots, NEW shown \in Nat \union {Nothing},
               shown <= version, Finish(d, s, shown)
        PROVE  Rest'
    BY <1>c DEF Finish, Committed
  <1>1. ASSUME NEW p \in Servers, Change(p) PROVE HubTyped' /\ Rest'
    <2>1. <<p, version + 1>> \in Servers \X Nat
      OBVIOUS
    <2>2. announcing' \in SUBSET (Servers \X Nat)
      BY <1>1, <2>1 DEF Change
    <2>3. UNCHANGED <<browser, server, channel>> /\ version' = version + 1
      BY <1>1 DEF Change, hubVars
    <2>4. Committed'
      <3>1. \A d \in Dashboards : page[d] \in Int /\ page[d] <= version
        BY DEF Committed
      <3>2. \A d \in Dashboards, s \in Slots : loads[d][s] \in Int /\ loads[d][s] <= version
        BY DEF Committed
      <3>. QED
        BY <2>3, <3>1, <3>2 DEF Committed, browser
    <2>. QED
      BY <1>a, <2>2, <2>3, <2>4 DEF hubVars, browser
  <1>2. ASSUME NEW p \in Servers, NEW n \in 1..MaxChanges, Announce(p, n)
        PROVE  HubTyped' /\ Rest'
    <2>1. Broadcast(p, n) /\ n \in Nat
      BY <1>2 DEF Announce
    <2>2. HubTyped'
      BY <2>1, HubTypedStep
    <2>. QED
      BY <1>2, <2>2 DEF Announce, browser, Committed
  <1>3. ASSUME NEW p \in Servers, Crash(p) PROVE HubTyped' /\ Rest'
    <2>1. PICK D \in SUBSET Dashboards : Drop(D)
      BY <1>3 DEF Crash
    <2>2. HubTyped'
      BY <2>1, HubTypedStep
    <2>. QED
      BY <1>3, <2>2 DEF Crash, browser, Committed
  <1>4. ASSUME NEW d \in Dashboards, NEW p \in Servers, Stream(d, p) PROVE HubTyped' /\ Rest'
    <2>1. HubTyped'
      BY <1>4, HubTypedStep DEF Stream
    <2>. QED
      BY <1>4, <2>1 DEF Stream, browser, Committed
  <1>5. ASSUME NEW d \in Dashboards, BreakStream(d) PROVE HubTyped' /\ Rest'
    <2>1. Drop({d}) /\ {d} \in SUBSET Dashboards
      BY <1>5 DEF BreakStream, Disconnect
    <2>2. HubTyped'
      BY <2>1, HubTypedStep
    <2>. QED
      BY <1>5, <2>2 DEF BreakStream, browser, Committed
  <1>6. ASSUME NEW d \in Dashboards, Update(d) PROVE HubTyped' /\ Rest'
    <2>1. HubTyped'
      BY <1>6, HubTypedStep DEF Update
    <2>2. CASE StartLoad(d) /\ UNCHANGED <<user, hurried>>
      BY <1>6, <1>b, <2>1, <2>2 DEF Update
    <2>3. CASE UNCHANGED browser
      BY <1>6, <2>1, <2>3 DEF Update, browser, Committed
    <2>. QED
      BY <1>6, <2>2, <2>3 DEF Update
  <1>7. ASSUME NEW d \in Dashboards, Timer(d) PROVE HubTyped' /\ Rest'
    BY <1>7, <1>a, <1>b DEF Timer
  <1>8. ASSUME NEW d \in Dashboards,
               Navigate(d) \/ EnterOrganization(d) \/ LeaveOrganization(d)
        PROVE  HubTyped' /\ Rest'
    <2>1. Load(d) /\ user' \in [Dashboards -> Attention]
      BY <1>8, LoadSteps
    <2>2. hurried' \in [Dashboards -> BOOLEAN]
      BY <2>1 DEF Load
    <2>. QED
      BY <1>a, <1>b, <2>1, <2>2 DEF Load
  <1>9. ASSUME NEW d \in Dashboards, NEW how \in {"watching", "away", "editing"}, Attend(d, how)
        PROVE  HubTyped' /\ Rest'
    BY <1>9, <1>a DEF Attend, Attention, Committed
  <1>10. ASSUME NEW d \in Dashboards, NEW s \in Slots, Read(d, s) PROVE HubTyped' /\ Rest'
    BY <1>10, <1>a DEF Read, Committed
  <1>11. ASSUME NEW d \in Dashboards, NEW s \in Slots, Show(d, s) PROVE HubTyped' /\ Rest'
    <2>1. loads[d][s] \in Nat /\ loads[d][s] <= version
      BY <1>11 DEF Show, Committed
    <2>. QED
      BY <1>11, <1>a, <1>c, <2>1 DEF Show, Finish
  <1>12. ASSUME NEW d \in Dashboards, NEW s \in Slots, ShowError(d, s) PROVE HubTyped' /\ Rest'
    <2>1. Nothing \in Nat \union {Nothing} /\ Nothing <= version
      OBVIOUS
    <2>2. Finish(d, s, Nothing)
      BY <1>12 DEF ShowError
    <2>3. Rest'
      BY ONLY <2>1, <2>2, <1>c
    <2>. QED
      BY <2>2, <2>3, <1>a DEF Finish
  <1>13. CASE UNCHANGED vars
    BY <1>13, <1>a DEF vars, browser, Committed
  <1>. QED
    BY <1>1, <1>2, <1>3, <1>4, <1>5, <1>6, <1>7, <1>8, <1>9, <1>10, <1>11, <1>12, <1>13
    DEF Next

LEMMA TypingHolds == Spec => []Typing
  BY TypingInit, TypingStep, PTL DEF Spec

\* The variables of browsers and hubs always have their types.
THEOREM TypeCorrect == Spec => []TypeOK
  <1>1. Typing => TypeOK
    BY DEF Typing
  <1>. QED
    BY <1>1, TypingHolds, PTL

-----------------------------------------------------------------------------
(* Pages.                                                                  *)

\* Unless the user was in a hurry, a dashboard has one fetch under way at most, it
\* knows of it, and what the fetch has read is no older than the page.
Single(d) ==
    ~hurried[d] =>
        /\ \A s, t \in Slots : loads[d][s] # Free /\ loads[d][t] # Free => s = t
        /\ Busy(d) => loading[d]
        /\ \A s \in Slots : loads[d][s] \in Nat => page[d] <= loads[d][s]

Paged == \A d \in Dashboards : Single(d)

LEMMA PagedInit == Init => Paged
  BY DEF Init, Paged, Single, Busy

LEMMA PagedStep == Typing /\ Paged /\ [Next]_vars => Paged'
  <1>. SUFFICES ASSUME Typing, Paged, [Next]_vars PROVE Paged'
    OBVIOUS
  <1>. USE DEF Typing, TypeOK
  <1>a. ASSUME NEW d \in Dashboards, Single(d),
               UNCHANGED <<loads[d], loading[d], page[d], hurried[d]>>
        PROVE  Single(d)'
    BY <1>a DEF Single, Busy
  <1>e. ASSUME NEW d \in Dashboards, NEW s \in Slots, loading'[d],
               \A t \in Slots : loads'[d][t] # Free => t = s,
               \A t \in Slots : loads'[d][t] = Free \/ loads'[d][t] = Asked
        PROVE  Single(d)'
    <2>1. \A t, u \in Slots : loads'[d][t] # Free /\ loads'[d][u] # Free => t = u
      BY <1>e
    <2>2. Free \notin Nat /\ Asked \notin Nat
      OBVIOUS
    <2>3. \A t \in Slots : loads'[d][t] \notin Nat
      BY ONLY <1>e, <2>2, Zenon
    <2>. QED
      BY <1>e, <2>1, <2>3 DEF Single
  <1>b. ASSUME NEW d \in Dashboards, StartLoad(d), hurried'[d] \/ ~loading[d],
               ~hurried'[d] => ~hurried[d],
               \A x \in Dashboards \ {d} : hurried'[x] = hurried[x]
        PROVE  Paged'
    <2>1. PICK s \in Slots : loads[d][s] = Free /\ loads' = [loads EXCEPT ![d][s] = Asked]
      BY <1>b DEF StartLoad
    <2>2. ASSUME NEW x \in Dashboards \ {d} PROVE Single(x)'
      BY <1>b, <2>1, <1>a DEF StartLoad, Paged
    <2>3. Single(d)'
      <3>. SUFFICES ASSUME ~hurried'[d] PROVE Single(d)'
        BY DEF Single
      <3>1. \A t \in Slots : loads[d][t] = Free
        BY <1>b DEF Paged, Single, Busy
      <3>2. \A t \in Slots \ {s} : loads'[d][t] = Free
        BY <2>1, <3>1
      <3>3. loads'[d][s] = Asked /\ loading'[d]
        BY <1>b, <2>1 DEF StartLoad
      <3>4. \A t \in Slots : loads'[d][t] # Free => t = s
        BY <3>2
      <3>5. \A t \in Slots : loads'[d][t] = Free \/ loads'[d][t] = Asked
        BY <3>2, <3>3
      <3>. QED
        BY <1>e, <3>3, <3>4, <3>5
    <2>. QED
      BY <2>2, <2>3 DEF Paged
  <1>c. ASSUME NEW d \in Dashboards, NEW s \in Slots, NEW shown, loads[d][s] # Free,
               Finish(d, s, shown)
        PROVE  Paged'
    <2>1. ASSUME NEW x \in Dashboards \ {d} PROVE Single(x)'
      BY <1>c, <1>a DEF Finish, Paged
    <2>2. Single(d)'
      <3>. SUFFICES ASSUME ~hurried'[d] PROVE Single(d)'
        BY DEF Single
      <3>1. loads'[d][s] = Free /\ \A t \in Slots \ {s} : loads'[d][t] = loads[d][t]
        BY <1>c DEF Finish
      <3>2. \A t \in Slots : loads'[d][t] = Free
        <4>1. CASE hurried[d]
          BY <1>c, <4>1 DEF Finish
        <4>2. CASE ~hurried[d]
          BY <1>c, <3>1, <4>2 DEF Paged, Single
        <4>. QED
          BY <4>1, <4>2
      <3>. QED
        BY <3>2 DEF Single, Busy
    <2>. QED
      BY <2>1, <2>2 DEF Paged
  <1>d. ASSUME UNCHANGED <<loads, loading, page, hurried>> PROVE Paged'
    BY <1>a, <1>d DEF Paged
  <1>1. ASSUME NEW p \in Servers,
               Change(p) \/ (\E n \in 1..MaxChanges : Announce(p, n)) \/ Crash(p)
        PROVE  Paged'
    BY <1>1, <1>d DEF Change, Announce, Crash, browser
  <1>2. ASSUME NEW d \in Dashboards,
               \/ \E p \in Servers : Stream(d, p)
               \/ BreakStream(d)
               \/ \E how \in {"watching", "away", "editing"} : Attend(d, how)
        PROVE  Paged'
    BY <1>2, <1>d DEF Stream, BreakStream, Attend, browser
  <1>3. ASSUME NEW d \in Dashboards, Update(d) PROVE Paged'
    <2>1. CASE ShouldRefresh(d) /\ StartLoad(d) /\ UNCHANGED <<user, hurried>>
      BY <1>b, <2>1 DEF ShouldRefresh
    <2>2. CASE UNCHANGED browser
      BY <1>d, <2>2 DEF browser
    <2>. QED
      BY <1>3, <2>1, <2>2 DEF Update
  <1>4. ASSUME NEW d \in Dashboards, Timer(d) PROVE Paged'
    BY <1>4, <1>b DEF Timer, ShouldRefresh
  <1>5. ASSUME NEW d \in Dashboards,
               Navigate(d) \/ EnterOrganization(d) \/ LeaveOrganization(d)
        PROVE  Paged'
    <2>0. Load(d)
      BY <1>5 DEF Navigate, EnterOrganization, LeaveOrganization
    <2>1. StartLoad(d) /\ \A x \in Dashboards \ {d} : hurried'[x] = hurried[x]
      BY <2>0 DEF Load
    <2>2. hurried'[d] = (hurried[d] \/ Busy(d))
      BY <2>0 DEF Load
    <2>3. CASE hurried'[d] \/ ~loading[d]
      BY <1>b, <2>1, <2>2, <2>3
    <2>4. CASE ~hurried'[d]
      <3>1. \A t \in Slots : loads[d][t] = Free
        BY <2>2, <2>4 DEF Busy
      <3>2. PICK s \in Slots : loads' = [loads EXCEPT ![d][s] = Asked]
        BY <2>1 DEF StartLoad
      <3>3. loads'[d][s] = Asked /\ (\A t \in Slots \ {s} : loads'[d][t] = Free) /\ loading'[d]
        BY <2>1, <3>1, <3>2 DEF StartLoad
      <3>3a. \A t \in Slots : loads'[d][t] # Free => t = s
        BY <3>3
      <3>3b. \A t \in Slots : loads'[d][t] = Free \/ loads'[d][t] = Asked
        BY <3>3
      <3>4. Single(d)'
        BY <1>e, <3>3, <3>3a, <3>3b
      <3>5. ASSUME NEW x \in Dashboards \ {d} PROVE Single(x)'
        BY <2>1, <1>a, <3>2 DEF StartLoad, Paged
      <3>. QED
        BY <3>4, <3>5 DEF Paged
    <2>. QED
      BY <2>3, <2>4
  <1>6. ASSUME NEW d \in Dashboards, NEW s \in Slots, Read(d, s) PROVE Paged'
    <2>1. ASSUME NEW x \in Dashboards \ {d} PROVE Single(x)'
      BY <1>6, <1>a DEF Read, Paged
    <2>2. Single(d)'
      <3>1. /\ loads[d][s] = Asked /\ loads'[d][s] = version /\ version \in Nat
            /\ page[d] <= version
            /\ \A t \in Slots \ {s} : loads'[d][t] = loads[d][t]
            /\ UNCHANGED <<loading, page, hurried>>
        BY <1>6 DEF Read, Committed
      <3>2. \A t \in Slots : loads'[d][t] # Free => loads[d][t] # Free
        <4>1. loads[d][s] # Free
          BY <3>1
        <4>. QED
          BY <3>1, <4>1
      <3>. QED
        BY <3>1, <3>2 DEF Paged, Single, Busy
    <2>. QED
      BY <2>1, <2>2 DEF Paged
  <1>7. ASSUME NEW d \in Dashboards, NEW s \in Slots, Show(d, s) \/ ShowError(d, s)
        PROVE  Paged'
    BY <1>7, <1>c DEF Show, ShowError
  <1>8. CASE UNCHANGED vars
    BY <1>8, <1>d DEF vars, browser
  <1>. QED
    BY <1>1, <1>2, <1>3, <1>4, <1>5, <1>6, <1>7, <1>8 DEF Next

LEMMA ShownStep ==
  Typing /\ Paged /\ [Next]_vars =>
      \A d \in Dashboards :
         ~hurried[d] /\ page[d] # Nothing /\ page'[d] # Nothing => page'[d] >= page[d]
  <1>. SUFFICES ASSUME Typing, Paged, [Next]_vars, NEW d \in Dashboards, ~hurried[d],
                       page'[d] # Nothing
                PROVE  page'[d] >= page[d]
    OBVIOUS
  <1>. USE DEF Typing, TypeOK
  <1>0. page[d] \in Int /\ page[d] >= page[d]
    OBVIOUS
  <1>1. ASSUME NEW x \in Dashboards, NEW s \in Slots, Show(x, s) PROVE page'[d] >= page[d]
    <2>1. CASE x = d
      BY <1>1, <2>1 DEF Show, Finish, Paged, Single
    <2>2. CASE x # d
      BY <1>0, <1>1, <2>2 DEF Show, Finish
    <2>. QED
      BY <2>1, <2>2
  <1>2. ASSUME NEW x \in Dashboards, NEW s \in Slots, ShowError(x, s) PROVE page'[d] >= page[d]
    BY <1>0, <1>2 DEF ShowError, Finish
  <1>3. CASE UNCHANGED page
    BY <1>0, <1>3
  <1>4. ASSUME NEW x \in Dashboards,
               \/ \E p \in Servers : Stream(x, p)
               \/ BreakStream(x) \/ Update(x) \/ Timer(x)
               \/ Navigate(x) \/ EnterOrganization(x) \/ LeaveOrganization(x)
               \/ \E how \in {"watching", "away", "editing"} : Attend(x, how)
               \/ \E s \in Slots : Read(x, s)
        PROVE  UNCHANGED page
    BY <1>4 DEF Stream, BreakStream, Update, Timer, Navigate, EnterOrganization, LeaveOrganization,
                 Load, Attend, Read, StartLoad, browser
  <1>5. ASSUME NEW p \in Servers,
               Change(p) \/ (\E n \in 1..MaxChanges : Announce(p, n)) \/ Crash(p)
        PROVE  UNCHANGED page
    BY <1>5 DEF Change, Announce, Crash, browser
  <1>6. CASE UNCHANGED vars
    BY <1>3, <1>6 DEF vars, browser
  <1>. QED
    BY <1>1, <1>2, <1>3, <1>4, <1>5, <1>6 DEF Next

\* A page never goes back in time while the user does not overtake a fetch.
THEOREM PagesCorrect == Spec => PageNeverGoesBack
  <1>. QED
    BY ShownStep, TypingHolds, PagedInit, PagedStep, PTL DEF Spec, PageNeverGoesBack

=============================================================================
