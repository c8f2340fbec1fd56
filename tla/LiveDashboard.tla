--------------------------- MODULE LiveDashboard ---------------------------
(***************************************************************************)
(* The web dashboard keeping its page up to date (web/app.js: renderRoute, *)
(* connectLiveUpdates, shouldRefreshLiveData), over the hubs of the API     *)
(* processes.  A handler commits a change and then broadcasts it; a        *)
(* dashboard that hears of it fetches its page anew, unless it is fetching *)
(* already or the user has a form open or is on the organization page, and *)
(* refreshes on a timer besides, under the same conditions.                *)
(* What a page shows is how many committed changes it has seen.            *)
(***************************************************************************)
EXTENDS Hub, Integers, FiniteSets

CONSTANTS
    MaxChanges,   \* bound: changes committed
    Slots,        \* bound: fetches a dashboard has under way at once
    Faults        \* which failures the environment may produce

\* "crash": a process dies or a stream breaks; "fetch": a fetch fails.
FaultKinds == {"crash", "fetch"}

ASSUME BoundsAssumption == MaxChanges \in Nat /\ IsFiniteSet(Slots)
ASSUME FaultsAssumption == Faults \subseteq FaultKinds

VARIABLES
    version,      \* changes committed to the database
    announcing,   \* handlers between their commit and their broadcast
    loads,        \* fetches of a dashboard: free, asked, or what the answer saw
    loading,      \* state.loading
    page,         \* what the page shows; Nothing for the error view
    user,         \* what the user is at, one of Attention
    hurried       \* history: the user started a fetch while one was under way

browser == <<loads, loading, page, user, hurried>>
vars == <<hubVars, version, announcing, browser>>

\* On a page that refreshes itself, with the browser's window hidden or with a
\* form open there; or on the organization page, which never does.
Attention == {"watching", "away", "editing", "organization"}

Free == -1
Asked == -2
Nothing == -1

TypeOK ==
    /\ server \in [Dashboards -> Servers \union {NoServer}]
    /\ channel \in [Dashboards -> Seq(Nat)]
    /\ \A d \in Dashboards : Len(channel[d]) <= ChannelCap
    /\ version \in Nat
    /\ announcing \in SUBSET (Servers \X Nat)
    /\ loads \in [Dashboards -> [Slots -> Nat \union {Free, Asked}]]
    /\ loading \in [Dashboards -> BOOLEAN]
    /\ page \in [Dashboards -> Nat \union {Nothing}]
    /\ user \in [Dashboards -> Attention]
    /\ hurried \in [Dashboards -> BOOLEAN]

\* Signed in, nothing fetched yet.
Init ==
    /\ HubInit
    /\ version = 0
    /\ announcing = {}
    /\ loads = [d \in Dashboards |-> [s \in Slots |-> Free]]
    /\ loading = [d \in Dashboards |-> FALSE]
    /\ page = [d \in Dashboards |-> Nothing]
    /\ user = [d \in Dashboards |-> "watching"]
    /\ hurried = [d \in Dashboards |-> FALSE]

-----------------------------------------------------------------------------
(* The API processes.                                                      *)

\* A handler or worker of process p commits a change ...
Change(p) ==
    /\ version < MaxChanges
    /\ version' = version + 1
    /\ announcing' = announcing \union {<<p, version + 1>>}
    /\ UNCHANGED <<hubVars, browser>>

\* ... and broadcasts it, in any order with other handlers.
Announce(p, n) ==
    /\ <<p, n>> \in announcing
    /\ announcing' = announcing \ {<<p, n>>}
    /\ Broadcast(p, n)
    /\ UNCHANGED <<version, browser>>

\* A process dies: its streams break, and what it has not broadcast it never will.
Crash(p) ==
    /\ "crash" \in Faults
    /\ announcing' = {h \in announcing : h[1] # p}
    /\ Drop({d \in Dashboards : server[d] = p})
    /\ UNCHANGED <<version, browser>>

-----------------------------------------------------------------------------
(* The browser.                                                            *)

Busy(d) == \E s \in Slots : loads[d][s] # Free

\* renderRoute up to its await: the flag is set and the fetch goes out.
StartLoad(d) ==
    /\ \E s \in Slots :
          /\ loads[d][s] = Free
          /\ loads' = [loads EXCEPT ![d][s] = Asked]
    /\ loading' = [loading EXCEPT ![d] = TRUE]
    /\ UNCHANGED page

\* Mutant of ShouldRefresh: a refresh does not wait for the one under way.
ShouldRefreshAlways(d) == user[d] \notin {"editing", "organization"}

\* shouldRefreshLiveData: not while fetching, nor under an open form, nor on the
\* organization page.
ShouldRefresh(d) == ~loading[d] /\ user[d] \notin {"editing", "organization"}

\* The EventSource connects, at first or again by itself after an error; the
\* page is not fetched anew for it.
Stream(d, p) ==
    /\ Connect(d, p)
    /\ UNCHANGED <<version, announcing, browser>>

BreakStream(d) ==
    /\ "crash" \in Faults
    /\ Disconnect(d)
    /\ UNCHANGED <<version, announcing, browser>>

\* An update event: what it says is not used, and it may well be ignored.
Update(d) ==
    /\ Receive(d)
    /\ IF ShouldRefresh(d) THEN StartLoad(d) /\ UNCHANGED <<user, hurried>>
                           ELSE UNCHANGED browser
    /\ UNCHANGED <<version, announcing>>

\* The refresh every 30 seconds, if the page is visible.
Timer(d) ==
    /\ ShouldRefresh(d)
    /\ user[d] # "away"
    /\ StartLoad(d)
    /\ UNCHANGED <<hubVars, version, announcing, user, hurried>>

\* The user opens a page or finishes an operation: renderRoute, unconditionally.
Load(d) ==
    /\ StartLoad(d)
    /\ hurried' = [hurried EXCEPT ![d] = @ \/ Busy(d)]
    /\ UNCHANGED <<hubVars, version, announcing>>

Navigate(d) == Load(d) /\ UNCHANGED user

\* So does the way to the organization page and back.
EnterOrganization(d) ==
    /\ user[d] \in {"watching", "editing"}
    /\ user' = [user EXCEPT ![d] = "organization"]
    /\ Load(d)

LeaveOrganization(d) ==
    /\ user[d] = "organization"
    /\ user' = [user EXCEPT ![d] = "watching"]
    /\ Load(d)

\* Hiding the window or opening a form fetches nothing.
Attend(d, how) ==
    /\ user[d] \notin {how, "organization"}
    /\ user' = [user EXCEPT ![d] = how]
    /\ UNCHANGED <<hubVars, version, announcing, loads, loading, page, hurried>>

\* A fetch under way reaches its server and reads what is committed then.
Read(d, s) ==
    /\ loads[d][s] = Asked
    /\ loads' = [loads EXCEPT ![d][s] = version]
    /\ UNCHANGED <<hubVars, version, announcing, loading, page, user, hurried>>

\* Mutant of Finish: a failed fetch leaves the flag set.
FinishUnlessFailed(d, s, shown) ==
    /\ loads' = [loads EXCEPT ![d][s] = Free]
    /\ loading' = [loading EXCEPT ![d] = shown = Nothing]
    /\ page' = [page EXCEPT ![d] = shown]
    /\ hurried' = [hurried EXCEPT ![d] = @ /\ \E t \in Slots : loads'[d][t] # Free]
    /\ UNCHANGED <<hubVars, version, announcing, user>>

\* renderRoute after its await: the page is drawn and the flag cleared, even if
\* another fetch is still under way.
Finish(d, s, shown) ==
    /\ loads' = [loads EXCEPT ![d][s] = Free]
    /\ loading' = [loading EXCEPT ![d] = FALSE]
    /\ page' = [page EXCEPT ![d] = shown]
    /\ hurried' = [hurried EXCEPT ![d] = @ /\ \E t \in Slots : loads'[d][t] # Free]
    /\ UNCHANGED <<hubVars, version, announcing, user>>

Show(d, s) == loads[d][s] \in Nat /\ Finish(d, s, loads[d][s])

\* The fetch fails: the error view replaces the page.
ShowError(d, s) ==
    /\ "fetch" \in Faults
    /\ loads[d][s] # Free
    /\ Finish(d, s, Nothing)

Next ==
    \/ \E p \in Servers : \/ Change(p)
                          \/ \E n \in 1..MaxChanges : Announce(p, n)
                          \/ Crash(p)
    \/ \E d \in Dashboards :
          \/ \E p \in Servers : Stream(d, p)
          \/ BreakStream(d)
          \/ Update(d)
          \/ Timer(d)
          \/ Navigate(d) \/ EnterOrganization(d) \/ LeaveOrganization(d)
          \/ \E how \in {"watching", "away", "editing"} : Attend(d, how)
          \/ \E s \in Slots : Read(d, s) \/ Show(d, s) \/ ShowError(d, s)

Spec == Init /\ [][Next]_vars

\* The timer keeps ticking (Timer is the tick that finds it may refresh).
\* Nothing is assumed of broadcasts, streams or the user, nor of fetches: they
\* have no timeout (app.js:23), and one that hangs keeps the flag set.
FairSpec == Spec /\ \A d \in Dashboards : WF_vars(Timer(d))

-----------------------------------------------------------------------------
\* A page never goes back in time, whatever updates and timers come in: an
\* automatic refresh never overlaps another fetch.  Only after the user starts
\* a fetch while another is under way may an older answer overtake a newer one,
\* and no longer than until the overlapping fetches have ended.
PageNeverGoesBack ==
    [][\A d \in Dashboards :
         ~hurried[d] /\ page[d] # Nothing /\ page'[d] # Nothing => page'[d] >= page[d]]_vars

Failing ==
    \E d \in Dashboards, s \in Slots :
        loads[d][s] # Free /\ loads'[d][s] = Free /\ page'[d] = Nothing
Watched == \A d \in Dashboards : user[d] = "watching"

\* Every fetch ends, with an answer or an error.  The browser does not see to
\* that: this is what its network and the servers would have to grant.
FetchesEnd == \A d \in Dashboards, s \in Slots : []<>(loads[d][s] = Free)

\* Once nothing changes any more, the user watches a page that refreshes itself
\* and fetches end and succeed, every page ends up showing the last change for
\* good, whichever updates were skipped, dropped or lost with their process, and
\* whatever was shown before.  The organization page is no such page.
Converges ==
    <>[]Watched /\ FetchesEnd /\ <>[][~Failing]_vars =>
        \A d \in Dashboards : <>[](page[d] = version)

=============================================================================
