---------------------------- MODULE RateLimiter ----------------------------
(***************************************************************************)
(* The in-memory request limiter of an API process (App.rates, allowRate   *)
(* and clearRate of internal/visionops/app.go) and its two users: ingest,  *)
(* per API key, and login, per client address, whose success clears the    *)
(* address's window.  Both run as concurrent handlers: a sign-in checks the *)
(* password between its two calls, and others come in meanwhile.           *)
(*                                                                         *)
(* A window opens with the first request after the last one closed; it is  *)
(* not a sliding one.                                                      *)
(***************************************************************************)
EXTENDS Integers, FiniteSets, Sequences

CONSTANTS
    ApiKeys, Addresses,   \* what requests are counted by
    Limit,                \* requests per window (60 and 10 in the code)
    Minute,               \* the length of a window
    MaxNow,               \* bound: the clock stops here
    MaxChecking,          \* bound: sign-ins being checked at once, per address
    MaxSignIns,           \* bound: successful sign-ins per address
    None

Keys == ApiKeys \union Addresses

\* The two users put different prefixes before what they count by.
ASSUME KeysAssumption == ApiKeys \intersect Addresses = {}
ASSUME LimitAssumption == Limit \in [Keys -> Nat \ {0}]
ASSUME MinuteAssumption == Minute \in Nat \ {0}

Windows  == [started : Nat, count : Nat \ {0}]
Requests == [era : Nat, started : Nat, number : Nat \ {0}, at : Nat]

ASSUME NoneAssumption == None \notin Windows /\ None \notin Keys \X BOOLEAN

VARIABLES
    now,          \* the process's monotonic clock
    rates,        \* App.rates: the window of a key; None without an entry
    checking,     \* sign-ins of an address that passed the limiter, unanswered
    answer,       \* history: the key of the last call and whether it passed
    log,          \* history: all requests a key got through
    clears        \* history: the times at which a key's window was deleted

vars == <<now, rates, checking, answer, log, clears>>

\* Which of the spans between two deletions of its window a key is in.
Era(k) == Len(clears[k])

TypeOK ==
    /\ now \in Nat
    /\ rates \in [Keys -> Windows \union {None}]
    /\ checking \in [Addresses -> Nat]
    /\ answer \in (Keys \X BOOLEAN) \union {None}
    /\ log \in [Keys -> SUBSET Requests]
    /\ clears \in [Keys -> Seq(Nat)]

Init ==
    /\ now = 0
    /\ rates = [k \in Keys |-> None]
    /\ checking = [k \in Addresses |-> 0]
    /\ answer = None
    /\ log = [k \in Keys |-> {}]
    /\ clears = [k \in Keys |-> <<>>]

-----------------------------------------------------------------------------
\* Mutant of Purged: an expired entry is zeroed and stays in the map.
PurgedInPlace ==
    [k \in Keys |-> IF rates[k] # None /\ now - rates[k].started >= Minute
                    THEN [started |-> 0, count |-> 0] ELSE rates[k]]

\* Every call first deletes the entries of windows that are over, of all keys.
Purged ==
    [k \in Keys |-> IF rates[k] # None /\ now - rates[k].started >= Minute
                    THEN None ELSE rates[k]]

\* Mutant of Full: compares with > instead of >=.
FullLate(k) == Purged[k] # None /\ Purged[k].count > Limit[k]

Full(k) == Purged[k] # None /\ Purged[k].count >= Limit[k]

\* Mutant of Counted: each request restarts its window.
CountedSliding(k) ==
    [started |-> now, count |-> IF Purged[k] = None THEN 1 ELSE Purged[k].count + 1]

\* The window of key k once one more request is let through.
Counted(k) ==
    IF Purged[k] = None THEN [started |-> now, count |-> 1]
    ELSE [Purged[k] EXCEPT !.count = @ + 1]

\* allowRate returns true ...
Pass(k) ==
    /\ ~Full(k)
    /\ rates' = [Purged EXCEPT ![k] = Counted(k)]
    /\ answer' = <<k, TRUE>>
    /\ log' = [log EXCEPT ![k] = @ \union
                 {[era |-> Era(k), started |-> Counted(k).started,
                   number |-> Counted(k).count, at |-> now]}]
    /\ UNCHANGED clears

\* ... or false, and the handler answers 429.
Refuse(k) ==
    /\ Full(k)
    /\ rates' = Purged
    /\ answer' = <<k, FALSE>>
    /\ UNCHANGED <<log, clears>>

ClearRate(k) ==
    /\ rates' = [rates EXCEPT ![k] = None]
    /\ clears' = [clears EXCEPT ![k] = Append(@, now)]
    /\ UNCHANGED log

\* POST /api/v1/ingest/detections with a valid API key.
Ingest(k) ==
    /\ Pass(k) \/ Refuse(k)
    /\ UNCHANGED <<now, checking>>

\* POST /api/v1/auth/login: the limiter ...
Login(k) ==
    /\ checking[k] < MaxChecking
    /\ \/ Pass(k) /\ checking' = [checking EXCEPT ![k] = @ + 1]
       \/ Refuse(k) /\ UNCHANGED checking
    /\ UNCHANGED now

\* Mutant of RejectLogin: the window is deleted before the password is compared.
RejectLoginClearing(k) ==
    /\ checking[k] > 0
    /\ checking' = [checking EXCEPT ![k] = @ - 1]
    /\ rates' = [rates EXCEPT ![k] = None]
    /\ answer' = None
    /\ UNCHANGED <<now, log, clears>>

\* ... and, if it passed, the credentials: malformed or wrong ones leave the
\* window as it is by then ...
RejectLogin(k) ==
    /\ checking[k] > 0
    /\ checking' = [checking EXCEPT ![k] = @ - 1]
    /\ answer' = None
    /\ UNCHANGED <<now, rates, log, clears>>

\* ... and right ones delete it, whatever was counted meanwhile.
AcceptLogin(k) ==
    /\ checking[k] > 0
    /\ Era(k) < MaxSignIns
    /\ checking' = [checking EXCEPT ![k] = @ - 1]
    /\ ClearRate(k)
    /\ answer' = None
    /\ UNCHANGED now

Tick ==
    /\ now < MaxNow
    /\ now' = now + 1
    /\ answer' = None
    /\ UNCHANGED <<rates, checking, log, clears>>

Next ==
    \/ \E k \in ApiKeys : Ingest(k)
    \/ \E k \in Addresses : Login(k) \/ RejectLogin(k) \/ AcceptLogin(k)
    \/ Tick

Spec == Init /\ [][Next]_vars

-----------------------------------------------------------------------------
\* The requests of key k that got through within the last minute, whenever its
\* windows opened and whether or not one was deleted meanwhile.
Recent(k) == {q \in log[k] : q.at > now - Minute}

\* Those since its window was last deleted.
RecentCounted(k) == {q \in Recent(k) : q.era = Era(k)}

\* Successful sign-ins within the last minute.
RecentClears(k) == {i \in 1..Era(k) : clears[k][i] > now - Minute}

\* In no minute, wherever it starts, do twice the limit of an API key get
\* through.  A minute may see one request less than that, and not just the limit
\* README.md:69 and docs/OPERATIONS.md:46 speak of, as windows are fixed
\* (app.go:436): one filled at its end may be followed by one filled at its
\* beginning, but the request that opened the older one is a minute old then.
BelowTwiceLimit == \A k \in ApiKeys : Cardinality(Recent(k)) <= 2 * Limit[k] - 1

\* The sign-ins of an address have no such bound, each success starts a new
\* window, but each adds one limit at the most: what gets through in a minute
\* beyond that has been paid for by a success in the same minute, whatever was
\* being checked when the window was deleted.
SuccessBuysOneLimit ==
    \A k \in Addresses :
        Cardinality(Recent(k)) <= (2 + Cardinality(RecentClears(k))) * Limit[k] - 1

\* A request is refused only if its own key has used up its limit within the
\* last minute, since its last successful sign-in if it is an address: neither
\* other keys nor entries of older windows ever count.
RefusedOnlyAtLimit ==
    \A k \in Keys : answer = <<k, FALSE>> => Cardinality(RecentCounted(k)) >= Limit[k]

=============================================================================
