------------------------------ MODULE HubFeed ------------------------------
(***************************************************************************)
(* The hubs on their own: handlers and workers broadcast at any time,      *)
(* dashboards connect, drain their channels and leave in any order.  The   *)
(* n-th broadcast of a process is the message n.  An update carries        *)
(* nothing a dashboard uses, it only wakes it, so what matters is not only *)
(* which updates arrive but that one is handed over after the last of the  *)
(* broadcasts.  What a dashboard does with an update, and when, is not the *)
(* hubs' business: LiveDashboard has it.                                   *)
(***************************************************************************)
EXTENDS Hub

CONSTANT MaxSent   \* bound: broadcasts per process

VARIABLES
    sent,     \* broadcasts each process has made
    base,     \* history: broadcasts made before the dashboard connected
    got,      \* history: updates received over the current connection
    handed    \* history: broadcasts made before the dashboard was last handed
              \* an update or, if none yet, before it was registered

vars == <<hubVars, sent, base, got, handed>>

Init ==
    /\ HubInit
    /\ sent = [p \in Servers |-> 0]
    /\ base = [d \in Dashboards |-> 0]
    /\ got = [d \in Dashboards |-> <<>>]
    /\ handed = [d \in Dashboards |-> 0]

Publish(p) ==
    /\ sent[p] < MaxSent
    /\ sent' = [sent EXCEPT ![p] = @ + 1]
    /\ Broadcast(p, sent[p] + 1)
    /\ UNCHANGED <<base, got, handed>>

\* The stream of a dashboard is registered; whether the page is fetched before
\* or after that, or at all, is up to the browser.
Open(d, p) ==
    /\ Connect(d, p)
    /\ base' = [base EXCEPT ![d] = sent[p]]
    /\ handed' = [handed EXCEPT ![d] = sent[p]]
    /\ UNCHANGED <<sent, got>>

Update(d) ==
    /\ Receive(d)
    /\ got' = [got EXCEPT ![d] = Append(@, Head(channel[d]))]
    /\ handed' = [handed EXCEPT ![d] = sent[server[d]]]
    /\ UNCHANGED <<sent, base>>

Close(d) ==
    /\ Disconnect(d)
    /\ base' = [base EXCEPT ![d] = 0]
    /\ got' = [got EXCEPT ![d] = <<>>]
    /\ handed' = [handed EXCEPT ![d] = 0]
    /\ UNCHANGED sent

Next ==
    \/ \E p \in Servers : Publish(p)
    \/ \E d \in Dashboards : \/ \E p \in Servers : Open(d, p)
                             \/ Update(d)
                             \/ Close(d)

Spec == Init /\ [][Next]_vars

-----------------------------------------------------------------------------
TypeOK ==
    /\ server \in [Dashboards -> Servers \union {NoServer}]
    /\ channel \in [Dashboards -> Seq(Nat)]
    /\ \A d \in Dashboards : Len(channel[d]) <= ChannelCap
    /\ sent \in [Servers -> Nat]
    /\ base \in [Dashboards -> Nat]
    /\ got \in [Dashboards -> Seq(Nat)]
    /\ handed \in [Dashboards -> Nat]

\* What is on its way to a dashboard or has reached it.
Stream(d) == got[d] \o channel[d]

\* The updates of one connection arrive in the order they were broadcast, each
\* at most once, and none is older than the connection or from another process.
InOrder ==
    \A d \in Dashboards :
        /\ \A i, k \in 1..Len(Stream(d)) : i < k => Stream(d)[i] < Stream(d)[k]
        /\ \A i \in 1..Len(Stream(d)) :
              /\ server[d] # NoServer
              /\ Stream(d)[i] \in (base[d] + 1)..sent[server[d]]

\* Nothing is lost early: either a dashboard got, or has buffered, every
\* broadcast made since it connected, or at least a whole channel of them.
LossNeedsLag ==
    \A d \in Dashboards : server[d] # NoServer =>
        \/ Len(Stream(d)) = sent[server[d]] - base[d]
        \/ Len(Stream(d)) >= ChannelCap

\* Skipping a full channel loses updates but never the wake-up: a connected
\* dashboard with nothing left to receive was handed its last update after the
\* last broadcast of its process, the skipped ones included (or was registered
\* after it).  That it then fetches is not said here: the browser ignores
\* updates in several of its states.
NoLostWakeup ==
    \A d \in Dashboards :
        server[d] # NoServer /\ channel[d] = <<>> => handed[d] = sent[server[d]]

=============================================================================
