------------------------------- MODULE Hub -------------------------------
(***************************************************************************)
(* The in-process fan-out of dashboard updates (type Hub of               *)
(* internal/visionops/app.go) and the Server-Sent-Events handler that      *)
(* drains it.  Each API process has a hub of its own, and each dashboard   *)
(* connected to that process has one buffered Go channel in it.  A         *)
(* broadcast appends to every channel of its own process that has room and *)
(* silently skips the full ones, so it never blocks its caller.            *)
(*                                                                         *)
(* This module holds the hubs' state and operations; the components that   *)
(* broadcast extend it, and HubFeed specifies it alone.                    *)
(***************************************************************************)
EXTENDS Naturals, Sequences

CONSTANTS
    Servers,      \* API processes, each with its own hub
    NoServer,
    Dashboards,   \* browsers that may hold an event stream open
    ChannelCap    \* capacity of one dashboard's channel (8 in the code)

ASSUME ServersAssumption == NoServer \notin Servers
ASSUME ChannelCapAssumption == ChannelCap \in Nat \ {0}

VARIABLES
    server,       \* the process in whose Hub.clients a dashboard's channel is
    channel       \* the messages buffered in each dashboard's channel

hubVars == <<server, channel>>

HubInit ==
    /\ server = [d \in Dashboards |-> NoServer]
    /\ channel = [d \in Dashboards |-> <<>>]

\* Mutants of Listening: a channel without a buffer, whose reader is never
\* waiting at that very moment; one that takes an update only when empty; and
\* a queue that grows with a slow reader.
ListeningUnbuffered(p) == {d \in Dashboards : server[d] = p /\ Len(channel[d]) < 0}
ListeningWhenEmpty(p) == {d \in Dashboards : server[d] = p /\ channel[d] = <<>>}
ListeningUnbounded(p) == {d \in Dashboards : server[d] = p}

\* The dashboards that a broadcast made now by process p would reach.
Listening(p) == {d \in Dashboards : server[d] = p /\ Len(channel[d]) < ChannelCap}

\* Hub.Broadcast: a non-blocking send to each registered channel, under h.mu.
Broadcast(p, m) ==
    /\ channel' = [d \in Dashboards |->
                     IF d \in Listening(p) THEN Append(channel[d], m) ELSE channel[d]]
    /\ UNCHANGED server

\* App.events up to its loop: a fresh channel is registered.
Connect(d, p) ==
    /\ server[d] = NoServer
    /\ server' = [server EXCEPT ![d] = p]
    /\ UNCHANGED channel

\* One round of the loop of App.events: the oldest message goes to the browser.
Receive(d) ==
    /\ channel[d] # <<>>
    /\ channel' = [channel EXCEPT ![d] = Tail(@)]
    /\ UNCHANGED server

\* Mutant of Drop: a channel is kept and handed to the next connection.
DropKeepingChannels(D) ==
    /\ server' = [d \in Dashboards |-> IF d \in D THEN NoServer ELSE server[d]]
    /\ UNCHANGED channel

\* The contexts of the requests of the dashboards in D end: the deferred
\* delete unregisters their channels, and what those still held is garbage.
Drop(D) ==
    /\ server' = [d \in Dashboards |-> IF d \in D THEN NoServer ELSE server[d]]
    /\ channel' = [d \in Dashboards |-> IF d \in D THEN <<>> ELSE channel[d]]

Disconnect(d) == server[d] # NoServer /\ Drop({d})

=============================================================================
