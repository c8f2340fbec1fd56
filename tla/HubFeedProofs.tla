--------------------------- MODULE HubFeedProofs ---------------------------
(***************************************************************************)
(* Proofs about HubFeed, for any number of processes and dashboards, any   *)
(* capacity of the channels and any number of broadcasts.                  *)
(***************************************************************************)
EXTENDS HubFeed, SequenceTheorems, TLAPS

USE ServersAssumption, ChannelCapAssumption

-----------------------------------------------------------------------------
(* Sequences.                                                              *)

\* Receiving an update moves it from the channel to what was received.
LEMMA MoveHead ==
  ASSUME NEW s \in Seq(Nat), NEW c \in Seq(Nat), c # <<>>
  PROVE  Append(s, Head(c)) \o Tail(c) = s \o c
  <1>1. /\ Head(c) \in Nat /\ Tail(c) \in Seq(Nat) /\ Len(Tail(c)) = Len(c) - 1
        /\ \A i \in 1..Len(Tail(c)) : Tail(c)[i] = c[i + 1]
        /\ Head(c) = c[1]
    BY HeadTailProperties
  <1>. DEFINE t == Append(s, Head(c))
  <1>2. /\ t \in Seq(Nat) /\ Len(t) = Len(s) + 1
        /\ \A i \in 1..Len(s) : t[i] = s[i]
        /\ t[Len(s) + 1] = c[1]
    BY <1>1, AppendProperties
  <1>3. Len(s) \in Nat /\ Len(c) \in Nat
    BY LenProperties
  <1>. HIDE DEF t
  <1>4. /\ t \o Tail(c) \in Seq(Nat)
        /\ Len(t \o Tail(c)) = Len(t) + Len(Tail(c))
        /\ \A i \in 1..(Len(t) + Len(Tail(c))) :
              (t \o Tail(c))[i] = IF i <= Len(t) THEN t[i] ELSE Tail(c)[i - Len(t)]
    BY <1>1, <1>2, ConcatProperties, Zenon
  <1>5. ASSUME NEW i \in 1..(Len(s) + Len(c)) PROVE (t \o Tail(c))[i] = (s \o c)[i]
    <2>1. (s \o c)[i] = IF i <= Len(s) THEN s[i] ELSE c[i - Len(s)]
      BY ConcatProperties
    <2>2. (t \o Tail(c))[i] = IF i <= Len(t) THEN t[i] ELSE Tail(c)[i - Len(t)]
      <3>1. Len(t) + Len(Tail(c)) = Len(s) + Len(c)
        BY <1>1, <1>2, <1>3
      <3>. QED
        BY <1>4, <3>1
    <2>3. CASE i <= Len(s)
      BY <1>2, <1>3, <2>1, <2>2, <2>3
    <2>4. CASE i = Len(s) + 1
      BY <1>2, <1>3, <2>1, <2>2, <2>4
    <2>5. CASE i > Len(s) + 1
      <3>. DEFINE k == i - Len(t)
      <3>1. k \in 1..Len(Tail(c)) /\ k + 1 = i - Len(s) /\ ~(i <= Len(t)) /\ ~(i <= Len(s))
        BY <1>1, <1>2, <1>3, <2>5
      <3>2. Tail(c)[k] = c[k + 1]
        BY <1>1, <3>1
      <3>3. (t \o Tail(c))[i] = Tail(c)[k]
        BY <2>2, <3>1
      <3>4. (s \o c)[i] = c[i - Len(s)]
        BY <2>1, <3>1
      <3>. HIDE DEF k
      <3>. QED
        BY <3>1, <3>2, <3>3, <3>4
    <2>6. i <= Len(s) \/ i = Len(s) + 1 \/ i > Len(s) + 1
      BY <1>3, SMTT(30)
    <2>. QED
      BY <2>3, <2>4, <2>5, <2>6
  <1>6. t \o Tail(c) = s \o c
    <2>1. s \o c \in Seq(Nat) /\ Len(s \o c) = Len(s) + Len(c)
      BY ConcatProperties
    <2>2. Len(t \o Tail(c)) = Len(s \o c)
      BY <1>1, <1>2, <1>3, <1>4, <2>1
    <2>. QED
      BY <1>4, <1>5, <2>1, <2>2, SeqEqual
  <1>. QED
    BY <1>6 DEF t

\* An update put into the channel comes after all others.
LEMMA PutLast ==
  ASSUME NEW s \in Seq(Nat), NEW c \in Seq(Nat), NEW n \in Nat
  PROVE  s \o Append(c, n) = Append(s \o c, n)
  <1>1. <<n>> \in Seq(Nat) /\ s \o c \in Seq(Nat)
    BY ConcatProperties
  <1>2. Append(c, n) = c \o <<n>>
    BY AppendIsConcat
  <1>3. Append(s \o c, n) = (s \o c) \o <<n>>
    BY <1>1, AppendIsConcat
  <1>4. (s \o c) \o <<n>> = s \o (c \o <<n>>)
    BY <1>1, ConcatAssociative
  <1>. QED
    BY <1>2, <1>3, <1>4

\* A sequence to which something was put is not empty.
LEMMA AppendNotEmpty ==
  ASSUME NEW c \in Seq(Nat), NEW n \in Nat
  PROVE  Append(c, n) # <<>>
  <1>1. Len(Append(c, n)) = Len(c) + 1 /\ Len(c) \in Nat
    BY AppendProperties, LenProperties
  <1>2. Len(<<>>) = 0
    BY EmptySeq
  <1>. QED
    BY <1>1, <1>2

\* A number above all of an ascending sequence can be put last.
LEMMA AppendOrdered ==
  ASSUME NEW s \in Seq(Nat), NEW b \in Nat, NEW n \in Nat, b <= n,
         \A i, k \in 1..Len(s) : i < k => s[i] < s[k],
         \A i \in 1..Len(s) : s[i] \in (b + 1)..n
  PROVE  /\ \A i, k \in 1..(Len(s) + 1) :
               i < k => Append(s, n + 1)[i] < Append(s, n + 1)[k]
         /\ \A i \in 1..(Len(s) + 1) : Append(s, n + 1)[i] \in (b + 1)..(n + 1)
  <1>. DEFINE t == Append(s, n + 1)
              l == Len(s)
  <1>1. l \in Nat /\ n + 1 \in Nat
    BY LenProperties
  <1>2. (\A i \in 1..l : t[i] = s[i]) /\ t[l + 1] = n + 1
    BY <1>1, AppendProperties
  <1>. HIDE DEF t
  <1>3. ASSUME NEW i \in 1..(l + 1) PROVE t[i] \in (b + 1)..(n + 1)
    <2>1. CASE i = l + 1
      BY <1>2, <2>1
    <2>2. CASE i \in 1..l
      <3>1. t[i] = s[i] /\ s[i] \in (b + 1)..n
        BY <1>2, <2>2
      <3>. QED
        BY <3>1
    <2>. QED
      BY <1>1, <2>1, <2>2
  <1>4. ASSUME NEW i \in 1..(l + 1), NEW k \in 1..(l + 1), i < k PROVE t[i] < t[k]
    <2>1. i \in 1..l
      BY <1>1, <1>4
    <2>2. t[i] = s[i] /\ s[i] \in (b + 1)..n
      BY <1>2, <2>1
    <2>3. CASE k = l + 1
      <3>1. t[k] = n + 1
        BY <1>2, <2>3
      <3>. QED
        BY <2>2, <3>1
    <2>4. CASE k \in 1..l
      <3>1. t[k] = s[k] /\ s[i] < s[k]
        BY <1>2, <1>4, <2>1, <2>4
      <3>. QED
        BY <2>2, <3>1
    <2>. QED
      BY <1>1, <2>3, <2>4
  <1>. QED
    BY <1>3, <1>4 DEF t

-----------------------------------------------------------------------------
(* Typing.                                                                 *)

\* A dashboard without a stream has nothing of an earlier one.
Blank ==
    \A d \in Dashboards : server[d] = NoServer => channel[d] = <<>> /\ got[d] = <<>>

Typing == TypeOK /\ Blank

LEMMA TypingInit == Init => Typing
  BY EmptySeq DEF Init, HubInit, Typing, TypeOK, Blank

LEMMA TypingStep == Typing /\ [Next]_vars => Typing'
  <1>. SUFFICES ASSUME Typing, [Next]_vars PROVE Typing'
    OBVIOUS
  <1>. USE DEF Typing, TypeOK, Blank
  <1>1. ASSUME NEW p \in Servers, Publish(p) PROVE Typing'
    <2>1. sent[p] + 1 \in Nat
      OBVIOUS
    <2>2. \A d \in Listening(p) :
            /\ Append(channel[d], sent[p] + 1) \in Seq(Nat)
            /\ Len(Append(channel[d], sent[p] + 1)) <= ChannelCap
      BY <2>1, AppendProperties, LenProperties DEF Listening
    <2>3. channel' = [d \in Dashboards |->
                        IF d \in Listening(p) THEN Append(channel[d], sent[p] + 1)
                        ELSE channel[d]]
      BY <1>1 DEF Publish, Broadcast
    <2>4. \A d \in Dashboards : channel'[d] \in Seq(Nat) /\ Len(channel'[d]) <= ChannelCap
      BY <2>2, <2>3
    <2>5. channel' \in [Dashboards -> Seq(Nat)]
      BY <2>3, <2>4
    <2>6. \A d \in Dashboards : server[d] = NoServer => d \notin Listening(p)
      BY DEF Listening
    <2>. QED
      BY <1>1, <2>3, <2>4, <2>5, <2>6 DEF Publish, Broadcast
  <1>2. ASSUME NEW d \in Dashboards, NEW p \in Servers, Open(d, p) PROVE Typing'
    BY <1>2 DEF Open, Connect
  <1>3. ASSUME NEW d \in Dashboards, Update(d) PROVE Typing'
    <2>1. /\ Head(channel[d]) \in Nat /\ Tail(channel[d]) \in Seq(Nat)
          /\ Len(Tail(channel[d])) <= ChannelCap
      BY <1>3, HeadTailProperties, LenProperties DEF Update, Receive
    <2>2. Append(got[d], Head(channel[d])) \in Seq(Nat)
      BY <2>1, AppendProperties
    <2>3. channel' \in [Dashboards -> Seq(Nat)] /\ got' \in [Dashboards -> Seq(Nat)]
      BY <1>3, <2>1, <2>2 DEF Update, Receive
    <2>4. \A x \in Dashboards : Len(channel'[x]) <= ChannelCap
      BY <1>3, <2>1 DEF Update, Receive
    <2>5. server[d] \in Servers
      BY <1>3 DEF Update, Receive
    <2>. QED
      BY <1>3, <2>3, <2>4, <2>5 DEF Update, Receive
  <1>4. ASSUME NEW d \in Dashboards, Close(d) PROVE Typing'
    BY <1>4 DEF Close, Disconnect, Drop
  <1>5. CASE UNCHANGED vars
    BY <1>5 DEF vars, hubVars
  <1>. QED
    BY <1>1, <1>2, <1>3, <1>4, <1>5 DEF Next

\* The variables of the hubs always have their types; no channel ever holds
\* more than its capacity.
THEOREM TypeCorrect == Spec => []TypeOK
  <1>1. Typing => TypeOK
    BY DEF Typing
  <1>. QED
    BY <1>1, TypingInit, TypingStep, PTL DEF Spec

-----------------------------------------------------------------------------
(* Delivery.                                                               *)

\* The part of InOrder about dashboard d, with what a new broadcast needs: none
\* was made before the dashboard connected that it could be numbered before.
Ordered(d) ==
    /\ \A i, k \in 1..Len(Stream(d)) : i < k => Stream(d)[i] < Stream(d)[k]
    /\ \A i \in 1..Len(Stream(d)) :
          /\ server[d] # NoServer
          /\ Stream(d)[i] \in (base[d] + 1)..sent[server[d]]
    /\ server[d] # NoServer => base[d] <= sent[server[d]]

\* Those of LossNeedsLag and NoLostWakeup.
Lagging(d) ==
    server[d] # NoServer =>
        \/ Len(Stream(d)) = sent[server[d]] - base[d]
        \/ Len(Stream(d)) >= ChannelCap

Woken(d) ==
    server[d] # NoServer /\ channel[d] = <<>> => handed[d] = sent[server[d]]

Fed(d) == Ordered(d) /\ Lagging(d) /\ Woken(d)

Feed == Typing /\ \A d \in Dashboards : Fed(d)

LEMMA FeedInit == Init => Feed
  <1>. SUFFICES ASSUME Init PROVE Feed
    OBVIOUS
  <1>1. ASSUME NEW d \in Dashboards PROVE Fed(d)
    <2>1. server[d] = NoServer /\ Stream(d) = <<>>
      BY ConcatEmptySeq, EmptySeq DEF Init, HubInit, Stream
    <2>2. Len(Stream(d)) = 0
      BY <2>1, EmptySeq
    <2>. QED
      BY <2>1, <2>2 DEF Fed, Ordered, Lagging, Woken
  <1>. QED
    BY <1>1, TypingInit DEF Feed

\* One more update in the stream and one more broadcast leave it as complete, or
\* as full, as it was.
LEMMA OneMore ==
  ASSUME NEW l \in Nat, NEW n \in Nat, NEW b \in Nat, l = n - b \/ l >= ChannelCap
  PROVE  l + 1 = (n + 1) - b \/ l + 1 >= ChannelCap
  OBVIOUS

\* Broadcasting to a channel with room.
LEMMA FedByPublish ==
  ASSUME Typing, NEW p \in Servers, Publish(p), NEW d \in Listening(p), Fed(d)
  PROVE  Fed(d)'
  <1>. DEFINE s == Stream(d)
              n == sent[p]
  <1>. USE DEF Typing, TypeOK
  <1>1. /\ d \in Dashboards /\ server[d] = p /\ p # NoServer
        /\ server'[d] = p /\ sent'[p] = n + 1 /\ base'[d] = base[d]
    BY DEF Publish, Broadcast, Listening
  <1>2. channel'[d] = Append(channel[d], n + 1) /\ got'[d] = got[d]
    BY <1>1 DEF Publish, Broadcast
  <1>3. n \in Nat /\ n + 1 \in Nat /\ base[d] \in Nat
    BY <1>1
  <1>a. got[d] \in Seq(Nat) /\ channel[d] \in Seq(Nat)
    BY <1>1
  <1>4. s \in Seq(Nat) /\ Len(s) \in Nat
    <2>1. s \in Seq(Nat)
      BY <1>a, ConcatProperties DEF Stream
    <2>. QED
      BY <2>1, LenProperties
  <1>5. Stream(d)' = Append(s, n + 1)
    <2>1. got[d] \o Append(channel[d], n + 1) = Append(got[d] \o channel[d], n + 1)
      BY <1>3, <1>a, PutLast, SMTT(30)
    <2>. QED
      BY <1>2, <2>1 DEF Stream
  <1>. HIDE DEF s, n
  <1>. DEFINE t == Append(s, n + 1)
              l == Len(s)
  <1>6. /\ Len(t) = l + 1
        /\ \A i \in 1..l : t[i] = s[i]
        /\ t[l + 1] = n + 1
    BY <1>3, <1>4, AppendProperties
  <1>7. /\ \A i, k \in 1..l : i < k => s[i] < s[k]
        /\ \A i \in 1..l : s[i] \in (base[d] + 1)..n
        /\ base[d] <= n
    BY <1>1 DEF s, n, Fed, Ordered
  <1>8. Ordered(d)'
    <2>1. /\ \A i, k \in 1..(l + 1) : i < k => t[i] < t[k]
          /\ \A i \in 1..(l + 1) : t[i] \in (base[d] + 1)..(n + 1)
      BY <1>3, <1>4, <1>7, AppendOrdered
    <2>2. base[d] <= n + 1
      BY <1>3, <1>7
    <2>3. Stream(d)' = t /\ Len(t) = l + 1
      BY <1>5, <1>6
    <2>. HIDE DEF t, l
    <2>. QED
      BY <1>1, <2>1, <2>2, <2>3 DEF Ordered
  <1>9. Lagging(d)'
    <2>1. Len(s) = n - base[d] \/ Len(s) >= ChannelCap
      BY <1>1 DEF s, n, Fed, Lagging
    <2>2. Len(s) + 1 = (n + 1) - base[d] \/ Len(s) + 1 >= ChannelCap
      BY <1>3, <1>4, <2>1, OneMore
    <2>3. Len(Stream(d)') = Len(s) + 1
      BY <1>5, <1>6
    <2>. QED
      BY <1>1, <2>2, <2>3 DEF Lagging
  <1>10. Woken(d)'
    <2>1. channel[d] \in Seq(Nat)
      BY <1>1
    <2>. QED
      BY <1>2, <1>3, <2>1, AppendNotEmpty DEF Woken
  <1>. QED
    BY <1>8, <1>9, <1>10 DEF Fed

\* Broadcasting past a full channel, which is not empty: it holds enough to
\* excuse the loss, and to wake the dashboard later.
LEMMA FedWhenFull ==
  ASSUME Typing, NEW p \in Servers, Publish(p),
         NEW d \in Dashboards \ Listening(p), server[d] = p, Fed(d)
  PROVE  Fed(d)'
  <1>. USE DEF Typing, TypeOK
  <1>1. /\ server'[d] = p /\ sent'[p] = sent[p] + 1 /\ base'[d] = base[d]
        /\ channel'[d] = channel[d] /\ Stream(d)' = Stream(d)
    BY DEF Publish, Broadcast, Stream
  <1>2. Len(channel[d]) \in Nat /\ Len(channel[d]) >= ChannelCap
    BY LenProperties DEF Listening
  <1>3. channel[d] # <<>>
    BY <1>2, EmptySeq
  <1>4. Len(Stream(d)) \in Nat /\ Len(Stream(d)) >= ChannelCap
    <2>1. Len(Stream(d)) = Len(got[d]) + Len(channel[d]) /\ Len(got[d]) \in Nat
      BY ConcatProperties, LenProperties DEF Stream
    <2>. QED
      BY <1>2, <2>1
  <1>5. sent[p] \in Nat /\ base[d] \in Nat
    OBVIOUS
  <1>6. Ordered(d)'
    BY <1>1, <1>5 DEF Fed, Ordered
  <1>. QED
    BY <1>1, <1>3, <1>4, <1>6 DEF Fed, Lagging, Woken

\* Steps that are none of the dashboard's.
LEMMA FedAside ==
  ASSUME NEW d \in Dashboards, Fed(d),
         server'[d] = server[d], channel'[d] = channel[d], got'[d] = got[d],
         base'[d] = base[d], handed'[d] = handed[d],
         server[d] # NoServer => sent'[server[d]] = sent[server[d]]
  PROVE  Fed(d)'
  BY DEF Fed, Ordered, Lagging, Woken, Stream

LEMMA FeedStep == Feed /\ [Next]_vars => Feed'
  <1>. SUFFICES ASSUME Feed, [Next]_vars, NEW d \in Dashboards PROVE Fed(d)'
    BY TypingStep DEF Feed
  <1>. USE DEF Feed, Typing, TypeOK
  <1>1. ASSUME NEW p \in Servers, Publish(p) PROVE Fed(d)'
    <2>1. CASE server[d] = p
      BY <1>1, <2>1, FedByPublish, FedWhenFull
    <2>2. CASE server[d] # p
      <3>1. d \notin Listening(p)
        BY <2>2 DEF Listening
      <3>2. server[d] # NoServer => sent'[server[d]] = sent[server[d]]
        BY <1>1, <2>2 DEF Publish
      <3>. QED
        BY <1>1, <3>1, <3>2, FedAside DEF Publish, Broadcast
    <2>. QED
      BY <2>1, <2>2
  <1>2. ASSUME NEW x \in Dashboards \ {d},
               server' = [server EXCEPT ![x] = server'[x]],
               channel' = [channel EXCEPT ![x] = channel'[x]],
               base' = [base EXCEPT ![x] = base'[x]],
               got' = [got EXCEPT ![x] = got'[x]],
               handed' = [handed EXCEPT ![x] = handed'[x]], sent' = sent
        PROVE  Fed(d)'
    BY <1>2, FedAside
  <1>3. ASSUME NEW x \in Dashboards, NEW p \in Servers, Open(x, p) PROVE Fed(d)'
    <2>1. CASE x = d
      <3>1. /\ server'[d] = p /\ base'[d] = sent[p] /\ handed'[d] = sent[p]
            /\ sent' = sent /\ channel'[d] = <<>> /\ got'[d] = <<>>
        BY <1>3, <2>1 DEF Open, Connect, Blank
      <3>2. Stream(d)' = <<>> /\ Len(<<>>) = 0
        BY <3>1, ConcatEmptySeq, EmptySeq DEF Stream
      <3>3. sent[p] \in Nat
        OBVIOUS
      <3>. QED
        BY <3>1, <3>2, <3>3 DEF Fed, Ordered, Lagging, Woken
    <2>. QED
      BY <1>2, <1>3, <2>1 DEF Open, Connect
  <1>4. ASSUME NEW x \in Dashboards, Update(x) PROVE Fed(d)'
    <2>1. CASE x = d
      <3>1. Stream(d)' = Stream(d)
        BY <1>4, <2>1, MoveHead DEF Update, Receive, Stream
      <3>2. UNCHANGED <<server, sent, base>> /\ handed'[d] = sent[server[d]]
        BY <1>4, <2>1 DEF Update, Receive
      <3>. QED
        BY <3>1, <3>2 DEF Fed, Ordered, Lagging, Woken
    <2>. QED
      BY <1>2, <1>4, <2>1 DEF Update, Receive
  <1>5. ASSUME NEW x \in Dashboards, Close(x) PROVE Fed(d)'
    <2>1. CASE x = d
      <3>1. server'[d] = NoServer /\ channel'[d] = <<>> /\ got'[d] = <<>>
        BY <1>5, <2>1 DEF Close, Disconnect, Drop
      <3>2. Stream(d)' = <<>> /\ Len(<<>>) = 0
        BY <3>1, ConcatEmptySeq, EmptySeq DEF Stream
      <3>. QED
        BY <3>1, <3>2 DEF Fed, Ordered, Lagging, Woken
    <2>. QED
      BY <1>2, <1>5, <2>1 DEF Close, Disconnect, Drop
  <1>6. CASE UNCHANGED vars
    <2>1. /\ server' = server /\ channel' = channel /\ got' = got /\ base' = base
          /\ handed' = handed /\ sent' = sent
      BY <1>6 DEF vars, hubVars
    <2>. QED
      BY <2>1, FedAside
  <1>. QED
    BY <1>1, <1>3, <1>4, <1>5, <1>6 DEF Next

LEMMA FeedHolds == Spec => []Feed
  BY FeedInit, FeedStep, PTL DEF Spec

\* Over one connection the updates arrive in the order they were broadcast, each
\* at most once, and none from before the connection.
THEOREM OrderKept == Spec => []InOrder
  <1>1. Feed => InOrder
    BY DEF Feed, Fed, Ordered, InOrder
  <1>. QED
    BY <1>1, FeedHolds, PTL

\* A full channel skips an update only for a dashboard that is a whole channel
\* behind: any other has every broadcast since it connected.
THEOREM LossIsLag == Spec => []LossNeedsLag
  <1>1. Feed => LossNeedsLag
    BY DEF Feed, Fed, Lagging, LossNeedsLag
  <1>. QED
    BY <1>1, FeedHolds, PTL

\* A connected dashboard with nothing left to receive was handed an update, or was
\* registered, after the last broadcast of its process, whatever was skipped.
THEOREM DrainedIsCurrent == Spec => []NoLostWakeup
  <1>1. Feed => NoLostWakeup
    BY DEF Feed, Fed, Woken, NoLostWakeup
  <1>. QED
    BY <1>1, FeedHolds, PTL

=============================================================================
