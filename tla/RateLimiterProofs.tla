------------------------- MODULE RateLimiterProofs -------------------------
(***************************************************************************)
(* Proofs about RateLimiter, for any number of keys, any limits and any    *)
(* length of a window.  The inductive invariant IInv says how the log of   *)
(* admitted requests splits into eras, which the deletions of a key's      *)
(* window bound, and each era into windows: a request's number counts      *)
(* within its window, the first one opens it, the windows of an era lie at *)
(* least a minute apart and the map holds the newest one of the last era.  *)
(***************************************************************************)
EXTENDS RateLimiter, FiniteSetTheorems, SequenceTheorems, TLAPS

LEMMA KeysCovered == ApiKeys \subseteq Keys /\ Addresses \subseteq Keys
  BY DEF Keys

\* The deletions of a window are listed in the order of their times.
Ascending(k) ==
    /\ \A i \in 1..Era(k) : clears[k][i] <= now
    /\ \A i, j \in 1..Era(k) : i <= j => clears[k][i] <= clears[k][j]

\* Only a sign-in deletes a window.
KeptForApiKeys(k) == k \in ApiKeys => clears[k] = <<>>

\* Each admitted request lies in its window, within the limit, ...
InWindow(k) ==
    \A q \in log[k] :
        /\ q.number \in 1..Limit[k]
        /\ q.started <= q.at /\ q.at < q.started + Minute /\ q.at <= now
        /\ q.number = 1 => q.at = q.started

\* ... and its window in its era.
InEra(k) ==
    \A q \in log[k] :
        /\ q.era <= Era(k)
        /\ q.era > 0 => clears[k][q.era] <= q.started
        /\ q.era < Era(k) => q.at <= clears[k][q.era + 1]

Numbered(k) ==
    \A p, q \in log[k] :
        p.era = q.era /\ p.started = q.started /\ p.number = q.number => p = q

Apart(k) ==
    \A p, q \in log[k] : p.era = q.era =>
        \/ p.started = q.started
        \/ p.started + Minute <= q.started
        \/ q.started + Minute <= p.started

\* The map holds the newest window, and its count is the number of its requests.
Newest(k) ==
    IF rates[k] = None
    THEN \A q \in log[k] : q.era = Era(k) => q.started + Minute <= now
    ELSE /\ rates[k].count <= Limit[k]
         /\ rates[k].started <= now
         /\ Era(k) > 0 => clears[k][Era(k)] <= rates[k].started
         /\ \A q \in log[k] : q.era = Era(k) =>
               \/ q.started = rates[k].started /\ q.number <= rates[k].count
               \/ q.started + Minute <= rates[k].started
         /\ \A n \in 1..rates[k].count : \E q \in log[k] :
               q.era = Era(k) /\ q.started = rates[k].started /\ q.number = n

\* A key was refused just now because its window is full, and it is not over.
RefusedFull(k) ==
    answer = <<k, FALSE>> =>
        /\ rates[k] # None
        /\ rates[k].count >= Limit[k]
        /\ now - rates[k].started < Minute

\* What concerns the log alone.
Logged(k) ==
    /\ Ascending(k) /\ KeptForApiKeys(k)
    /\ InWindow(k) /\ InEra(k) /\ Numbered(k) /\ Apart(k)

PerKey(k) == Logged(k) /\ Newest(k) /\ RefusedFull(k)

IInv == TypeOK /\ \A k \in Keys : PerKey(k)

-----------------------------------------------------------------------------
\* Before any call, and once something else has happened, nothing was refused.
LEMMA NoneIsNoRefusal == \A k \in Keys : None # <<k, FALSE>>
  <1> SUFFICES ASSUME NEW k \in Keys PROVE None # <<k, FALSE>>
    OBVIOUS
  <1>1. <<k, FALSE>> \in Keys \X BOOLEAN
    OBVIOUS
  <1> QED
    BY <1>1, NoneAssumption

LEMMA PurgedType ==
  ASSUME TypeOK
  PROVE  /\ Purged \in [Keys -> Windows \union {None}]
         /\ \A k \in Keys : Purged[k] # None =>
               Purged[k] = rates[k] /\ rates[k] # None /\ now - rates[k].started < Minute
         /\ \A k \in Keys : Purged[k] = None /\ rates[k] # None =>
               now - rates[k].started >= Minute
  BY MinuteAssumption, NoneAssumption DEF TypeOK, Purged, Windows

\* Deleting the windows that are over loses nothing of what Newest says.
LEMMA PurgeKeepsNewest ==
  ASSUME TypeOK, NEW k \in Keys, PerKey(k), rates'[k] = Purged[k], now' = now,
         log'[k] = log[k], clears'[k] = clears[k]
  PROVE  Newest(k)'
  <1>1. CASE Purged[k] # None
    BY <1>1, PurgedType DEF PerKey, Newest, Era
  <1>2. CASE Purged[k] = None /\ rates[k] = None
    BY <1>2 DEF PerKey, Newest, Era
  <1>3. CASE Purged[k] = None /\ rates[k] # None
    <2>1. rates[k] \in Windows /\ now - rates[k].started >= Minute
      BY <1>3, PurgedType DEF TypeOK
    <2>2. \A q \in log[k] : q.era = Era(k) => q.started + Minute <= now
      <3> SUFFICES ASSUME NEW q \in log[k], q.era = Era(k) PROVE q.started + Minute <= now
        OBVIOUS
      <3>1. q \in Requests
        BY DEF TypeOK
      <3>2. q.started = rates[k].started \/ q.started + Minute <= rates[k].started
        BY <1>3 DEF PerKey, Newest
      <3> QED
        BY <2>1, <3>1, <3>2, MinuteAssumption DEF TypeOK, Requests, Windows
    <2> QED
      BY <1>3, <2>2 DEF Newest, Era
  <1> QED
    BY <1>1, <1>2, <1>3

\* The log of a key is as good as before when neither it nor the clock moves.
LEMMA LogKept ==
  ASSUME NEW k \in Keys, Logged(k), now' = now, log'[k] = log[k], clears'[k] = clears[k]
  PROVE  Logged(k)'
  <1> USE DEF Logged, Era
  <1>1. Ascending(k)' /\ KeptForApiKeys(k)'
    BY DEF Ascending, KeptForApiKeys
  <1>2. InWindow(k)' /\ InEra(k)'
    BY DEF InWindow, InEra
  <1>3. Numbered(k)' /\ Apart(k)'
    BY DEF Numbered, Apart
  <1> QED
    BY <1>1, <1>2, <1>3

\* A key other than the one a call is about only loses a window that is over.
LEMMA OthersStep ==
  ASSUME TypeOK, NEW k \in Keys, PerKey(k), rates'[k] = Purged[k], now' = now,
         log'[k] = log[k], clears'[k] = clears[k], answer' # <<k, FALSE>>
  PROVE  PerKey(k)'
  <1>1. Newest(k)'
    BY PurgeKeepsNewest
  <1>2. Logged(k)'
    BY LogKept DEF PerKey
  <1> QED
    BY <1>1, <1>2 DEF PerKey, RefusedFull

\* A key nothing is said about keeps what is known of it.
LEMMA StaysPut ==
  ASSUME NEW k \in Keys, PerKey(k), rates'[k] = rates[k], log'[k] = log[k],
         clears'[k] = clears[k], now' = now, answer' \in {answer, None}
  PROVE  PerKey(k)'
  <1>1. Logged(k)'
    BY LogKept DEF PerKey
  <1>2. Newest(k)'
    BY DEF PerKey, Newest, Era
  <1>3. RefusedFull(k)'
    BY NoneIsNoRefusal DEF PerKey, RefusedFull
  <1> QED
    BY <1>1, <1>2, <1>3 DEF PerKey

\* Whether it opens a window or counts in one, an admitted request fits the log.
LEMMA PassStep ==
  ASSUME IInv, NEW k \in Keys, Pass(k), now' = now, checking' \in [Addresses -> Nat]
  PROVE  IInv'
  <1> DEFINE w == Counted(k)
             e == Era(k)
             r == [era |-> e, started |-> w.started, number |-> w.count, at |-> now]
  <1>1. TypeOK /\ PerKey(k)
    BY DEF IInv
  <1>2. Purged[k] \in Windows \union {None} /\ now \in Nat /\ Limit[k] \in Nat \ {0}
    BY <1>1, PurgedType, LimitAssumption DEF TypeOK
  <1>3. w \in Windows /\ w # None
    BY <1>2, NoneAssumption DEF Counted, Windows
  <1>4. e \in Nat /\ \A i \in 1..e : clears[k][i] \in Nat
    <2>1. clears[k] \in Seq(Nat)
      BY <1>1 DEF TypeOK
    <2> QED
      BY <2>1, LenProperties, ElementOfSeq DEF Era
  <1>5. r \in Requests
    BY <1>2, <1>3, <1>4 DEF Windows, Requests
  <1>6. /\ rates'[k] = w /\ log'[k] = log[k] \union {r} /\ answer' = <<k, TRUE>>
        /\ clears' = clears
    BY <1>1, PurgedType DEF Pass, TypeOK
  <1>7. TypeOK'
    BY <1>1, <1>3, <1>5, PurgedType DEF TypeOK, Pass
  <1>8. \A j \in Keys : j # k => PerKey(j)'
    <2> SUFFICES ASSUME NEW j \in Keys, j # k PROVE PerKey(j)'
      OBVIOUS
    <2>1. /\ rates'[j] = Purged[j] /\ log'[j] = log[j] /\ answer' # <<j, FALSE>>
          /\ clears'[j] = clears[j]
      BY <1>1, PurgedType DEF Pass, TypeOK
    <2> QED
      BY <1>1, <2>1, OthersStep DEF IInv
  <1>9. r \in log'[k] /\ r.era = e /\ r.started = w.started /\ r.number = w.count /\ r.at = now
    BY <1>6
  <1>10. Era(k)' = e
    BY <1>6 DEF Era
  <1>11. \A q \in log[k] : q \in Requests
    BY <1>1 DEF TypeOK
  <1>12. /\ w.count \in 1..Limit[k] /\ w.started <= now /\ now < w.started + Minute
         /\ w.count = 1 => w.started = now
         /\ e > 0 => clears[k][e] <= w.started
         /\ \A q \in log[k] : q.era = e =>
               \/ q.started = w.started /\ q.number < w.count
               \/ q.started + Minute <= w.started
         /\ \A n \in 1..w.count : n # w.count =>
               \E q \in log[k] : q.era = e /\ q.started = w.started /\ q.number = n
    <2>1. CASE Purged[k] = None
      <3>1. w.started = now /\ w.count = 1
        BY <2>1 DEF Counted
      <3>2. \A q \in log[k] : q.era = e => q.started + Minute <= now
        <4>1. CASE rates[k] = None
          BY <1>1, <4>1 DEF PerKey, Newest
        <4>2. CASE rates[k] # None
          <5>1. rates[k] \in Windows /\ now - rates[k].started >= Minute
            BY <1>1, <2>1, <4>2, PurgedType DEF TypeOK
          <5>2. \A q \in log[k] : q.era = e =>
                   q.started = rates[k].started \/ q.started + Minute <= rates[k].started
            BY <1>1, <4>2 DEF PerKey, Newest
          <5> HIDE DEF e
          <5> QED
            BY <1>2, <1>11, <5>1, <5>2, MinuteAssumption DEF Windows, Requests
        <4> QED
          BY <4>1, <4>2
      <3>3. e > 0 => clears[k][e] <= now
        BY <1>1, <1>4 DEF PerKey, Logged, Ascending
      <3> QED
        BY <1>2, <3>1, <3>2, <3>3, MinuteAssumption
    <2>2. CASE Purged[k] # None
      <3>1. /\ rates[k] # None /\ rates[k] \in Windows
            /\ now - rates[k].started < Minute
            /\ rates[k].count < Limit[k]
            /\ w.started = rates[k].started /\ w.count = rates[k].count + 1
        BY <1>1, <1>2, <2>2, PurgedType DEF TypeOK, Pass, Full, Counted, Windows
      <3>2. /\ rates[k].started <= now
            /\ e > 0 => clears[k][e] <= rates[k].started
            /\ \A q \in log[k] : q.era = e =>
                  \/ q.started = rates[k].started /\ q.number <= rates[k].count
                  \/ q.started + Minute <= rates[k].started
            /\ \A n \in 1..rates[k].count : \E q \in log[k] :
                  q.era = e /\ q.started = rates[k].started /\ q.number = n
        BY <1>1, <3>1 DEF PerKey, Newest
      <3>3. \A q \in log[k] : q.number \in Nat /\ q.started \in Nat
        BY <1>11 DEF Requests
      <3> HIDE DEF w, e
      <3>4. rates[k].count \in Nat \ {0} /\ rates[k].started \in Nat
        BY <3>1 DEF Windows
      <3>5. \A n \in 1..w.count : n # w.count => n \in 1..rates[k].count
        BY <3>1, <3>4
      <3>6. \A n \in 1..w.count : n # w.count =>
               \E q \in log[k] : q.era = e /\ q.started = w.started /\ q.number = n
        BY <3>1, <3>2, <3>5
      <3>7. \A q \in log[k] : q.era = e =>
               \/ q.started = w.started /\ q.number < w.count
               \/ q.started + Minute <= w.started
        BY <3>1, <3>2, <3>3, <3>4
      <3> QED
        BY <1>2, <3>1, <3>2, <3>4, <3>6, <3>7, MinuteAssumption
    <2> QED
      BY <2>1, <2>2
  <1> HIDE DEF w, e
  <1>13. \A q \in log'[k] : q = r \/ q \in log[k]
    BY <1>6
  <1>14. \A q \in log[k] : q.era \in Nat /\ q.started \in Nat /\ q.number \in Nat /\ q.at \in Nat
    BY <1>11 DEF Requests
  <1>15. w.started \in Nat /\ w.count \in Nat
    BY <1>3 DEF Windows
  <1> HIDE DEF r
  <1>16. Logged(k)'
    <2>1. Ascending(k)' /\ KeptForApiKeys(k)'
      <3>1. Ascending(k) /\ KeptForApiKeys(k)
        BY <1>1 DEF PerKey, Logged
      <3>2. clears' = clears /\ now' = now
        BY <1>6
      <3>3. Ascending(k)'
        BY <3>1, <3>2 DEF Ascending, Era
      <3>4. KeptForApiKeys(k)'
        BY <3>1, <3>2 DEF KeptForApiKeys
      <3> QED
        BY <3>3, <3>4
    <2>2. InWindow(k)'
      <3>1. InWindow(k)
        BY <1>1 DEF PerKey, Logged
      <3>2. /\ r.number \in 1..Limit[k]
            /\ r.started <= r.at /\ r.at < r.started + Minute /\ r.at <= now
            /\ r.number = 1 => r.at = r.started
        BY <1>2, <1>9, <1>12
      <3> QED
        BY <1>13, <3>1, <3>2 DEF InWindow
    <2>3. InEra(k)'
      BY <1>1, <1>4, <1>6, <1>9, <1>10, <1>12, <1>13, <1>14 DEF PerKey, Logged, InEra, e
    <2>4. Numbered(k)'
      <3>1. \A q \in log[k] : ~(q.era = e /\ q.started = w.started /\ q.number = w.count)
        BY <1>12, <1>14, <1>15, MinuteAssumption
      <3> QED
        BY <1>1, <1>9, <1>13, <3>1 DEF PerKey, Logged, Numbered
    <2>5. Apart(k)'
      BY <1>1, <1>9, <1>12, <1>13 DEF PerKey, Logged, Apart
    <2> QED
      BY <2>1, <2>2, <2>3, <2>4, <2>5 DEF Logged
  <1>17. Newest(k)'
    <2>1. \A n \in 1..w.count : \E q \in log'[k] :
             q.era = e /\ q.started = w.started /\ q.number = n
      BY <1>6, <1>9, <1>12
    <2>2. \A q \in log'[k] : q.era = e =>
             \/ q.started = w.started /\ q.number <= w.count
             \/ q.started + Minute <= w.started
      BY <1>9, <1>12, <1>13, <1>14, <1>15
    <2>3. w.count <= Limit[k] /\ w.started <= now
      BY <1>12
    <2> QED
      BY <1>3, <1>6, <1>10, <1>12, <2>1, <2>2, <2>3 DEF Newest
  <1> QED
    BY <1>6, <1>7, <1>8, <1>16, <1>17 DEF IInv, PerKey, RefusedFull

LEMMA RefuseStep ==
  ASSUME IInv, NEW k \in Keys, Refuse(k), now' = now, checking' \in [Addresses -> Nat]
  PROVE  IInv'
  <1>1. TypeOK /\ PerKey(k)
    BY DEF IInv
  <1>2. TypeOK'
    BY <1>1, PurgedType DEF TypeOK, Refuse
  <1>3. \A j \in Keys : j # k => PerKey(j)'
    BY <1>1, OthersStep DEF IInv, Refuse
  <1>4. PerKey(k)'
    <2>1. Newest(k)'
      BY <1>1, PurgeKeepsNewest DEF Refuse
    <2>2. RefusedFull(k)'
      BY <1>1, PurgedType DEF Refuse, Full, RefusedFull
    <2>3. Logged(k)'
      BY <1>1, LogKept DEF Refuse, PerKey
    <2> QED
      BY <2>1, <2>2, <2>3 DEF PerKey
  <1> QED
    BY <1>2, <1>3, <1>4 DEF IInv

\* Deleting a key's window ends its era: what was admitted before lies in it.
LEMMA ClearStep ==
  ASSUME TypeOK, NEW k \in Addresses, PerKey(k), ClearRate(k), now' = now, answer' = None
  PROVE  PerKey(k)'
  <1> DEFINE e == Era(k)
             c == clears[k]
             d == Append(c, now)
  <1>1. k \in Keys /\ now \in Nat /\ c \in Seq(Nat) /\ \A q \in log[k] : q \in Requests
    BY KeysCovered DEF TypeOK
  <1>2. e \in Nat /\ e = Len(c)
    BY <1>1, LenProperties DEF Era
  <1>3. rates'[k] = None /\ log'[k] = log[k] /\ clears'[k] = d
    BY <1>1 DEF ClearRate, TypeOK
  <1>4. Len(d) = e + 1 /\ d[e + 1] = now /\ \A i \in 1..e : d[i] = c[i]
    BY <1>1, <1>2, AppendProperties
  <1>5. Era(k)' = e + 1
    BY <1>3, <1>4 DEF Era
  <1>6. \A q \in log[k] : q.era \in Nat /\ q.at \in Nat /\ q.era <= e /\ q.at <= now
    BY <1>1 DEF PerKey, Logged, InEra, InWindow, Requests
  <1>7. \A i \in 1..e : c[i] \in Nat /\ c[i] <= now
    BY <1>1, <1>2, ElementOfSeq DEF PerKey, Logged, Ascending
  <1>8. \A i, j \in 1..e : i <= j => c[i] <= c[j]
    BY DEF PerKey, Logged, Ascending
  <1>9. \A q \in log[k] : /\ q.era > 0 => c[q.era] <= q.started
                          /\ q.era < e => q.at <= c[q.era + 1]
    BY DEF PerKey, Logged, InEra
  <1> HIDE DEF c, d, e
  <1>10. Ascending(k)'
    <2>1. \A i \in 1..(e + 1) : i = e + 1 \/ i \in 1..e
      BY <1>2
    <2>2. \A i \in 1..(e + 1) : d[i] <= now
      BY <1>1, <1>4, <1>7, <2>1
    <2>3. \A i, j \in 1..(e + 1) : i <= j => d[i] <= d[j]
      BY <1>1, <1>2, <1>4, <1>7, <1>8, <2>1
    <2> QED
      BY <1>3, <1>5, <2>2, <2>3 DEF Ascending
  <1>11. InEra(k)'
    <2> SUFFICES ASSUME NEW q \in log[k]
                 PROVE  /\ q.era <= e + 1
                        /\ q.era > 0 => d[q.era] <= q.started
                        /\ q.era < e + 1 => q.at <= d[q.era + 1]
      BY <1>3, <1>5 DEF InEra
    <2>1. q.era \in 0..e
      BY <1>2, <1>6
    <2>2. q.era > 0 => q.era \in 1..e
      BY <1>2, <2>1
    <2>3. q.era < e => q.era + 1 \in 1..e
      BY <1>2, <2>1
    <2>4. q.era = e \/ q.era < e
      BY <1>2, <2>1
    <2> QED
      BY <1>2, <1>4, <1>6, <1>9, <2>1, <2>2, <2>3, <2>4
  <1>12. KeptForApiKeys(k)'
    BY KeysAssumption DEF KeptForApiKeys
  <1>13. InWindow(k)' /\ Numbered(k)' /\ Apart(k)'
    BY <1>3 DEF PerKey, Logged, InWindow, Numbered, Apart
  <1>14. Newest(k)'
    <2>1. \A q \in log[k] : q.era # e + 1
      BY <1>2, <1>6
    <2> QED
      BY <1>3, <1>5, <2>1 DEF Newest
  <1>15. RefusedFull(k)'
    BY <1>1, NoneIsNoRefusal DEF RefusedFull
  <1> QED
    BY <1>10, <1>11, <1>12, <1>13, <1>14, <1>15 DEF PerKey, Logged

LEMMA Invariance == Spec => []IInv
  <1>1. Init => IInv
    <2> SUFFICES ASSUME Init PROVE IInv
      OBVIOUS
    <2>1. TypeOK
      BY EmptySeq DEF Init, TypeOK
    <2>2. ASSUME NEW k \in Keys PROVE PerKey(k)
      <3>1. clears[k] = <<>> /\ Era(k) = 0 /\ log[k] = {} /\ rates[k] = None /\ answer = None
        BY <2>2, EmptySeq DEF Init, Era
      <3>2. Ascending(k) /\ KeptForApiKeys(k)
        BY <3>1 DEF Ascending, KeptForApiKeys
      <3>3. InWindow(k) /\ InEra(k) /\ Numbered(k) /\ Apart(k)
        BY <3>1 DEF InWindow, InEra, Numbered, Apart
      <3>4. Newest(k) /\ RefusedFull(k)
        BY <2>2, <3>1, NoneIsNoRefusal DEF Newest, RefusedFull
      <3> QED
        BY <3>2, <3>3, <3>4 DEF PerKey, Logged
    <2> QED
      BY <2>1, <2>2 DEF IInv
  <1>2. IInv /\ [Next]_vars => IInv'
    <2> SUFFICES ASSUME IInv, [Next]_vars PROVE IInv'
      OBVIOUS
    <2>0. TypeOK
      BY DEF IInv
    <2>1. ASSUME NEW k \in ApiKeys, Ingest(k) PROVE IInv'
      <3>1. k \in Keys /\ now' = now /\ checking' \in [Addresses -> Nat]
        BY <2>0, <2>1, KeysCovered DEF Ingest, TypeOK
      <3> QED
        BY <2>1, <3>1, PassStep, RefuseStep DEF Ingest
    <2>2. ASSUME NEW k \in Addresses, Login(k) PROVE IInv'
      <3>1. k \in Keys /\ now' = now
        BY <2>2, KeysCovered DEF Login
      <3>2. checking \in [Addresses -> Nat]
        BY <2>0 DEF TypeOK
      <3>3. checking' \in [Addresses -> Nat]
        BY <2>2, <3>2 DEF Login
      <3> QED
        BY <2>2, <3>1, <3>3, PassStep, RefuseStep DEF Login
    <2>3. ASSUME NEW k \in Addresses, RejectLogin(k) PROVE IInv'
      <3>1. TypeOK'
        BY <2>0, <2>3, KeysCovered DEF RejectLogin, TypeOK
      <3>2. \A j \in Keys : PerKey(j)'
        BY <2>3, StaysPut DEF IInv, RejectLogin
      <3> QED
        BY <3>1, <3>2 DEF IInv
    <2>4. ASSUME NEW k \in Addresses, AcceptLogin(k) PROVE IInv'
      <3>1. TypeOK' /\ k \in Keys
        BY <2>0, <2>4, KeysCovered, AppendProperties DEF AcceptLogin, ClearRate, TypeOK
      <3>2. PerKey(k)'
        BY <2>0, <2>4, <3>1, ClearStep DEF IInv, AcceptLogin
      <3>3. ASSUME NEW j \in Keys, j # k PROVE PerKey(j)'
        <4>1. rates'[j] = rates[j] /\ log'[j] = log[j] /\ clears'[j] = clears[j]
          BY <2>0, <2>4, <3>3 DEF AcceptLogin, ClearRate, TypeOK
        <4> QED
          BY <2>4, <3>3, <4>1, StaysPut DEF IInv, AcceptLogin
      <3> QED
        BY <3>1, <3>2, <3>3 DEF IInv
    <2>5. ASSUME Tick PROVE IInv'
      <3>1. TypeOK'
        BY <2>0, <2>5 DEF Tick, TypeOK
      <3>2. ASSUME NEW j \in Keys PROVE PerKey(j)'
        <4>1. PerKey(j) /\ now \in Nat /\ \A q \in log[j] : q \in Requests
          BY <2>0 DEF IInv, TypeOK
        <4>2. Logged(j)'
          <5>1. /\ Era(j)' = Era(j) /\ log'[j] = log[j] /\ clears'[j] = clears[j]
                /\ now' = now + 1
            BY <2>5 DEF Tick, Era
          <5>2. \A i \in 1..Era(j) : clears[j][i] \in Nat
            BY <2>0, ElementOfSeq DEF TypeOK, Era
          <5>3. Ascending(j)' /\ KeptForApiKeys(j)'
            BY <4>1, <5>1, <5>2 DEF PerKey, Logged, Ascending, KeptForApiKeys
          <5>4. InWindow(j)' /\ InEra(j)'
            BY <4>1, <5>1 DEF PerKey, Logged, InWindow, InEra, Requests
          <5>5. Numbered(j)' /\ Apart(j)'
            BY <4>1, <5>1 DEF PerKey, Logged, Numbered, Apart
          <5> QED
            BY <5>3, <5>4, <5>5 DEF Logged
        <4>3. Newest(j)'
          <5>1. rates[j] # None => rates[j] \in Windows
            BY <2>0 DEF TypeOK
          <5>2. CASE rates[j] = None
            BY <2>5, <4>1, <5>2, MinuteAssumption DEF Tick, PerKey, Newest, Requests, Era
          <5>3. CASE rates[j] # None
            BY <2>5, <4>1, <5>1, <5>3 DEF Tick, PerKey, Newest, Windows, Era
          <5> QED
            BY <5>2, <5>3
        <4> QED
          BY <2>5, <4>1, <4>2, <4>3, NoneIsNoRefusal DEF Tick, PerKey, RefusedFull
      <3> QED
        BY <3>1, <3>2 DEF IInv
    <2>6. CASE UNCHANGED vars
      <3>1. TypeOK'
        BY <2>0, <2>6 DEF vars, TypeOK
      <3>2. \A j \in Keys : PerKey(j)'
        BY <2>6, StaysPut DEF vars, IInv
      <3> QED
        BY <3>1, <3>2 DEF IInv
    <2> QED
      BY <2>1, <2>2, <2>3, <2>4, <2>5, <2>6 DEF Next
  <1> QED
    BY <1>1, <1>2, PTL DEF Spec

-----------------------------------------------------------------------------
\* The requests of the last minute that belong to an era which began before it.
LateRecent(k) == {q \in Recent(k) : q.era \notin RecentClears(k)}

\* They are all of one era, at most two of its windows reach into the minute, and
\* of the older one the first request does not.
LEMMA LateRecentBounded ==
  ASSUME IInv, NEW k \in Keys
  PROVE  IsFiniteSet(LateRecent(k)) /\ Cardinality(LateRecent(k)) <= 2 * Limit[k] - 1
  <1> DEFINE S == LateRecent(k)
             c == clears[k]
             e == Era(k)
  <1>1. TypeOK /\ Logged(k) /\ now \in Nat /\ Limit[k] \in Nat \ {0}
    BY LimitAssumption DEF IInv, TypeOK, PerKey
  <1>2. \A q \in S : /\ q \in log[k] /\ q \in Requests
                     /\ q.at > now - Minute
                     /\ q.number \in 1..Limit[k]
                     /\ q.started <= q.at /\ q.at < q.started + Minute
                     /\ q.at <= now
                     /\ q.number = 1 => q.at = q.started
    BY <1>1 DEF LateRecent, Recent, TypeOK, Logged, InWindow
  <1>3. \A p, q \in S : p.era = q.era
    <2>1. e \in Nat /\ \A i \in 1..e : c[i] \in Nat
      BY <1>1, LenProperties, ElementOfSeq DEF TypeOK, Era
    <2>2. ASSUME NEW p \in S, NEW q \in S, p.era < q.era PROVE FALSE
      <3>1. p.era \in Nat /\ q.era \in Nat /\ q.era <= e
        BY <1>1, <1>2 DEF Logged, InEra, Requests
      <3>2. p.era + 1 \in 1..e /\ q.era \in 1..e /\ p.era + 1 <= q.era
        BY <2>1, <2>2, <3>1
      <3>3. p.at <= c[p.era + 1]
        BY <1>1, <1>2, <2>1, <2>2, <3>1 DEF Logged, InEra
      <3>4. c[p.era + 1] <= c[q.era]
        BY <1>1, <3>2 DEF Logged, Ascending
      <3>5. c[q.era] > now - Minute
        BY <1>1, <1>2, <2>1, <3>2, <3>3, <3>4, MinuteAssumption DEF Requests
      <3>6. q.era \in RecentClears(k)
        BY <3>2, <3>5 DEF RecentClears
      <3> QED
        BY <3>6 DEF LateRecent
    <2>3. \A q \in S : q.era \in Nat
      BY <1>2 DEF Requests
    <2> HIDE DEF S
    <2>4. ASSUME NEW p \in S, NEW q \in S PROVE p.era = q.era
      <3>1. p.era = q.era \/ p.era < q.era \/ q.era < p.era
        BY <2>3
      <3> QED
        BY <2>2, <3>1
    <2> QED
      BY <2>4
  <1>4. \A p, q \in S : \/ p.started = q.started
                        \/ p.started + Minute <= q.started
                        \/ q.started + Minute <= p.started
    BY <1>1, <1>2, <1>3 DEF Logged, Apart
  <1>5. \A p, q \in S : p.started = q.started /\ p.number = q.number => p = q
    BY <1>1, <1>2, <1>3 DEF Logged, Numbered
  <1> HIDE DEF S
  <1>6. PICK s : \A q \in S :
                    q.started # s =>
                       /\ \A p \in S : p.started \in {s, q.started}
                       /\ q.number # 1
    <2>1. CASE \A p, q \in S : p.started = q.started
      BY <2>1
    <2>2. CASE \E p, q \in S : p.started # q.started
      <3>1. PICK p, q \in S : p.started + Minute <= q.started
        BY <1>4, <2>2
      <3>2. \A o \in S : o.started \in {p.started, q.started}
        <4> SUFFICES ASSUME NEW o \in S, o.started # p.started, o.started # q.started
                     PROVE  FALSE
          OBVIOUS
        <4>1. o.started + Minute <= p.started \/ p.started + Minute <= o.started
          BY <1>4
        <4>2. o.started + Minute <= q.started \/ q.started + Minute <= o.started
          BY <1>4
        <4> QED
          BY <1>1, <1>2, <3>1, <4>1, <4>2, MinuteAssumption DEF Requests
      <3>3. \A o \in S : o.started # q.started => o.number # 1
        BY <1>1, <1>2, <3>1, <3>2, MinuteAssumption DEF Requests
      <3> QED
        BY <3>2, <3>3
    <2> QED
      BY <2>1, <2>2
  <1> DEFINE rank(q) == IF q.started = s THEN q.number ELSE Limit[k] + q.number - 1
             f == [q \in S |-> rank(q)]
             T == 1..(2 * Limit[k] - 1)
  <1>7. \A q \in S : rank(q) \in T
    BY <1>1, <1>2, <1>6
  <1>8. \A p, q \in S : rank(p) = rank(q) => p = q
    <2> SUFFICES ASSUME NEW p \in S, NEW q \in S, rank(p) = rank(q)
                 PROVE  p = q
      OBVIOUS
    <2>1. p.started = q.started
      BY <1>1, <1>2, <1>6
    <2>2. p.number = q.number
      BY <1>1, <1>2, <2>1
    <2> QED
      BY <1>5, <2>1, <2>2
  <1>9. f \in Injection(S, T)
    BY <1>7, <1>8 DEF Injection, IsInjective
  <1>10. IsFiniteSet(T) /\ Cardinality(T) = 2 * Limit[k] - 1
    <2>1. 1 \in Int /\ 2 * Limit[k] - 1 \in Int /\ 1 <= 2 * Limit[k] - 1
      BY <1>1
    <2> QED
      BY <2>1, FS_Interval, SMTT(30)
  <1> HIDE DEF f, T
  <1>11. IsFiniteSet(S) /\ Cardinality(S) <= 2 * Limit[k] - 1
    BY <1>9, <1>10, FS_Injection
  <1> QED
    BY <1>11 DEF S

\* Of an era that began within the last minute all requests are of one window.
LEMMA EarlyRecentBounded ==
  ASSUME IInv, NEW k \in Keys
  PROVE  /\ IsFiniteSet(RecentClears(k))
         /\ IsFiniteSet(Recent(k) \ LateRecent(k))
         /\ Cardinality(Recent(k) \ LateRecent(k)) <= Cardinality(RecentClears(k)) * Limit[k]
  <1> DEFINE S == Recent(k) \ LateRecent(k)
             C == RecentClears(k)
             L == 1..Limit[k]
             f == [q \in S |-> <<q.era, q.number>>]
  <1>1. TypeOK /\ Logged(k) /\ now \in Nat /\ Limit[k] \in Nat \ {0}
    BY LimitAssumption DEF IInv, TypeOK, PerKey
  <1>2. Era(k) \in Nat /\ \A i \in 1..Era(k) : clears[k][i] \in Nat
    BY <1>1, LenProperties, ElementOfSeq DEF TypeOK, Era
  <1>3. \A q \in S : /\ q \in log[k] /\ q \in Requests /\ q.era \in C
                     /\ q.number \in L /\ q.started <= now
    BY <1>1 DEF LateRecent, Recent, TypeOK, Logged, InWindow, Requests
  <1>4. \A q \in S : q.started > now - Minute
    <2> SUFFICES ASSUME NEW q \in S PROVE q.started > now - Minute
      OBVIOUS
    <2>1. q.era \in 1..Era(k) /\ clears[k][q.era] > now - Minute
      BY <1>3 DEF RecentClears
    <2>2. clears[k][q.era] <= q.started
      BY <1>1, <1>3, <2>1 DEF Logged, InEra
    <2> QED
      BY <1>1, <1>2, <1>3, <2>1, <2>2, MinuteAssumption DEF Requests
  <1>5. \A p, q \in S : p.era = q.era /\ p.number = q.number => p = q
    <2> SUFFICES ASSUME NEW p \in S, NEW q \in S, p.era = q.era, p.number = q.number
                 PROVE  p = q
      OBVIOUS
    <2>1. \/ p.started = q.started
          \/ p.started + Minute <= q.started
          \/ q.started + Minute <= p.started
      BY <1>1, <1>3 DEF Logged, Apart
    <2>2. p.started = q.started
      BY <1>1, <1>3, <1>4, <2>1, MinuteAssumption DEF Requests
    <2> QED
      BY <1>1, <1>3, <2>2 DEF Logged, Numbered
  <1>6. f \in Injection(S, C \X L)
    BY <1>3, <1>5 DEF Injection, IsInjective
  <1>7. IsFiniteSet(C)
    <2>1. IsFiniteSet(1..Era(k))
      BY <1>2, FS_Interval
    <2>2. C \in SUBSET (1..Era(k))
      BY DEF RecentClears
    <2> QED
      BY <2>1, <2>2, FS_Subset
  <1>8. IsFiniteSet(L) /\ Cardinality(L) = Limit[k]
    BY <1>1, FS_Interval, SMTT(30)
  <1> HIDE DEF f, S, C, L
  <1>9. IsFiniteSet(C \X L) /\ Cardinality(C \X L) = Cardinality(C) * Limit[k]
    BY <1>7, <1>8, FS_Product
  <1>10. IsFiniteSet(S) /\ Cardinality(S) <= Cardinality(C \X L)
    BY <1>6, <1>9, FS_Injection
  <1> QED
    BY <1>7, <1>9, <1>10 DEF S, C

\* Both together: one limit per deletion within the last minute, and at most one
\* less than two for the era that was going on when it began.
LEMMA RecentBounded ==
  ASSUME IInv, NEW k \in Keys
  PROVE  /\ IsFiniteSet(Recent(k))
         /\ Cardinality(Recent(k)) <= (2 + Cardinality(RecentClears(k))) * Limit[k] - 1
  <1> DEFINE A == LateRecent(k)
             B == Recent(k) \ LateRecent(k)
             c == Cardinality(RecentClears(k))
  <1>1. Recent(k) = A \union B /\ A \intersect B = {}
    BY DEF LateRecent
  <1>2. IsFiniteSet(A) /\ Cardinality(A) <= 2 * Limit[k] - 1
    BY LateRecentBounded
  <1>3. IsFiniteSet(B) /\ Cardinality(B) <= c * Limit[k] /\ IsFiniteSet(RecentClears(k))
    BY EarlyRecentBounded
  <1>4. c \in Nat /\ Limit[k] \in Nat
    BY <1>3, FS_CardinalityType, LimitAssumption
  <1> HIDE DEF A, B, c
  <1>5. Cardinality(A) \in Nat /\ Cardinality(B) \in Nat
    BY <1>2, <1>3, FS_CardinalityType
  <1>6. /\ IsFiniteSet(Recent(k))
        /\ Cardinality(Recent(k)) = Cardinality(A) + Cardinality(B) - Cardinality({})
    BY <1>1, <1>2, <1>3, FS_Union
  <1>7. Cardinality(Recent(k)) <= 2 * Limit[k] - 1 + c * Limit[k]
    BY <1>2, <1>3, <1>4, <1>5, <1>6, FS_EmptySet
  <1>8. (2 + c) * Limit[k] = 2 * Limit[k] + c * Limit[k]
    BY <1>4
  <1>9. Cardinality(Recent(k)) <= (2 + c) * Limit[k] - 1
    <2>1. Cardinality(Recent(k)) \in Nat /\ c * Limit[k] \in Nat
      BY <1>4, <1>6, FS_CardinalityType
    <2> QED
      BY <1>4, <1>7, <1>8, <2>1
  <1> QED
    BY <1>6, <1>9 DEF c

\* A window that is full and not over has its limit of requests in the last
\* minute.
LEMMA FullWindowRecent ==
  ASSUME IInv, NEW k \in Keys, answer = <<k, FALSE>>
  PROVE  Cardinality(RecentCounted(k)) >= Limit[k]
  <1>1. TypeOK /\ PerKey(k) /\ now \in Nat /\ Limit[k] \in Nat \ {0}
    BY LimitAssumption DEF IInv, TypeOK
  <1>2. /\ rates[k] \in Windows /\ rates[k] # None
        /\ rates[k].count = Limit[k]
        /\ now - rates[k].started < Minute
    BY <1>1 DEF PerKey, RefusedFull, Newest, TypeOK, Windows
  <1> DEFINE S == 1..Limit[k]
             g == [n \in S |-> CHOOSE q \in log[k] :
                                  q.era = Era(k) /\ q.started = rates[k].started /\ q.number = n]
  <1>3. \A n \in S : g[n] \in log[k] /\ g[n].era = Era(k) /\ g[n].started = rates[k].started /\ g[n].number = n
    BY <1>1, <1>2 DEF PerKey, Newest
  <1>4. \A n \in S : g[n] \in RecentCounted(k)
    <2>1. \A q \in log[k] : q.started = rates[k].started => q.at > now - Minute
      <3> SUFFICES ASSUME NEW q \in log[k], q.started = rates[k].started
                   PROVE  q.at > now - Minute
        OBVIOUS
      <3>1. q \in Requests /\ q.started <= q.at
        BY <1>1 DEF TypeOK, PerKey, Logged, InWindow
      <3> QED
        BY <1>1, <1>2, <3>1, MinuteAssumption DEF Requests, Windows
    <2> QED
      BY <1>3, <2>1 DEF Recent, RecentCounted
  <1>5. g \in Injection(S, RecentCounted(k))
    <2>1. g \in [S -> RecentCounted(k)]
      BY <1>4
    <2>2. \A m, n \in S : g[m] = g[n] => m = n
      BY <1>3
    <2> HIDE DEF g
    <2> QED
      BY <2>1, <2>2 DEF Injection, IsInjective
  <1>6. IsFiniteSet(S) /\ Cardinality(S) = Limit[k]
    BY <1>1, FS_Interval, SMTT(30)
  <1>7. IsFiniteSet(RecentCounted(k))
    <2>1. RecentCounted(k) \in SUBSET Recent(k)
      BY DEF RecentCounted
    <2> QED
      BY <2>1, RecentBounded, FS_Subset
  <1> HIDE DEF g, S
  <1>8. Cardinality(S) <= Cardinality(RecentCounted(k))
    BY <1>5, <1>7, FS_Injection
  <1>9. Cardinality(RecentCounted(k)) \in Nat
    BY <1>7, FS_CardinalityType
  <1> QED
    BY <1>1, <1>6, <1>8, <1>9

\* The limiter's state is always well formed.
THEOREM LimiterTypeCorrect == Spec => []TypeOK
  BY Invariance, PTL DEF IInv

\* No minute sees twice the limit of an API key, whatever the limit and the window.
THEOREM LimitHolds == Spec => []BelowTwiceLimit
  <1>1. ASSUME IInv, NEW k \in ApiKeys PROVE Cardinality(Recent(k)) <= 2 * Limit[k] - 1
    <2>1. k \in Keys /\ Limit[k] \in Nat
      BY KeysCovered, LimitAssumption
    <2>2. clears[k] = <<>>
      BY <1>1, <2>1 DEF IInv, PerKey, Logged, KeptForApiKeys
    <2>3. RecentClears(k) = {}
      BY <2>2, EmptySeq DEF RecentClears, Era
    <2>4. Cardinality(RecentClears(k)) = 0
      BY <2>3, FS_EmptySet
    <2> QED
      BY <1>1, <2>1, <2>4, RecentBounded
  <1>2. IInv => BelowTwiceLimit
    BY <1>1 DEF BelowTwiceLimit
  <1> QED
    BY <1>2, Invariance, PTL

\* Each successful sign-in lets at most one more limit of an address through.
THEOREM SuccessBounded == Spec => []SuccessBuysOneLimit
  <1>1. IInv => SuccessBuysOneLimit
    BY KeysCovered, RecentBounded DEF SuccessBuysOneLimit
  <1> QED
    BY <1>1, Invariance, PTL

\* A key that stays within its limit is never refused.
THEOREM RefusalsJustified == Spec => []RefusedOnlyAtLimit
  <1>1. IInv => RefusedOnlyAtLimit
    BY FullWindowRecent DEF RefusedOnlyAtLimit
  <1> QED
    BY <1>1, Invariance, PTL

=============================================================================
