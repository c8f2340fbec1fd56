-------------------------- MODULE BootstrapProofs --------------------------
(***************************************************************************)
(* Proofs about Bootstrap, for any number of processes, migration files    *)
(* and demo users.                                                         *)
(***************************************************************************)
EXTENDS Bootstrap, FiniteSetTheorems, TLAPS

USE FilesAssumption, NoneAssumption DEF Migrating, Seeding, Down, Steps

-----------------------------------------------------------------------------
(* Typing.                                                                 *)

\* The steps of the seed that are past the choice of an organization, and all
\* that are past the count.
Chosen == {"equipping", "subscribing", "curating", "peopling", "keying"}
Active == {"founding"} \union Chosen

\* A process past the choice has an organization, and one that applies a file has
\* a file to apply.
Locals ==
    \A p \in Processes :
        /\ pc[p] \in Chosen \union {"serving"} => org[p] \in orgs
        /\ pc[p] \in {"applying", "committing"} => file[p] \in 1..Files

Typing == TypeOK /\ Locals

LEMMA TypingInit == Init => Typing
  <1>. SUFFICES ASSUME Init PROVE Typing
    OBVIOUS
  <1>1. file \in [Processes -> 1..(Files + 1)] /\ effects \in [1..Files -> Nat]
    BY DEF Init
  <1>2. keys \in [BOOLEAN -> orgs \union {None}] /\ production \in BOOLEAN /\ overlapped \in BOOLEAN
    BY DEF Init
  <1>. QED
    BY <1>1, <1>2 DEF Init, Typing, TypeOK, Locals, Chosen

LEMMA TypingStep == Typing /\ [Next]_vars => Typing'
  <1>. SUFFICES ASSUME Typing, [Next]_vars PROVE Typing'
    OBVIOUS
  <1>. USE DEF Typing, TypeOK, Locals, Chosen, Goto, tables, seeded, locals, histories
  <1>1. ASSUME NEW p \in Processes, Start(p) PROVE Typing'
    BY <1>1 DEF Start
  <1>2. ASSUME NEW p \in Processes, CheckVersion(p) PROVE Typing'
    <2>1. file' \in [Processes -> 1..(Files + 1)]
      BY <1>2 DEF CheckVersion
    <2>2. pc' \in [Processes -> Steps]
      BY <1>2 DEF CheckVersion
    <2>3. UNCHANGED <<tables, production, org, todo, histories>>
      BY <1>2 DEF CheckVersion
    <2>4. Locals'
      <3>1. file'[p] # file[p] => pc'[p] = "checking"
        BY <1>2 DEF CheckVersion
      <3>2. pc'[p] = "applying" => file'[p] \in 1..Files
        BY <1>2 DEF CheckVersion
      <3>3. pc'[p] \in {"checking", "counting", "applying"}
        BY <1>2 DEF CheckVersion
      <3>4. \A q \in Processes \ {p} : pc'[q] = pc[q] /\ file'[q] = file[q]
        BY <1>2 DEF CheckVersion
      <3>. QED
        BY <2>3, <3>2, <3>3, <3>4
    <2>. QED
      BY <2>1, <2>2, <2>3, <2>4
  <1>3. ASSUME NEW p \in Processes, ApplyFile(p) PROVE Typing'
    <2>1. file' \in [Processes -> 1..(Files + 1)]
      <3>1. 1 \in 1..(Files + 1)
        OBVIOUS
      <3>2. file' = [file EXCEPT ![p] = 1] \/ file' = file
        BY <1>3 DEF ApplyFile, Exit
      <3>. QED
        BY <3>1, <3>2
    <2>2. /\ pc' \in [Processes -> Steps] /\ org' \in [Processes -> orgs \union {None}]
          /\ todo' \in [Processes -> SUBSET Roles]
      BY <1>3 DEF ApplyFile, Exit
    <2>3. Locals'
      <3>1. CASE Exit(p, "failed")
        BY <1>3, <3>1 DEF ApplyFile, Exit
      <3>2. CASE Goto(p, "committing") /\ UNCHANGED <<file, org, todo>>
        BY <1>3, <3>2 DEF ApplyFile
      <3>. QED
        BY <1>3, <3>1, <3>2 DEF ApplyFile
    <2>4. UNCHANGED <<tables, production, histories>>
      BY <1>3 DEF ApplyFile
    <2>. QED
      BY <2>1, <2>2, <2>3, <2>4
  <1>4. ASSUME NEW p \in Processes, CommitFile(p) PROVE Typing'
    <2>1. file' \in [Processes -> 1..(Files + 1)] /\ applied' \in SUBSET (1..Files)
      <3>1. file[p] \in 1..Files
        BY <1>4 DEF CommitFile
      <3>2. file[p] + 1 \in 1..(Files + 1)
        BY <3>1
      <3>. QED
        BY <1>4, <3>1, <3>2 DEF CommitFile
    <2>2. effects' \in [1..Files -> Nat]
      BY <1>4 DEF CommitFile
    <2>3. pc' \in [Processes -> Steps]
      BY <1>4 DEF CommitFile
    <2>4. Locals'
      BY <1>4 DEF CommitFile
    <2>5. UNCHANGED <<seeded, production, org, todo, overlapped>>
      BY <1>4 DEF CommitFile
    <2>. QED
      BY <2>1, <2>2, <2>3, <2>4, <2>5
  <1>5. ASSUME NEW p \in Processes, CountOrganizations(p) PROVE Typing'
    <2>1. overlapped' \in BOOLEAN
      BY <1>5 DEF CountOrganizations, Meets
    <2>2. pc' \in [Processes -> Steps]
      BY <1>5 DEF CountOrganizations
    <2>5. org' \in [Processes -> orgs \union {None}]
      <3>1. CASE UNCHANGED org
        BY <3>1
      <3>2. ASSUME NEW o \in orgs, org' = [org EXCEPT ![p] = o]
            PROVE  org' \in [Processes -> orgs \union {None}]
        BY <3>2
      <3>. QED
        BY <1>5, <3>1, <3>2 DEF CountOrganizations
    <2>3. UNCHANGED <<tables, production, file, todo, effects>>
      BY <1>5 DEF CountOrganizations
    <2>4. Locals'
      BY <1>5 DEF CountOrganizations
    <2>. QED
      BY <2>1, <2>2, <2>3, <2>4, <2>5
  <1>6. ASSUME NEW p \in Processes, InsertOrganization(p) PROVE Typing'
    BY <1>6 DEF InsertOrganization
  <1>7. ASSUME NEW p \in Processes, InsertCamera(p) PROVE Typing'
    BY <1>7 DEF InsertCamera
  <1>8. ASSUME NEW p \in Processes, InsertSubscription(p) PROVE Typing'
    BY <1>8 DEF InsertSubscription
  <1>9. ASSUME NEW p \in Processes, DeleteSubscription(p) PROVE Typing'
    <2>1. demo' \in SUBSET orgs /\ delivered \in SUBSET demo'
      BY <1>9 DEF DeleteSubscription
    <2>2. file' \in [Processes -> 1..(Files + 1)]
      BY <1>9 DEF DeleteSubscription, Exit
    <2>3. pc' \in [Processes -> Steps] /\ todo' \in [Processes -> SUBSET Roles]
      <3>1. CASE Exit(p, "failed")
        BY <3>1 DEF Exit
      <3>2. CASE Goto(p, "peopling") /\ todo' = [todo EXCEPT ![p] = Roles]
        BY <3>2
      <3>. QED
        BY <1>9, <3>1, <3>2 DEF DeleteSubscription
    <2>6. org' \in [Processes -> orgs \union {None}]
      <3>1. CASE Exit(p, "failed")
        BY <3>1 DEF Exit
      <3>2. CASE org' = org
        BY <3>2
      <3>. QED
        BY <1>9, <3>1, <3>2 DEF DeleteSubscription
    <2>4. UNCHANGED <<applied, orgs, cameras, delivered, users, keys, production, histories>>
      BY <1>9 DEF DeleteSubscription
    <2>5. Locals'
      <3>1. CASE Exit(p, "failed")
        BY <1>9, <2>4, <3>1 DEF Exit
      <3>2. CASE Goto(p, "peopling") /\ UNCHANGED <<file, org>>
        BY <1>9, <2>4, <3>2 DEF DeleteSubscription
      <3>. QED
        BY <1>9, <3>1, <3>2 DEF DeleteSubscription
    <2>. QED
      BY <2>1, <2>2, <2>3, <2>4, <2>5, <2>6
  <1>10. ASSUME NEW p \in Processes, NEW r \in Roles, InsertUser(p, r) PROVE Typing'
    <2>1. users' \in SUBSET (orgs \X Roles)
      <3>1. org[p] \in orgs
        BY <1>10 DEF InsertUser
      <3>2. <<org[p], r>> \in orgs \X Roles
        BY <3>1
      <3>3. users' = users \union {<<org[p], r>>}
        BY <1>10 DEF InsertUser
      <3>. QED
        BY <3>2, <3>3
    <2>2. pc' \in [Processes -> Steps] /\ todo' \in [Processes -> SUBSET Roles]
      BY <1>10 DEF InsertUser
    <2>3. UNCHANGED <<applied, orgs, cameras, demo, delivered, keys, production, file, org, histories>>
      BY <1>10 DEF InsertUser
    <2>4. Locals'
      BY <1>10, <2>3 DEF InsertUser
    <2>. QED
      BY <2>1, <2>2, <2>3, <2>4
  <1>11. ASSUME NEW p \in Processes, InsertKey(p) PROVE Typing'
    BY <1>11 DEF InsertKey
  <1>12. ASSUME NEW p \in Processes, Crash(p) PROVE Typing'
    BY <1>12 DEF Crash, Exit
  <1>13. ASSUME NEW p \in Processes, Deliver(p) PROVE Typing'
    BY <1>13 DEF Deliver
  <1>14. CASE Redeploy
    BY <1>14 DEF Redeploy
  <1>15. CASE UNCHANGED vars
    BY <1>15 DEF vars
  <1>. QED
    BY <1>1, <1>2, <1>3, <1>4, <1>5, <1>6, <1>7, <1>8, <1>9, <1>10, <1>11, <1>12,
       <1>13, <1>14, <1>15 DEF Next, Advance

LEMMA TypingHolds == Spec => []Typing
  BY TypingInit, TypingStep, PTL DEF Spec

\* The tables refer to organizations that exist, and the processes' variables have
\* their types.
THEOREM TypeCorrect == Spec => []TypeOK
  <1>1. Typing => TypeOK
    BY DEF Typing
  <1>. QED
    BY <1>1, TypingHolds, PTL

-----------------------------------------------------------------------------
(* Migrations.                                                             *)

\* The applied migrations are the first ones, no process has passed over one that
\* is not applied, and at most one process is about to commit: the next one.
Ordered ==
    /\ \E n \in 0..Files : applied = 1..n
    /\ \A p \in Processes : 1..(file[p] - 1) \subseteq applied
    /\ \A p \in Processes : pc[p] = "committing" => file[p] \notin applied
    /\ \A p, q \in Processes :
          pc[p] = "committing" /\ pc[q] = "committing" => p = q
    /\ \A m \in 1..Files : effects[m] = IF m \in applied THEN 1 ELSE 0
    /\ \A p \in Processes : pc[p] \in Seeding \union {"serving"} => applied = 1..Files

LEMMA OrderedInit == Init => Ordered
  <1>. SUFFICES ASSUME Init PROVE Ordered
    OBVIOUS
  <1>1. applied = 1..0 /\ 0 \in 0..Files
    BY DEF Init
  <1>2. \A p \in Processes : file[p] = 1 /\ pc[p] = "stopped"
    BY DEF Init
  <1>3. \A m \in 1..Files : effects[m] = IF m \in applied THEN 1 ELSE 0
    BY DEF Init
  <1>. QED
    BY <1>1, <1>2, <1>3 DEF Ordered

\* A file that is not applied though no earlier one is missing is the next one.
LEMMA NextFile ==
  ASSUME Typing, NEW n \in 0..Files, applied = 1..n, NEW p \in Processes,
         1..(file[p] - 1) \subseteq applied, file[p] \in 1..Files, file[p] \notin applied
  PROVE  file[p] = n + 1
  <1>1. file[p] \in Int /\ n \in Int /\ n < file[p]
    OBVIOUS
  <1>2. file[p] - 1 > n => file[p] - 1 \in 1..(file[p] - 1) /\ file[p] - 1 \notin 1..n
    OBVIOUS
  <1>. QED
    BY <1>1, <1>2

\* Steps that change neither the table nor what has taken effect.
LEMMA OrderedByFiles ==
  ASSUME Ordered, UNCHANGED <<applied, effects>>,
         \A q \in Processes : 1..(file'[q] - 1) \subseteq applied,
         \A q \in Processes : pc'[q] = "committing" => file'[q] \notin applied,
         \A q, r \in Processes :
            pc'[q] = "committing" /\ pc'[r] = "committing" => q = r,
         \A q \in Processes : pc'[q] \in Seeding \union {"serving"} => applied = 1..Files
  PROVE  Ordered'
  BY DEF Ordered

\* Steps of a process that neither look for a migration nor apply one.
LEMMA OrderedAside ==
  ASSUME Typing, Ordered, UNCHANGED <<applied, effects>>, NEW p \in Processes,
         file'[p] \in {1, file[p]}, pc'[p] # "committing",
         pc'[p] \in Seeding \union {"serving"} => pc[p] \in Seeding \union {"serving"},
         \A q \in Processes \ {p} : pc'[q] = pc[q] /\ file'[q] = file[q]
  PROVE  Ordered'
  <1>1. \A q \in Processes : 1..(file'[q] - 1) \subseteq applied
    BY DEF Ordered
  <1>2. \A q \in Processes : pc'[q] = "committing" => pc[q] = "committing" /\ file'[q] = file[q]
    OBVIOUS
  <1>. QED
    BY <1>1, <1>2 DEF Ordered

LEMMA OrderedStep == Typing /\ Ordered /\ [Next]_vars => Ordered'
  <1>. SUFFICES ASSUME Typing, Ordered, [Next]_vars PROVE Ordered'
    OBVIOUS
  <1>0. PICK n \in 0..Files : applied = 1..n
    BY DEF Ordered
  <1>. USE DEF Typing, TypeOK, Locals, Goto, tables, seeded, locals, histories
  <1>1. ASSUME NEW p \in Processes, CheckVersion(p) PROVE Ordered'
    <2>1. /\ UNCHANGED <<applied, effects>> /\ pc'[p] # "committing"
          /\ \A q \in Processes \ {p} : pc'[q] = pc[q] /\ file'[q] = file[q]
      BY <1>1 DEF CheckVersion
    <2>2. CASE file[p] > Files /\ pc'[p] = "counting" /\ file' = file
      <3>1. applied = 1..Files
        <4>1. 1..(file[p] - 1) \subseteq applied
          BY DEF Ordered
        <4>2. file[p] - 1 = Files
          BY <2>2
        <4>3. applied \subseteq 1..Files
          OBVIOUS
        <4>. QED
          BY <4>1, <4>2, <4>3
      <3>2. \A q \in Processes : pc'[q] = "committing" => pc[q] = "committing"
        BY <2>1, <2>2
      <3>. QED
        BY <2>1, <2>2, <3>1, <3>2 DEF Ordered
    <2>3. CASE file[p] \in applied /\ file'[p] = file[p] + 1 /\ pc' = pc
      <3>1. 1..(file'[p] - 1) \subseteq applied
        BY <2>3 DEF Ordered
      <3>2. pc[p] = "checking"
        BY <1>1 DEF CheckVersion
      <3>3. \A q \in Processes : 1..(file'[q] - 1) \subseteq applied
        BY <2>1, <3>1 DEF Ordered
      <3>4. \A q \in Processes : pc'[q] = "committing" => file'[q] \notin applied
        BY <2>1, <2>3, <3>2 DEF Ordered
      <3>5. \A q, r \in Processes : pc'[q] = "committing" /\ pc'[r] = "committing" => q = r
        BY <2>3 DEF Ordered
      <3>6. \A q \in Processes : pc'[q] \in Seeding \union {"serving"} => applied = 1..Files
        BY <2>3 DEF Ordered
      <3>. QED
        BY <2>1, <3>3, <3>4, <3>5, <3>6, OrderedByFiles
    <2>4. CASE pc'[p] = "applying" /\ file' = file
      BY <2>1, <2>4, OrderedAside
    <2>5. file[p] \in applied => file[p] + 1 \in 1..(Files + 1)
      OBVIOUS
    <2>. QED
      BY <1>1, <2>2, <2>3, <2>4, <2>5 DEF CheckVersion
  <1>2. ASSUME NEW p \in Processes, ApplyFile(p) PROVE Ordered'
    <2>1. /\ UNCHANGED <<applied, effects>> /\ pc[p] = "applying"
          /\ \A q \in Processes \ {p} : pc'[q] = pc[q] /\ file'[q] = file[q]
      BY <1>2 DEF ApplyFile, Exit
    <2>2. CASE Exit(p, "failed")
      BY <2>1, <2>2, OrderedAside DEF Exit
    <2>3. CASE /\ file[p] \notin applied /\ pc' = [pc EXCEPT ![p] = "committing"]
               /\ file' = file
      <3>1. file[p] = n + 1
        BY <1>0, <2>1, <2>3, NextFile DEF Ordered
      <3>2. \A q \in Processes : pc[q] = "committing" => file[q] = n + 1
        BY <1>0, NextFile DEF Ordered
      <3>3. \A q \in Processes \ {p} : pc[q] # "committing"
        BY <1>2, <3>1, <3>2 DEF ApplyFile, VersionLocked
      <3>4. pc'[p] = "committing" /\ \A q \in Processes \ {p} : pc'[q] # "committing"
        BY <2>1, <2>3, <3>3
      <3>5. \A q \in Processes : pc'[q] \in Seeding \union {"serving"} =>
                                  pc[q] \in Seeding \union {"serving"}
        BY <2>1, <3>4
      <3>6. \A q \in Processes : 1..(file'[q] - 1) \subseteq applied
        BY <2>3 DEF Ordered
      <3>7. \A q \in Processes : pc'[q] = "committing" => file'[q] \notin applied
        BY <2>3, <3>4
      <3>8. \A q, r \in Processes : pc'[q] = "committing" /\ pc'[r] = "committing" => q = r
        BY <3>4
      <3>9. \A q \in Processes : pc'[q] \in Seeding \union {"serving"} => applied = 1..Files
        BY <3>5 DEF Ordered
      <3>. QED
        BY <2>1, <3>6, <3>7, <3>8, <3>9, OrderedByFiles
    <2>. QED
      BY <1>2, <2>2, <2>3 DEF ApplyFile
  <1>3. ASSUME NEW p \in Processes, CommitFile(p) PROVE Ordered'
    <2>1. /\ pc[p] = "committing" /\ file[p] \in 1..Files /\ file[p] \notin applied
          /\ applied' = applied \union {file[p]} /\ pc' = [pc EXCEPT ![p] = "checking"]
          /\ effects' = [effects EXCEPT ![file[p]] = @ + 1]
          /\ file' = [file EXCEPT ![p] = @ + 1]
      BY <1>3 DEF CommitFile, Ordered
    <2>2. file[p] = n + 1
      BY <1>0, <2>1, NextFile DEF Ordered
    <2>3. applied' = 1..(n + 1) /\ n + 1 \in 0..Files
      BY <1>0, <2>1, <2>2
    <2>4. \A q \in Processes : 1..(file'[q] - 1) \subseteq applied'
      <3>1. file'[p] = n + 2
        BY <2>1, <2>2
      <3>2. \A q \in Processes \ {p} : file'[q] = file[q]
        BY <2>1
      <3>3. applied \subseteq applied'
        BY <2>1
      <3>4. \A q \in Processes \ {p} : 1..(file'[q] - 1) \subseteq applied'
        BY <3>2, <3>3 DEF Ordered
      <3>5. 1..(file'[p] - 1) \subseteq applied'
        BY <2>3, <3>1
      <3>. QED
        BY <3>4, <3>5
    <2>5. \A q \in Processes : pc'[q] # "committing"
      BY <2>1 DEF Ordered
    <2>6. \A m \in 1..Files : effects'[m] = IF m \in applied' THEN 1 ELSE 0
      BY <2>1 DEF Ordered
    <2>7. \A q \in Processes : pc'[q] \notin Seeding \union {"serving"}
      BY <2>1 DEF Ordered
    <2>8. \E k \in 0..Files : applied' = 1..k
      BY <2>3
    <2>9. /\ \A q \in Processes : pc'[q] = "committing" => file'[q] \notin applied'
          /\ \A q, r \in Processes : pc'[q] = "committing" /\ pc'[r] = "committing" => q = r
      BY <2>5
    <2>. QED
      BY <2>4, <2>6, <2>7, <2>8, <2>9 DEF Ordered
  <1>4. ASSUME NEW p \in Processes,
               \/ Start(p) \/ CountOrganizations(p) \/ InsertOrganization(p)
               \/ InsertCamera(p) \/ InsertSubscription(p) \/ DeleteSubscription(p)
               \/ (\E r \in Roles : InsertUser(p, r)) \/ InsertKey(p) \/ Crash(p) \/ Deliver(p)
        PROVE  Ordered'
    <2>1. UNCHANGED <<applied, effects>>
      BY <1>4 DEF Start, CountOrganizations, InsertOrganization, InsertCamera,
         InsertSubscription, DeleteSubscription, InsertUser, InsertKey, Crash, Deliver
    <2>2. /\ file'[p] \in {1, file[p]}
          /\ \A q \in Processes \ {p} : pc'[q] = pc[q] /\ file'[q] = file[q]
      BY <1>4 DEF Start, CountOrganizations, InsertOrganization, InsertCamera,
         InsertSubscription, DeleteSubscription, InsertUser, InsertKey, Crash, Deliver, Exit
    <2>3. /\ pc'[p] # "committing"
          /\ pc'[p] \in Seeding \union {"serving"} => pc[p] \in Seeding \union {"serving"}
      BY <1>4 DEF Start, CountOrganizations, InsertOrganization, InsertCamera,
         InsertSubscription, DeleteSubscription, InsertUser, InsertKey, Crash, Deliver, Exit
    <2>. QED
      BY <2>1, <2>2, <2>3, OrderedAside
  <1>5. CASE Redeploy \/ UNCHANGED vars
    BY <1>5 DEF Redeploy, vars, Ordered
  <1>. QED
    BY <1>1, <1>2, <1>3, <1>4, <1>5 DEF Next, Advance

\* The migrations take effect in order and once each, whoever starts and crashes
\* when, and before any process looks at the tables.
THEOREM MigrationsCorrect == Spec => []MigratedOnceInOrder
  <1>1. ASSUME Ordered PROVE applied = 1..Cardinality(applied)
    <2>1. PICK n \in 0..Files : applied = 1..n
      BY <1>1 DEF Ordered
    <2>2. Cardinality(1..n) = n
      BY FS_Interval
    <2>. QED
      BY <2>1, <2>2
  <1>2. Ordered => MigratedOnceInOrder
    BY <1>1 DEF Ordered, MigratedOnceInOrder
  <1>. QED
    BY <1>2, OrderedInit, OrderedStep, TypingHolds, PTL DEF Spec

-----------------------------------------------------------------------------
(* Accounts.                                                               *)

\* A process has inserted, or found, the users it has crossed off its list, all of
\* them when it comes to the key, and the key when it serves.
Peopled ==
    \A p \in Processes :
        /\ pc[p] = "peopling" => \A r \in Roles \ todo[p] : <<org[p], r>> \in users
        /\ pc[p] \in {"keying", "serving"} => \A r \in Roles : <<org[p], r>> \in users
        /\ pc[p] = "serving" => keys[production] # None

LEMMA PeopledInit == Init => Peopled
  BY DEF Init, Peopled

\* Steps of a process that neither insert users nor come closer to serving.
LEMMA PeopledAside ==
  ASSUME Peopled, NEW p \in Processes, users \subseteq users',
         UNCHANGED <<keys, production>>,
         pc'[p] \notin {"peopling", "keying", "serving"} \/ UNCHANGED <<pc, org, todo>>,
         \A q \in Processes \ {p} : pc'[q] = pc[q] /\ org'[q] = org[q] /\ todo'[q] = todo[q]
  PROVE  Peopled'
  BY DEF Peopled

LEMMA PeopledStep == Typing /\ Peopled /\ [Next]_vars => Peopled'
  <1>. SUFFICES ASSUME Typing, Peopled, [Next]_vars PROVE Peopled'
    OBVIOUS
  <1>. USE DEF Typing, TypeOK, Locals, Chosen, Goto, tables, seeded, locals, histories
  <1>1. ASSUME NEW p \in Processes,
               \/ Start(p) \/ CheckVersion(p) \/ ApplyFile(p) \/ CommitFile(p)
               \/ CountOrganizations(p) \/ InsertOrganization(p) \/ InsertCamera(p)
               \/ InsertSubscription(p) \/ Crash(p) \/ Deliver(p)
        PROVE  Peopled'
    <2>1. UNCHANGED <<users, keys, production>>
      BY <1>1 DEF Start, CheckVersion, ApplyFile, CommitFile, CountOrganizations,
         InsertOrganization, InsertCamera, InsertSubscription, Crash, Deliver
    <2>2. /\ pc'[p] \notin {"peopling", "keying", "serving"} \/ UNCHANGED <<pc, org, todo>>
          /\ \A q \in Processes \ {p} :
                pc'[q] = pc[q] /\ org'[q] = org[q] /\ todo'[q] = todo[q]
      BY <1>1 DEF Start, CheckVersion, ApplyFile, CommitFile, CountOrganizations,
         InsertOrganization, InsertCamera, InsertSubscription, Crash, Deliver, Exit
    <2>. QED
      BY <2>1, <2>2, PeopledAside
  <1>2. ASSUME NEW p \in Processes, DeleteSubscription(p) PROVE Peopled'
    <2>1. UNCHANGED <<users, keys, production>>
      BY <1>2 DEF DeleteSubscription
    <2>2. CASE Exit(p, "failed")
      BY <2>1, <2>2, PeopledAside DEF Exit
    <2>3. CASE /\ pc' = [pc EXCEPT ![p] = "peopling"]
               /\ todo' = [todo EXCEPT ![p] = Roles] /\ org' = org
      <3>1. pc'[p] = "peopling" /\ Roles \ todo'[p] = {}
        BY <2>3
      <3>. QED
        BY <2>1, <2>3, <3>1 DEF Peopled
    <2>. QED
      BY <1>2, <2>2, <2>3 DEF DeleteSubscription
  <1>3. ASSUME NEW p \in Processes, NEW r \in Roles, InsertUser(p, r) PROVE Peopled'
    <2>1. /\ UNCHANGED <<org, keys, production>> /\ users' = users \union {<<org[p], r>>}
          /\ todo' = [todo EXCEPT ![p] = @ \ {r}] /\ pc[p] = "peopling"
      BY <1>3 DEF InsertUser
    <2>2. \/ pc' = pc
          \/ todo'[p] = {} /\ pc' = [pc EXCEPT ![p] = "keying"]
      BY <1>3 DEF InsertUser
    <2>3. \A x \in Roles \ todo'[p] : <<org[p], x>> \in users'
      <3>1. \A x \in Roles \ todo[p] : <<org[p], x>> \in users
        BY <2>1 DEF Peopled
      <3>. QED
        BY <2>1, <3>1
    <2>4. \A q \in Processes \ {p} : pc'[q] = pc[q] /\ todo'[q] = todo[q]
      BY <2>1, <2>2
    <2>5. users \subseteq users'
      BY <2>1
    <2>6. CASE pc' = pc
      BY <2>1, <2>3, <2>4, <2>5, <2>6 DEF Peopled
    <2>7. CASE todo'[p] = {} /\ pc'[p] = "keying"
      <3>1. \A x \in Roles : <<org[p], x>> \in users'
        BY <2>3, <2>7
      <3>. QED
        BY <2>1, <2>4, <2>5, <2>7, <3>1 DEF Peopled
    <2>. QED
      BY <2>2, <2>6, <2>7
  <1>4. ASSUME NEW p \in Processes, InsertKey(p) PROVE Peopled'
    <2>1. /\ UNCHANGED <<users, production, org, todo>> /\ pc[p] = "keying"
          /\ pc' = [pc EXCEPT ![p] = "serving"]
          /\ keys' = [keys EXCEPT ![production] = IF @ = None THEN org[p] ELSE @]
      BY <1>4 DEF InsertKey
    <2>2. org[p] # None
      <3>1. org[p] \in Processes
        BY <2>1
      <3>. QED
        BY <3>1
    <2>3. keys'[production] # None
      BY <2>1, <2>2
    <2>. QED
      BY <2>1, <2>3 DEF Peopled
  <1>5. CASE Redeploy
    BY <1>5 DEF Redeploy, Peopled
  <1>6. CASE UNCHANGED vars
    BY <1>6 DEF vars, Peopled
  <1>. QED
    BY <1>1, <1>2, <1>3, <1>4, <1>5, <1>6 DEF Next, Advance

\* A process that serves has all accounts of its tenant and a key, whichever
\* process began the seed and wherever it crashed.
THEOREM AccountsCorrect == Spec => []ServesAccounts
  <1>1. Typing /\ Peopled => ServesAccounts
    <2>. SUFFICES ASSUME Typing, Peopled, NEW p \in Processes, pc[p] = "serving"
                  PROVE  /\ keys[production] \in orgs
                         /\ \A r \in Roles : <<org[p], r>> \in users
      BY DEF ServesAccounts
    <2>1. keys[production] \in orgs \union {None}
      BY DEF Typing, TypeOK
    <2>. QED
      BY <2>1 DEF Peopled
  <1>. QED
    BY <1>1, PeopledInit, PeopledStep, TypingHolds, PTL DEF Spec

-----------------------------------------------------------------------------
(* The tenant.                                                             *)

\* As long as no two seeds have met: one process at most is past the count, there
\* is one organization at most, a process founds one only while there is none, and
\* no other serves until it has at least reached the curation.  In production,
\* whoever is past the curation found no demo receiver or deleted it.
Founding == {"founding", "equipping", "subscribing"}

Single ==
    ~overlapped =>
        /\ \A p, q \in Processes : pc[p] \in Active /\ pc[q] \in Active => p = q
        /\ \A o1, o2 \in orgs : o1 = o2
        /\ \A p \in Processes : pc[p] = "founding" => orgs = {}
        /\ \A p, q \in Processes : pc[p] \in Founding => pc[q] # "serving"
        /\ \A p \in Processes :
              production /\ pc[p] \in {"peopling", "keying", "serving"} => demo = {}

LEMMA SingleInit == Init => Single
  BY DEF Init, Single, Active, Founding, Chosen

\* Steps of a process that do not count or insert: it comes no closer to serving
\* but past the curation, or gives up.
LEMMA SingleAside ==
  ASSUME Single, UNCHANGED <<orgs, production, overlapped>>, NEW p \in Processes,
         demo' \subseteq demo,
         \A q \in Processes \ {p} : pc'[q] = pc[q],
         \/ pc'[p] \notin Active \union {"serving"}
         \/ pc'[p] = pc[p]
         \/ pc'[p] = "keying" /\ pc[p] = "peopling"
         \/ pc'[p] = "peopling" /\ pc[p] = "curating" /\ (production => demo' = {})
  PROVE  Single'
  <1>. SUFFICES ASSUME ~overlapped PROVE Single'
    BY DEF Single
  <1>. USE DEF Active, Chosen, Founding
  <1>1. \A q \in Processes : pc'[q] \in Active => pc[q] \in Active
    OBVIOUS
  <1>2. \A q \in Processes : pc'[q] \in Founding => pc[q] = pc'[q]
    OBVIOUS
  <1>3. \A q \in Processes : pc'[q] = "serving" => pc[q] = "serving"
    OBVIOUS
  <1>4. \A q \in Processes :
          production /\ pc'[q] \in {"peopling", "keying", "serving"} => demo' = {}
    <2>. SUFFICES ASSUME NEW q \in Processes, production,
                         pc'[q] \in {"peopling", "keying", "serving"}
                  PROVE  demo' = {}
      OBVIOUS
    <2>1. CASE pc[q] \in {"peopling", "keying", "serving"}
      BY <2>1 DEF Single
    <2>2. CASE pc[q] \notin {"peopling", "keying", "serving"}
      BY <2>2
    <2>. QED
      BY <2>1, <2>2
  <1>. QED
    BY <1>1, <1>2, <1>3, <1>4 DEF Single

LEMMA SingleStep == Typing /\ Single /\ [Next]_vars => Single'
  <1>. SUFFICES ASSUME Typing, Single, [Next]_vars, ~overlapped' PROVE Single'
    BY DEF Single
  <1>. USE DEF Typing, TypeOK, Locals, Active, Chosen, Founding, Goto, tables, seeded,
       locals, histories
  <1>1. ASSUME NEW p \in Processes, Start(p) PROVE Single'
    BY <1>1 DEF Start, Single
  <1>2. ASSUME NEW p \in Processes, CheckVersion(p) PROVE Single'
    <2>1. /\ pc'[p] \notin Active \union {"serving"}
          /\ UNCHANGED <<orgs, production, overlapped, demo>>
          /\ \A q \in Processes \ {p} : pc'[q] = pc[q]
      BY <1>2 DEF CheckVersion
    <2>. QED
      BY <2>1, SingleAside
  <1>3. ASSUME NEW p \in Processes, ApplyFile(p) PROVE Single'
    <2>1. /\ pc'[p] \notin Active \union {"serving"}
          /\ UNCHANGED <<orgs, production, overlapped, demo>>
          /\ \A q \in Processes \ {p} : pc'[q] = pc[q]
      BY <1>3 DEF ApplyFile, Exit
    <2>. QED
      BY <2>1, SingleAside
  <1>4. ASSUME NEW p \in Processes, CommitFile(p) PROVE Single'
    BY <1>4 DEF CommitFile, Single
  <1>5. ASSUME NEW p \in Processes, CountOrganizations(p) PROVE Single'
    <2>1. /\ ~overlapped /\ pc[p] = "counting"
          /\ \A q \in Processes \ {p} : pc[q] \notin Active
          /\ UNCHANGED <<orgs, production, demo>>
      BY <1>5 DEF CountOrganizations, Meets
    <2>2. \A q \in Processes \ {p} : pc'[q] = pc[q]
      BY <1>5 DEF CountOrganizations
    <2>3. \A q1, q2 \in Processes : pc'[q1] \in Active /\ pc'[q2] \in Active => q1 = q2
      BY <2>1, <2>2
    <2>4. CASE orgs = {} /\ pc'[p] = "founding"
      <3>1. \A q \in Processes : pc[q] # "serving"
        BY <2>4
      <3>. QED
        BY <2>1, <2>2, <2>3, <2>4, <3>1 DEF Single
    <2>5. CASE pc'[p] = "curating"
      BY <2>1, <2>2, <2>3, <2>5 DEF Single
    <2>. QED
      BY <1>5, <2>4, <2>5 DEF CountOrganizations
  <1>6. ASSUME NEW p \in Processes, InsertOrganization(p) PROVE Single'
    BY <1>6 DEF InsertOrganization, Single
  <1>7. ASSUME NEW p \in Processes, InsertCamera(p) PROVE Single'
    BY <1>7 DEF InsertCamera, Single
  <1>8. ASSUME NEW p \in Processes, InsertSubscription(p) PROVE Single'
    BY <1>8 DEF InsertSubscription, Single
  <1>9. ASSUME NEW p \in Processes, DeleteSubscription(p) PROVE Single'
    <2>1. /\ UNCHANGED <<orgs, production, overlapped>> /\ demo' \subseteq demo
          /\ pc[p] = "curating"
          /\ \/ pc'[p] = "failed"
             \/ pc'[p] = "peopling" /\ (production => demo' = {})
      BY <1>9 DEF DeleteSubscription, Exit
    <2>2. \A q \in Processes \ {p} : pc'[q] = pc[q]
      BY <1>9 DEF DeleteSubscription, Exit
    <2>. QED
      BY <2>1, <2>2, SingleAside
  <1>10. ASSUME NEW p \in Processes, NEW r \in Roles, InsertUser(p, r) PROVE Single'
    <2>1. /\ UNCHANGED <<orgs, production, overlapped, demo>> /\ pc[p] = "peopling"
          /\ pc'[p] \in {"peopling", "keying"}
          /\ \A q \in Processes \ {p} : pc'[q] = pc[q]
      BY <1>10 DEF InsertUser
    <2>. QED
      BY <2>1, SingleAside
  <1>11. ASSUME NEW p \in Processes, InsertKey(p) PROVE Single'
    BY <1>11 DEF InsertKey, Single
  <1>12. ASSUME NEW p \in Processes, Crash(p) PROVE Single'
    BY <1>12 DEF Crash, Exit, Single
  <1>13. ASSUME NEW p \in Processes, Deliver(p) PROVE Single'
    BY <1>13 DEF Deliver, Single
  <1>14. CASE Redeploy
    BY <1>14 DEF Redeploy, Single
  <1>15. CASE UNCHANGED vars
    BY <1>15 DEF vars, Single
  <1>. QED
    BY <1>1, <1>2, <1>3, <1>4, <1>5, <1>6, <1>7, <1>8, <1>9, <1>10, <1>11, <1>12,
       <1>13, <1>14, <1>15 DEF Next, Advance

LEMMA SingleHolds == Spec => []Single
  BY SingleInit, SingleStep, TypingHolds, PTL DEF Spec

\* Crashes and restarts never split the tenant of processes that seed one after
\* another: all serve the one organization there is, and the key is its own.
THEOREM TenantCorrect == Spec => []OneTenant
  <1>1. Typing /\ Peopled /\ Single => OneTenant
    <2>. SUFFICES ASSUME Typing, Peopled, Single, ~overlapped
                  PROVE  /\ Cardinality(orgs) <= 1
                         /\ \A p \in Processes : pc[p] = "serving" =>
                               orgs = {org[p]} /\ keys[production] = org[p]
      BY DEF OneTenant
    <2>1. \A o1, o2 \in orgs : o1 = o2
      BY DEF Single
    <2>2. Cardinality(orgs) <= 1
      <3>1. CASE orgs = {}
        BY <3>1, FS_EmptySet
      <3>2. CASE orgs # {}
        <4>1. PICK o : orgs = {o}
          BY <2>1, <3>2
        <4>2. Cardinality({o}) = 1
          BY FS_Singleton
        <4>. QED
          BY <4>1, <4>2
      <3>. QED
        BY <3>1, <3>2
    <2>3. ASSUME NEW p \in Processes, pc[p] = "serving"
          PROVE  orgs = {org[p]} /\ keys[production] = org[p]
      <3>1. org[p] \in orgs
        BY <2>3 DEF Typing, Locals
      <3>2. keys[production] \in orgs
        BY <2>3 DEF Typing, TypeOK, Peopled
      <3>. QED
        BY <2>1, <3>1, <3>2
    <2>. QED
      BY <2>2, <2>3
  <1>. QED
    BY <1>1, TypingHolds, PeopledInit, PeopledStep, SingleHolds, PTL DEF Spec

\* Processes that start one after another serve in production only without the
\* demo receiver, whoever inserted it and whenever.
THEOREM DemoCorrect == Spec => []NoDemoInProduction
  <1>1. Single => NoDemoInProduction
    BY DEF Single, NoDemoInProduction
  <1>. QED
    BY <1>1, SingleHolds, PTL

=============================================================================
