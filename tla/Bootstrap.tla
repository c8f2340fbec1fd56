----------------------------- MODULE Bootstrap -----------------------------
(***************************************************************************)
(* What an API process does before it serves (cmd/api/main.go, App.Migrate *)
(* and App.seed of internal/visionops/app.go): it applies the migrations   *)
(* that are missing, each in a transaction of its own, and then seeds the  *)
(* demo tenant with single statements.  Any error ends the process, and    *)
(* the deployment starts it again ("restart: unless-stopped").             *)
(*                                                                         *)
(* An organization is named after the process that inserted it; the first  *)
(* organization a process counts keeps it from inserting another.          *)
(***************************************************************************)
EXTENDS Integers, FiniteSets

CONSTANTS
    Processes,    \* API processes of a deployment
    Files,        \* how many migration files there are, applied in order
    Roles,        \* the demo users, one of each role
    None

ASSUME FilesAssumption == Files \in Nat \ {0}
ASSUME NoneAssumption == None \notin Processes
ASSUME RolesAssumption == IsFiniteSet(Roles) /\ Roles # {}

VARIABLES
    \* the database
    applied,      \* schema_migrations
    orgs,         \* organizations
    cameras,      \* organizations with the seeded camera
    demo,         \* organizations with the subscription of the demo receiver
    delivered,    \* those with webhook_deliveries that refer to it
    users,        \* demo users: <<organization, role>>
    keys,         \* the organization of each environment's ingestion key
    \* the processes
    production,   \* APP_ENV of the deployment
    pc, file, org, todo,
    \* histories
    effects,      \* how often each migration took effect
    overlapped    \* two processes were seeding at the same time

tables    == <<applied, orgs, cameras, demo, delivered, users, keys>>
seeded    == <<orgs, cameras, demo, delivered, users, keys>>
locals    == <<pc, file, org, todo>>
histories == <<effects, overlapped>>
vars == <<tables, production, locals, histories>>

Migrating == {"checking", "applying", "committing"}
Seeding == {"counting", "founding", "equipping", "subscribing", "curating", "peopling", "keying"}
Down == {"stopped", "failed"}
Steps == {"serving"} \union Down \union Migrating \union Seeding

TypeOK ==
    /\ applied \in SUBSET (1..Files)
    /\ orgs \in SUBSET Processes
    /\ cameras \in SUBSET orgs
    /\ demo \in SUBSET orgs
    /\ delivered \in SUBSET demo
    /\ users \in SUBSET (orgs \X Roles)
    /\ keys \in [BOOLEAN -> orgs \union {None}]
    /\ production \in BOOLEAN
    /\ pc \in [Processes -> Steps]
    /\ file \in [Processes -> 1..(Files + 1)]
    /\ org \in [Processes -> orgs \union {None}]
    /\ todo \in [Processes -> SUBSET Roles]
    /\ effects \in [1..Files -> Nat]
    /\ overlapped \in BOOLEAN

Init ==
    /\ applied = {}
    /\ orgs = {}
    /\ cameras = {}
    /\ demo = {}
    /\ delivered = {}
    /\ users = {}
    /\ keys = [e \in BOOLEAN |-> None]
    /\ production \in BOOLEAN
    /\ pc = [p \in Processes |-> "stopped"]
    /\ file = [p \in Processes |-> 1]
    /\ org = [p \in Processes |-> None]
    /\ todo = [p \in Processes |-> {}]
    /\ effects = [m \in 1..Files |-> 0]
    /\ overlapped = FALSE

-----------------------------------------------------------------------------
(* main.                                                                   *)

Goto(p, step) == pc' = [pc EXCEPT ![p] = step]

\* By hand or, after the process ended in whatever way, by the deployment.
Start(p) ==
    /\ pc[p] \in Down
    /\ Goto(p, "checking")
    /\ UNCHANGED <<tables, production, file, org, todo, histories>>

\* The process is gone and with it what it had not committed.
Exit(p, how) ==
    /\ Goto(p, how)
    /\ file' = [file EXCEPT ![p] = 1]
    /\ org' = [org EXCEPT ![p] = None]
    /\ todo' = [todo EXCEPT ![p] = {}]

\* A process dies, is stopped, or exits because it lost the database; that a
\* statement was carried out and only its answer lost is the statement's step
\* followed by this one.  An exit the code itself brings about, with nothing
\* failing but what it does, is no crash: it ends in "failed" and not here.
Crash(p) ==
    /\ pc[p] \notin Down
    /\ Exit(p, "stopped")
    /\ UNCHANGED <<tables, production, histories>>

\* The deployment changes its environment while it is down.
Redeploy ==
    /\ \A p \in Processes : pc[p] \in Down
    /\ production' = ~production
    /\ UNCHANGED <<tables, locals, histories>>

-----------------------------------------------------------------------------
(* App.Migrate.                                                            *)

\* Mutants of CheckVersion: every file is applied, whether or not it was before;
\* and the first one that was ends the loop.
CheckNoVersion(p) ==
    /\ pc[p] = "checking"
    /\ Goto(p, IF file[p] > Files THEN "counting" ELSE "applying")
    /\ UNCHANGED <<tables, production, file, org, todo, histories>>
CheckFirstVersion(p) ==
    /\ pc[p] = "checking"
    /\ IF file[p] > Files \/ file[p] \in applied
       THEN Goto(p, "counting") /\ UNCHANGED file
       ELSE Goto(p, "applying") /\ UNCHANGED file
    /\ UNCHANGED <<tables, production, org, todo, histories>>

\* select exists(... from schema_migrations ...), for each file in turn.
CheckVersion(p) ==
    /\ pc[p] = "checking"
    /\ \/ /\ file[p] > Files
          /\ Goto(p, "counting")
          /\ UNCHANGED file
       \/ /\ file[p] \in applied
          /\ file' = [file EXCEPT ![p] = @ + 1]
          /\ UNCHANGED pc
       \/ /\ file[p] \in (1..Files) \ applied
          /\ Goto(p, "applying")
          /\ UNCHANGED file
    /\ UNCHANGED <<tables, production, org, todo, histories>>

\* Another process has inserted the version of the file and not yet committed.
VersionLocked(p) == \E q \in Processes \ {p} : pc[q] = "committing" /\ file[q] = file[p]

\* Mutant of ApplyFile: an applied version is applied again.
ApplyFileAgain(p) ==
    /\ pc[p] = "applying"
    /\ ~VersionLocked(p)
    /\ Goto(p, "committing")
    /\ UNCHANGED <<tables, production, file, org, todo, histories>>

\* The file's statements and the insert of its version, in a transaction.  If
\* another process is at the same file this one waits for it, and, if that
\* commits, the key exists and the process exits.
ApplyFile(p) ==
    /\ pc[p] = "applying"
    /\ ~VersionLocked(p)
    /\ IF file[p] \in applied THEN Exit(p, "failed")
       ELSE Goto(p, "committing") /\ UNCHANGED <<file, org, todo>>
    /\ UNCHANGED <<tables, production, histories>>

CommitFile(p) ==
    /\ pc[p] = "committing"
    /\ applied' = applied \union {file[p]}
    /\ effects' = [effects EXCEPT ![file[p]] = @ + 1]
    /\ Goto(p, "checking")
    /\ file' = [file EXCEPT ![p] = @ + 1]
    /\ UNCHANGED <<seeded, production, org, todo, overlapped>>

-----------------------------------------------------------------------------
(* App.seed: every statement commits by itself.                            *)

\* Whether the seed of p now runs together with another's.
Meets(p) == overlapped' = (overlapped \/ \E q \in Processes \ {p} : pc[q] \in Seeding)

\* Mutants of CountOrganizations: it counts cameras; and a tenant that exists
\* is taken to be complete.
CountCameras(p) ==
    /\ pc[p] = "counting"
    /\ Meets(p)
    /\ \/ /\ cameras = {}
          /\ Goto(p, "founding")
          /\ UNCHANGED org
       \/ /\ cameras # {}
          /\ \E o \in orgs : org' = [org EXCEPT ![p] = o]
          /\ Goto(p, "curating")
    /\ UNCHANGED <<tables, production, file, todo, effects>>
CountAndTrust(p) ==
    /\ pc[p] = "counting"
    /\ Meets(p)
    /\ \/ /\ orgs = {}
          /\ Goto(p, "founding")
          /\ UNCHANGED org
       \/ /\ \E o \in orgs : org' = [org EXCEPT ![p] = o]
          /\ Goto(p, "serving")
    /\ UNCHANGED <<tables, production, file, todo, effects>>

\* select count(*) from organizations, and if there are any the id of the first
\* by name; they all have the same name, and none is ever deleted.
CountOrganizations(p) ==
    /\ pc[p] = "counting"
    /\ Meets(p)
    /\ \/ /\ orgs = {}
          /\ Goto(p, "founding")
          /\ UNCHANGED org
       \/ /\ \E o \in orgs : org' = [org EXCEPT ![p] = o]
          /\ Goto(p, "curating")
    /\ UNCHANGED <<tables, production, file, todo, effects>>

InsertOrganization(p) ==
    /\ pc[p] = "founding"
    /\ orgs' = orgs \union {p}
    /\ org' = [org EXCEPT ![p] = p]
    /\ Goto(p, "equipping")
    /\ UNCHANGED <<applied, cameras, demo, delivered, users, keys, production, file, todo, histories>>

InsertCamera(p) ==
    /\ pc[p] = "equipping"
    /\ cameras' = cameras \union {org[p]}
    /\ Goto(p, "subscribing")
    /\ UNCHANGED <<applied, orgs, demo, delivered, users, keys, production, file, org, todo, histories>>

InsertSubscription(p) ==
    /\ pc[p] = "subscribing"
    /\ demo' = demo \union {org[p]}
    /\ Goto(p, "curating")
    /\ UNCHANGED <<applied, orgs, cameras, delivered, users, keys, production, file, org, todo, histories>>

\* Mutants of DeleteSubscription: only the tenant's founder deletes it; and
\* deliveries do not keep it.
DeleteOwnSubscription(p) ==
    /\ pc[p] = "curating"
    /\ IF production /\ org[p] = p THEN demo' = demo \ delivered ELSE UNCHANGED demo
    /\ Goto(p, "peopling")
    /\ todo' = [todo EXCEPT ![p] = Roles]
    /\ UNCHANGED <<applied, orgs, cameras, delivered, users, keys, production, file, org, histories>>

DeleteReferencedSubscription(p) ==
    /\ pc[p] = "curating"
    /\ demo' = IF production THEN {} ELSE demo
    /\ Goto(p, "peopling")
    /\ todo' = [todo EXCEPT ![p] = Roles]
    /\ UNCHANGED <<applied, orgs, cameras, delivered, users, keys, production, file, org, histories>>

\* In production the demo receiver's subscriptions are deleted, whoever inserted
\* them; a delivery that refers to one makes the statement, and the start, fail.
DeleteSubscription(p) ==
    /\ pc[p] = "curating"
    /\ IF production /\ delivered # {} THEN Exit(p, "failed") /\ UNCHANGED demo
       ELSE /\ demo' = IF production THEN {} ELSE demo
            /\ Goto(p, "peopling")
            /\ todo' = [todo EXCEPT ![p] = Roles]
            /\ UNCHANGED <<file, org>>
    /\ UNCHANGED <<applied, orgs, cameras, delivered, users, keys, production, histories>>

\* insert into users ... on conflict do nothing, in the order of a Go map.
InsertUser(p, r) ==
    /\ pc[p] = "peopling"
    /\ r \in todo[p]
    /\ users' = users \union {<<org[p], r>>}
    /\ todo' = [todo EXCEPT ![p] = @ \ {r}]
    /\ IF todo'[p] = {} THEN Goto(p, "keying") ELSE UNCHANGED pc
    /\ UNCHANGED <<applied, orgs, cameras, demo, delivered, keys, production, file, org, histories>>

\* insert into api_keys ... on conflict do nothing: the first one keeps the key.
\* Production refuses the demo key (main.go:29): each environment has its own.
InsertKey(p) ==
    /\ pc[p] = "keying"
    /\ keys' = [keys EXCEPT ![production] = IF @ = None THEN org[p] ELSE @]
    /\ Goto(p, "serving")
    /\ UNCHANGED <<applied, orgs, cameras, demo, delivered, users, production, file, org, todo, histories>>

\* While a process serves, its worker delivers to the demo receiver; in
\* production the post fails, which leaves a row in webhook_deliveries as well.
Deliver(p) ==
    /\ pc[p] = "serving"
    /\ \E o \in demo : delivered' = delivered \union {o}
    /\ UNCHANGED <<applied, orgs, cameras, demo, users, keys, production, locals, histories>>

Advance(p) ==
    \/ Start(p)
    \/ CheckVersion(p)
    \/ ApplyFile(p)
    \/ CommitFile(p)
    \/ CountOrganizations(p)
    \/ InsertOrganization(p)
    \/ InsertCamera(p)
    \/ InsertSubscription(p)
    \/ DeleteSubscription(p)
    \/ \E r \in Roles : InsertUser(p, r)
    \/ InsertKey(p)

Next ==
    \/ \E p \in Processes : Advance(p) \/ Crash(p) \/ Deliver(p)
    \/ Redeploy

Spec == Init /\ [][Next]_vars

\* A started process runs on, and one that exited is started again.
FairSpec == Spec /\ \A p \in Processes : WF_vars(Advance(p))

-----------------------------------------------------------------------------
\* Migrations take effect in the order of their files and exactly once each,
\* however many processes start at the same time and wherever they crash;
\* schema_migrations tells the truth, and no process looks at the tables, let
\* alone serves, before all migrations are applied.
MigratedOnceInOrder ==
    /\ applied = 1..Cardinality(applied)
    /\ \A m \in 1..Files : effects[m] = IF m \in applied THEN 1 ELSE 0
    /\ \A p \in Processes : pc[p] \in Seeding \union {"serving"} => applied = 1..Files

\* Crashes and restarts never split the demo tenant: as long as processes seed
\* one after another, they all serve one organization, and the key is its own.
OneTenant ==
    ~overlapped =>
        /\ Cardinality(orgs) <= 1
        /\ \A p \in Processes : pc[p] = "serving" => orgs = {org[p]} /\ keys[production] = org[p]

\* A process that serves has completed the accounts of the tenant it chose, even
\* if the process that began the seed crashed in the middle of it.
ServesAccounts ==
    \A p \in Processes : pc[p] = "serving" =>
        /\ keys[production] \in orgs
        /\ \A r \in Roles : <<org[p], r>> \in users

\* The demo receiver does not remain enabled in the public demo (app.go:148):
\* processes that started one after another serve in production only without it.
NoDemoInProduction ==
    ~overlapped /\ production =>
        \A p \in Processes : pc[p] = "serving" => demo = {}

\* Once nothing crashes and the environment stays what it is, every process comes
\* to serve for good, however its start failed meanwhile: a file that another
\* process was at is applied the next time.  Only one kind of start fails for
\* ever, in production with deliveries to the demo receiver in the database, and
\* always at the same statement.
Undisturbed == ~ (Redeploy \/ \E p \in Processes : Crash(p))
Serves ==
    <>[][Undisturbed]_vars =>
        \A p \in Processes :
            \/ <>[](pc[p] = "serving")
            \/ <>[](production /\ delivered # {}) /\ []<>(pc[p] = "curating")

=============================================================================
