--------------------------- MODULE OutboxProofs ---------------------------
(***************************************************************************)
(* Proofs about Outbox, for any number of processes, jobs, subscriptions   *)
(* and attempts, and any choice of faults.                                 *)
(***************************************************************************)
EXTENDS Outbox, TLAPS

USE DEF Busy, Steps, Statuses

-----------------------------------------------------------------------------
(* Typing.                                                                 *)

\* A worker that holds a job knows it, and one about to log a delivery knows
\* the subscription it posted to.
Locals ==
    \A w \in Servers :
        /\ pc[w] \in Busy \union {"locked"} => job[w] \in Jobs
        /\ pc[w] \in {"answered", "refused"} => dest[w] \in Subs

Typing == TypeOK /\ Locals

LEMMA BackoffType == ASSUME NEW n \in Nat PROVE Backoff(n) \in Nat
  <1>1. CASE n < 5
    <2>1. n \in {0, 1, 2, 3, 4}
      BY <1>1
    <2>. QED
      BY <1>1, <2>1 DEF Backoff
  <1>2. CASE ~(n < 5)
    BY <1>2 DEF Backoff
  <1>. QED
    BY <1>1, <1>2

LEMMA TypingInit == Init => Typing
  BY DEF Init, Typing, TypeOK, Locals

LEMMA TypingStep == Typing /\ [Next]_vars => Typing'
  <1>. SUFFICES ASSUME Typing, [Next]_vars PROVE Typing'
    OBVIOUS
  <1>. USE DEF Typing, TypeOK, Locals
  <1>1. ASSUME NEW j \in Jobs, Enqueue(j) PROVE Typing'
    BY <1>1 DEF Enqueue, SubsOf, workerVars
  <1>2. ASSUME NEW s \in Subs, AddSubscription(s) PROVE Typing'
    BY <1>2 DEF AddSubscription, jobVars, workerVars, history
  <1>3. ASSUME NEW w \in Servers, NEW j \in Jobs, LockJob(w, j) PROVE Typing'
    BY <1>3 DEF LockJob, jobVars, history
  <1>4. ASSUME NEW w \in Servers, CommitClaim(w) PROVE Typing'
    BY <1>4 DEF CommitClaim, MarkProcessing, Goto, history
  <1>5. ASSUME NEW w \in Servers, AbandonClaim(w) PROVE Typing'
    BY <1>5 DEF AbandonClaim, MarkProcessing, Rest, jobVars, history
  <1>6. ASSUME NEW w \in Servers, ReadSubscriptions(w) PROVE Typing'
    BY <1>6 DEF ReadSubscriptions, SubsOf, Goto, jobVars, history
  <1>7. ASSUME NEW w \in Servers, NEW s \in Subs, Post(w, s) PROVE Typing'
    BY <1>7 DEF Post, jobVars
  <1>8. ASSUME NEW w \in Servers, RecordDelivery(w) PROVE Typing'
    <2>1. <<dest[w], pc[w] = "answered">> \in Subs \X BOOLEAN
      BY <1>8 DEF RecordDelivery
    <2>2. ASSUME NEW r \in Subs \X BOOLEAN,
                 rows' = [rows EXCEPT ![job[w]] = @ \union {r}]
          PROVE  rows' \in [Jobs -> SUBSET (Subs \X BOOLEAN)]
      BY <2>2, ZenonT(40)
    <2>3. rows' \in [Jobs -> SUBSET (Subs \X BOOLEAN)]
      BY <1>8, <2>1, <2>2 DEF RecordDelivery
    <2>. QED
      BY <1>8, <2>3 DEF RecordDelivery, jobVars, history
  <1>9. ASSUME NEW w \in Servers, BreakCursor(w) PROVE Typing'
    BY <1>9 DEF BreakCursor, Goto, jobVars, history
  <1>10. ASSUME NEW w \in Servers, FinishDone(w) PROVE Typing'
    BY <1>10 DEF FinishDone, Rest, history
  <1>11. ASSUME NEW w \in Servers, FinishFailed(w) PROVE Typing'
    BY <1>11, BackoffType DEF FinishFailed, Outcome, Goto, history
  <1>12. ASSUME NEW w \in Servers, Announce(w) PROVE Typing'
    BY <1>12 DEF Announce, Rest, jobVars, history
  <1>13. ASSUME NEW p \in Servers, NEW j \in Jobs, Replay(p, j) PROVE Typing'
    BY <1>13 DEF Replay, workerVars, history
  <1>14. ASSUME NEW p \in Servers, NEW j \in Jobs, AnnounceReplay(p, j) PROVE Typing'
    BY <1>14 DEF AnnounceReplay, jobVars, workerVars, history
  <1>15. ASSUME NEW w \in Servers, Stop(w) PROVE Typing'
    BY <1>15 DEF Stop, jobVars, history
  <1>16. ASSUME NEW w \in Servers, Restart(w) PROVE Typing'
    BY <1>16 DEF Restart, Goto, jobVars, history
  <1>17. CASE Tick
    BY <1>17 DEF Tick, workerVars, history
  <1>18. ASSUME NEW d \in Dashboards, Dashboard(d) PROVE Typing'
    BY <1>18 DEF Dashboard, jobVars, workerVars, history
  <1>19. CASE UNCHANGED vars
    BY <1>19 DEF vars, jobVars, workerVars, history
  <1>. QED
    BY <1>1, <1>2, <1>3, <1>4, <1>5, <1>6, <1>7, <1>8, <1>9, <1>10, <1>11, <1>12,
       <1>13, <1>14, <1>15, <1>16, <1>17, <1>18, <1>19
    DEF Next, Step, WorkOne, Deliver

\* The variables of the outbox always have their types.
THEOREM TypeCorrect == Spec => []TypeOK
  <1>1. Typing => TypeOK
    BY DEF Typing
  <1>. QED
    BY <1>1, TypingInit, TypingStep, PTL DEF Spec

-----------------------------------------------------------------------------
(* Claims.                                                                 *)

\* The database's row and the worker's memory agree: inside the claiming
\* transaction the row is still pending with the attempts the worker read, and
\* from the claim to the outcome it is processing with one attempt more.  This
\* is what makes ExclusiveClaim inductive: a row that is processing cannot be
\* locked, and the lock keeps a pending one from a second worker.
RowAgrees ==
    \A w \in Servers :
        /\ pc[w] = "locked" =>
              status[job[w]] = "pending" /\ attempts[job[w]] = tries[w]
        /\ pc[w] \in Busy =>
              status[job[w]] = "processing" /\ attempts[job[w]] = tries[w] + 1

Claims == Typing /\ RowAgrees /\ ExclusiveClaim /\ RetryBudget

LEMMA ClaimsInit == Init => Claims
  <1>. SUFFICES ASSUME Init PROVE Claims
    OBVIOUS
  <1>1. Typing
    BY TypingInit
  <1>2. RowAgrees /\ ExclusiveClaim
    BY DEF Init, RowAgrees, ExclusiveClaim, Owns
  <1>3. RetryBudget
    BY MaxAttemptsAssumption DEF Init, RetryBudget
  <1>. QED
    BY <1>1, <1>2, <1>3 DEF Claims

LEMMA ClaimsStep == Claims /\ [Next]_vars => Claims'
  <1>. SUFFICES ASSUME Claims, [Next]_vars PROVE Claims'
    OBVIOUS
  <1>0. Typing'
    BY TypingStep DEF Claims
  <1>. DEFINE Rest2 == RowAgrees /\ ExclusiveClaim /\ RetryBudget
  <1>. SUFFICES Rest2'
    BY <1>0 DEF Claims
  <1>. USE <1>0, MaxAttemptsAssumption
       DEF Claims, Typing, TypeOK, Locals, RowAgrees, ExclusiveClaim, RetryBudget, Owns
  <1>1. ASSUME NEW j \in Jobs, Enqueue(j) PROVE Rest2'
    BY <1>1 DEF Enqueue, workerVars
  <1>2. ASSUME NEW s \in Subs, AddSubscription(s) PROVE Rest2'
    BY <1>2 DEF AddSubscription, jobVars, workerVars
  <1>3. ASSUME NEW w \in Servers, NEW j \in Jobs, LockJob(w, j) PROVE Rest2'
    BY <1>3 DEF LockJob, Claimable, Locked, jobVars
  <1>4. ASSUME NEW w \in Servers, CommitClaim(w) PROVE Rest2'
    BY <1>4 DEF CommitClaim, MarkProcessing, Goto
  <1>5. ASSUME NEW w \in Servers, AbandonClaim(w) PROVE Rest2'
    BY <1>5 DEF AbandonClaim, MarkProcessing, Rest, jobVars
  <1>6. ASSUME NEW w \in Servers, ReadSubscriptions(w) PROVE Rest2'
    BY <1>6, SMTT(30) DEF ReadSubscriptions, Goto, jobVars
  <1>7. ASSUME NEW w \in Servers, NEW s \in Subs, Post(w, s) PROVE Rest2'
    BY <1>7 DEF Post, jobVars
  <1>8. ASSUME NEW w \in Servers, RecordDelivery(w) PROVE Rest2'
    BY <1>8 DEF RecordDelivery, jobVars
  <1>9. ASSUME NEW w \in Servers, BreakCursor(w) PROVE Rest2'
    BY <1>9 DEF BreakCursor, Goto, jobVars
  <1>10. ASSUME NEW w \in Servers, FinishDone(w) PROVE Rest2'
    BY <1>10 DEF FinishDone, Rest
  <1>11. ASSUME NEW w \in Servers, FinishFailed(w) PROVE Rest2'
    BY <1>11 DEF FinishFailed, Outcome, Goto
  <1>12. ASSUME NEW w \in Servers, Announce(w) PROVE Rest2'
    BY <1>12 DEF Announce, Rest, jobVars
  <1>13. ASSUME NEW p \in Servers, NEW j \in Jobs, Replay(p, j) PROVE Rest2'
    BY <1>13 DEF Replay, workerVars
  <1>14. ASSUME NEW p \in Servers, NEW j \in Jobs, AnnounceReplay(p, j) PROVE Rest2'
    BY <1>14 DEF AnnounceReplay, jobVars, workerVars
  <1>15. ASSUME NEW w \in Servers, Stop(w) PROVE Rest2'
    BY <1>15 DEF Stop, jobVars
  <1>16. ASSUME NEW w \in Servers, Restart(w) PROVE Rest2'
    BY <1>16 DEF Restart, Goto, jobVars
  <1>17. CASE Tick
    BY <1>17 DEF Tick, workerVars
  <1>18. ASSUME NEW d \in Dashboards, Dashboard(d) PROVE Rest2'
    BY <1>18 DEF Dashboard, jobVars, workerVars
  <1>19. CASE UNCHANGED vars
    BY <1>19 DEF vars, jobVars, workerVars
  <1>. QED
    BY <1>1, <1>2, <1>3, <1>4, <1>5, <1>6, <1>7, <1>8, <1>9, <1>10, <1>11, <1>12, <1>13, <1>14, <1>15, <1>16, <1>17, <1>18, <1>19
    DEF Next, Step, WorkOne, Deliver

LEMMA ClaimsHold == Spec => []Claims
  BY ClaimsInit, ClaimsStep, PTL DEF Spec

\* At most one worker holds a job, from its claim until its outcome is written.
THEOREM ClaimsCorrect == Spec => []ExclusiveClaim
  <1>1. Claims => ExclusiveClaim
    BY DEF Claims
  <1>. QED
    BY <1>1, ClaimsHold, PTL

\* The attempts of a job are counted exactly: none is made past the limit, and no
\* job is given up before it.
THEOREM BudgetCorrect == Spec => []RetryBudget
  <1>1. Claims => RetryBudget
    BY DEF Claims
  <1>. QED
    BY <1>1, ClaimsHold, PTL

\* A job's status only moves along the documented transitions.
THEOREM TransitionsCorrect == Spec => LegalTransitions
  <1>. DEFINE Legal ==
         \A j \in Jobs :
             \/ status'[j] = status[j]
             \/ <<status[j], status'[j]>> \in
                  {<<"absent", "pending">>, <<"pending", "processing">>,
                   <<"processing", "pending">>, <<"processing", "done">>,
                   <<"processing", "dead">>, <<"dead", "pending">>}
  <1>1. Claims /\ [Next]_vars => [Legal]_status
    <2>. SUFFICES ASSUME Claims, [Next]_vars PROVE Legal \/ UNCHANGED status
      OBVIOUS
    <2>. USE DEF Claims, Typing, TypeOK, Locals, RowAgrees
    <2>1. ASSUME NEW j \in Jobs, Enqueue(j) PROVE Legal
      BY <2>1 DEF Enqueue
    <2>2. ASSUME NEW w \in Servers, CommitClaim(w) \/ AbandonClaim(w)
          PROVE  Legal \/ UNCHANGED status
      BY <2>2 DEF CommitClaim, AbandonClaim, MarkProcessing, jobVars
    <2>3. ASSUME NEW w \in Servers, FinishDone(w) \/ FinishFailed(w)
          PROVE  Legal \/ UNCHANGED status
      BY <2>3 DEF FinishDone, FinishFailed, Outcome
    <2>4. ASSUME NEW p \in Servers, NEW j \in Jobs, Replay(p, j) PROVE Legal
      BY <2>4 DEF Replay
    <2>5. ASSUME NEW w \in Servers,
                 \/ \E j \in Jobs : LockJob(w, j)
                 \/ Deliver(w) \/ Announce(w) \/ Stop(w) \/ Restart(w)
          PROVE  UNCHANGED status
      BY <2>5 DEF LockJob, Deliver, ReadSubscriptions, Post, RecordDelivery,
                  BreakCursor, Announce, Stop, Restart, jobVars
    <2>6. ASSUME \/ \E s \in Subs : AddSubscription(s)
                 \/ \E p \in Servers, j \in Jobs : AnnounceReplay(p, j)
                 \/ \E d \in Dashboards : Dashboard(d)
                 \/ Tick
                 \/ UNCHANGED vars
          PROVE  UNCHANGED status
      BY <2>6 DEF AddSubscription, AnnounceReplay, Dashboard, Tick, vars, jobVars
    <2>. QED
      BY <2>1, <2>2, <2>3, <2>4, <2>5, <2>6, Zenon DEF Next, Step, WorkOne
  <1>. QED
    BY <1>1, ClaimsInit, ClaimsStep, PTL DEF Spec, LegalTransitions

-----------------------------------------------------------------------------
(* Deliveries.                                                             *)

\* Subscriptions are never taken away, so those a job is owed to are among
\* those any later attempt reads; and while an attempt goes on, each of them
\* is reached already or still ahead.
OwedIsEnabled == \A j \in Jobs : owed[j] \subseteq SubsOf(j)

NoneSkipped ==
    \A w \in Servers :
        pc[w] \in {"sending", "answered"} =>
            owed[job[w]] \subseteq accepted[job[w]] \union todo[w]

Coverage == OwedIsEnabled /\ NoneSkipped /\ DoneMeansDelivered

LEMMA CoverageInit == Init => Coverage
  BY DEF Init, Coverage, OwedIsEnabled, NoneSkipped, DoneMeansDelivered

LEMMA CoverageStep == Claims /\ Coverage /\ [Next]_vars => Coverage'
  <1>. SUFFICES ASSUME Claims, Coverage, [Next]_vars PROVE Coverage'
    OBVIOUS
  <1>0. Typing'
    BY TypingStep DEF Claims
  <1>. USE <1>0 DEF Claims, Typing, TypeOK, Locals, RowAgrees, ExclusiveClaim, Owns,
       Coverage, OwedIsEnabled, NoneSkipped, DoneMeansDelivered, SubsOf
  <1>1. ASSUME NEW j \in Jobs, Enqueue(j) PROVE Coverage'
    BY <1>1 DEF Enqueue, workerVars
  <1>2. ASSUME NEW s \in Subs, AddSubscription(s) PROVE Coverage'
    BY <1>2 DEF AddSubscription, jobVars, workerVars, history
  <1>3. ASSUME NEW w \in Servers, NEW j \in Jobs, LockJob(w, j) PROVE Coverage'
    BY <1>3 DEF LockJob, jobVars, history
  <1>4. ASSUME NEW w \in Servers, CommitClaim(w) PROVE Coverage'
    BY <1>4 DEF CommitClaim, MarkProcessing, Goto, history
  <1>5. ASSUME NEW w \in Servers, AbandonClaim(w) PROVE Coverage'
    BY <1>5 DEF AbandonClaim, MarkProcessing, Rest, jobVars, history
  <1>6. ASSUME NEW w \in Servers, ReadSubscriptions(w) PROVE Coverage'
    BY <1>6 DEF ReadSubscriptions, Goto, jobVars, history
  <1>7. ASSUME NEW w \in Servers, NEW s \in Subs, Post(w, s) PROVE Coverage'
    BY <1>7, SMTT(30) DEF Post, jobVars
  <1>8. ASSUME NEW w \in Servers, RecordDelivery(w) PROVE Coverage'
    BY <1>8 DEF RecordDelivery, jobVars, history
  <1>9. ASSUME NEW w \in Servers, BreakCursor(w) PROVE Coverage'
    BY <1>9 DEF BreakCursor, Goto, jobVars, history
  <1>10. ASSUME NEW w \in Servers, FinishDone(w) PROVE Coverage'
    BY <1>10 DEF FinishDone, Rest, history
  <1>11. ASSUME NEW w \in Servers, FinishFailed(w) PROVE Coverage'
    BY <1>11 DEF FinishFailed, Outcome, Goto, history
  <1>12. ASSUME NEW w \in Servers, Announce(w) PROVE Coverage'
    BY <1>12 DEF Announce, Rest, jobVars, history
  <1>13. ASSUME NEW p \in Servers, NEW j \in Jobs, Replay(p, j) PROVE Coverage'
    BY <1>13 DEF Replay, workerVars, history
  <1>14. ASSUME NEW p \in Servers, NEW j \in Jobs, AnnounceReplay(p, j) PROVE Coverage'
    BY <1>14 DEF AnnounceReplay, jobVars, workerVars, history
  <1>15. ASSUME NEW w \in Servers, Stop(w) PROVE Coverage'
    BY <1>15 DEF Stop, jobVars, history
  <1>16. ASSUME NEW w \in Servers, Restart(w) PROVE Coverage'
    BY <1>16 DEF Restart, Goto, jobVars, history
  <1>17. CASE Tick
    BY <1>17 DEF Tick, workerVars, history
  <1>18. ASSUME NEW d \in Dashboards, Dashboard(d) PROVE Coverage'
    BY <1>18 DEF Dashboard, jobVars, workerVars, history
  <1>19. CASE UNCHANGED vars
    BY <1>19 DEF vars, jobVars, workerVars, history
  <1>. QED
    BY <1>1, <1>2, <1>3, <1>4, <1>5, <1>6, <1>7, <1>8, <1>9, <1>10, <1>11, <1>12, <1>13, <1>14, <1>15, <1>16, <1>17, <1>18, <1>19
    DEF Next, Step, WorkOne, Deliver

\* A job marked done has been accepted by every subscription it was owed to.
THEOREM DeliveriesCorrect == Spec => []DoneMeansDelivered
  <1>1. Coverage => DoneMeansDelivered
    BY DEF Coverage
  <1>. QED
    BY <1>1, ClaimsInit, ClaimsStep, CoverageInit, CoverageStep, PTL DEF Spec

-----------------------------------------------------------------------------
(* The delivery log.                                                       *)

\* An attempt only posts within the organization of its job, and what it is
\* about to log as a success has been accepted.
PostsAtHome ==
    /\ \A w \in Servers : pc[w] \in {"sending", "answered"} =>
          \A s \in todo[w] : OrgOf[s] = OrgOf[job[w]]
    /\ \A j \in Jobs : \A s \in accepted[j] : OrgOf[s] = OrgOf[j]

SuccessIsReal == \A w \in Servers : pc[w] = "answered" => dest[w] \in accepted[job[w]]

Posts == PostsAtHome /\ SuccessIsReal

LEMMA PostsInit == Init => Posts
  BY DEF Init, Posts, PostsAtHome, SuccessIsReal

LEMMA PostsStep == Claims /\ Posts /\ [Next]_vars => Posts'
  <1>. SUFFICES ASSUME Claims, Posts, [Next]_vars PROVE Posts'
    OBVIOUS
  <1>0. Typing'
    BY TypingStep DEF Claims
  <1>. USE <1>0 DEF Claims, Typing, TypeOK, Locals, Posts, PostsAtHome, SuccessIsReal,
       SubsOf
  <1>1. ASSUME NEW j \in Jobs, Enqueue(j) PROVE Posts'
    BY <1>1 DEF Enqueue, workerVars
  <1>2. ASSUME NEW s \in Subs, AddSubscription(s) PROVE Posts'
    BY <1>2 DEF AddSubscription, jobVars, workerVars, history
  <1>3. ASSUME NEW w \in Servers, NEW j \in Jobs, LockJob(w, j) PROVE Posts'
    BY <1>3 DEF LockJob, jobVars, history
  <1>4. ASSUME NEW w \in Servers, CommitClaim(w) PROVE Posts'
    BY <1>4 DEF CommitClaim, MarkProcessing, Goto, history
  <1>5. ASSUME NEW w \in Servers, AbandonClaim(w) PROVE Posts'
    BY <1>5 DEF AbandonClaim, MarkProcessing, Rest, jobVars, history
  <1>6. ASSUME NEW w \in Servers, ReadSubscriptions(w) PROVE Posts'
    BY <1>6 DEF ReadSubscriptions, Goto, jobVars, history
  <1>7. ASSUME NEW w \in Servers, NEW s \in Subs, Post(w, s) PROVE Posts'
    BY <1>7, SMTT(30) DEF Post, jobVars
  <1>8. ASSUME NEW w \in Servers, RecordDelivery(w) PROVE Posts'
    BY <1>8 DEF RecordDelivery, jobVars, history
  <1>9. ASSUME NEW w \in Servers, BreakCursor(w) PROVE Posts'
    BY <1>9 DEF BreakCursor, Goto, jobVars, history
  <1>10. ASSUME NEW w \in Servers, FinishDone(w) PROVE Posts'
    BY <1>10 DEF FinishDone, Rest, history
  <1>11. ASSUME NEW w \in Servers, FinishFailed(w) PROVE Posts'
    BY <1>11 DEF FinishFailed, Outcome, Goto, history
  <1>12. ASSUME NEW w \in Servers, Announce(w) PROVE Posts'
    BY <1>12 DEF Announce, Rest, jobVars, history
  <1>13. ASSUME NEW p \in Servers, NEW j \in Jobs, Replay(p, j) PROVE Posts'
    BY <1>13 DEF Replay, workerVars, history
  <1>14. ASSUME NEW p \in Servers, NEW j \in Jobs, AnnounceReplay(p, j) PROVE Posts'
    BY <1>14 DEF AnnounceReplay, jobVars, workerVars, history
  <1>15. ASSUME NEW w \in Servers, Stop(w) PROVE Posts'
    BY <1>15 DEF Stop, jobVars, history
  <1>16. ASSUME NEW w \in Servers, Restart(w) PROVE Posts'
    BY <1>16 DEF Restart, Goto, jobVars, history
  <1>17. CASE Tick
    BY <1>17 DEF Tick, workerVars, history
  <1>18. ASSUME NEW d \in Dashboards, Dashboard(d) PROVE Posts'
    BY <1>18 DEF Dashboard, jobVars, workerVars, history
  <1>19. CASE UNCHANGED vars
    BY <1>19 DEF vars, jobVars, workerVars, history
  <1>. QED
    BY <1>1, <1>2, <1>3, <1>4, <1>5, <1>6, <1>7, <1>8, <1>9, <1>10, <1>11, <1>12, <1>13, <1>14, <1>15, <1>16, <1>17, <1>18, <1>19
    DEF Next, Step, WorkOne, Deliver

LEMMA LogStep == Claims /\ Posts /\ LogIsTruthful /\ [Next]_vars => LogIsTruthful'
  <1>. SUFFICES ASSUME Claims, Posts, Posts', LogIsTruthful, [Next]_vars
                PROVE  LogIsTruthful'
    BY PostsStep
  <1>. USE DEF Posts, PostsAtHome, LogIsTruthful
  <1>1. ASSUME NEW w \in Servers, RecordDelivery(w) PROVE LogIsTruthful'
    <2>. SUFFICES ASSUME NEW j \in Jobs, NEW s \in Subs, <<s, TRUE>> \in rows'[j]
                  PROVE  s \in accepted[j]
      BY <1>1 DEF RecordDelivery, history
    <2>1. CASE <<s, TRUE>> \in rows[j]
      BY <2>1
    <2>2. CASE <<s, TRUE>> \notin rows[j]
      <3>1. j = job[w] /\ <<s, TRUE>> = <<dest[w], pc[w] = "answered">>
        <4>1. ASSUME NEW row, NEW entry, entry \in rows'[j], entry \notin rows[j],
                     rows' = [rows EXCEPT ![job[w]] = @ \union {row}]
              PROVE  j = job[w] /\ entry = row
          BY <4>1 DEF Claims, Typing, TypeOK
        <4>. QED
          BY <1>1, <2>2, <4>1, Zenon DEF RecordDelivery
      <3>2. s = dest[w] /\ pc[w] = "answered"
        BY <3>1
      <3>. QED
        BY <3>1, <3>2 DEF SuccessIsReal
    <2>. QED
      BY <2>1, <2>2
  <1>2. CASE rows' = rows /\ \A j \in Jobs : accepted[j] \subseteq accepted'[j]
    BY <1>2
  <1>3. ASSUME NEW w \in Servers, NEW s \in Subs, Post(w, s)
        PROVE  rows' = rows /\ \A j \in Jobs : accepted[j] \subseteq accepted'[j]
    BY <1>3 DEF Post, Claims, Typing, TypeOK
  <1>4. ASSUME NEW w \in Servers,
               \/ \E j \in Jobs : LockJob(w, j)
               \/ CommitClaim(w) \/ AbandonClaim(w) \/ ReadSubscriptions(w)
               \/ BreakCursor(w) \/ FinishDone(w) \/ FinishFailed(w) \/ Announce(w)
               \/ Stop(w) \/ Restart(w)
        PROVE  rows' = rows /\ accepted' = accepted
    BY <1>4 DEF LockJob, CommitClaim, AbandonClaim, MarkProcessing, ReadSubscriptions,
                BreakCursor, FinishDone, FinishFailed, Announce, Stop, Restart, history
  <1>5. ASSUME \/ \E j \in Jobs : Enqueue(j)
               \/ \E s \in Subs : AddSubscription(s)
               \/ \E p \in Servers, j \in Jobs : Replay(p, j) \/ AnnounceReplay(p, j)
               \/ \E d \in Dashboards : Dashboard(d)
               \/ Tick
               \/ UNCHANGED vars
        PROVE  rows' = rows /\ accepted' = accepted
    BY <1>5 DEF Enqueue, AddSubscription, Replay, AnnounceReplay, Dashboard, Tick, vars,
                history
  <1>. QED
    BY <1>1, <1>2, <1>3, <1>4, <1>5 DEF Next, Step, WorkOne, Deliver

\* The delivery log never claims a success that did not happen, and no job
\* reaches a subscription of another organization.
THEOREM LogCorrect == Spec => []LogIsTruthful
  <1>1. Init => LogIsTruthful
    BY DEF Init, LogIsTruthful
  <1>. QED
    BY <1>1, ClaimsInit, ClaimsStep, PostsInit, PostsStep, LogStep, PTL DEF Spec

-----------------------------------------------------------------------------
(* No job is lost without a crash or a failed statement.                   *)

LEMMA NoOrphanStep ==
  ASSUME "crash" \notin Faults, "db" \notin Faults
  PROVE  Claims /\ NoOrphan /\ [Next]_vars => NoOrphan'
  <1>. SUFFICES ASSUME Claims, NoOrphan, [Next]_vars PROVE NoOrphan'
    OBVIOUS
  <1>. USE DEF Claims, Typing, TypeOK, Locals, RowAgrees, NoOrphan, Owns
  <1>1. ASSUME NEW j \in Jobs, Enqueue(j) PROVE NoOrphan'
    BY <1>1 DEF Enqueue, workerVars
  <1>2. ASSUME NEW s \in Subs, AddSubscription(s) PROVE NoOrphan'
    BY <1>2 DEF AddSubscription, jobVars, workerVars, history
  <1>3. ASSUME NEW w \in Servers, NEW j \in Jobs, LockJob(w, j) PROVE NoOrphan'
    BY <1>3 DEF LockJob, jobVars, history
  <1>4. ASSUME NEW w \in Servers, CommitClaim(w) PROVE NoOrphan'
    BY <1>4 DEF CommitClaim, MarkProcessing, Goto, history
  <1>5. ASSUME NEW w \in Servers, AbandonClaim(w) PROVE NoOrphan'
    BY <1>5 DEF AbandonClaim, MarkProcessing, Rest, jobVars, history
  <1>6. ASSUME NEW w \in Servers, ReadSubscriptions(w) PROVE NoOrphan'
    BY <1>6 DEF ReadSubscriptions, Goto, jobVars, history
  <1>7. ASSUME NEW w \in Servers, NEW s \in Subs, Post(w, s) PROVE NoOrphan'
    BY <1>7 DEF Post, jobVars
  <1>8. ASSUME NEW w \in Servers, RecordDelivery(w) PROVE NoOrphan'
    BY <1>8 DEF RecordDelivery, jobVars, history
  <1>9. ASSUME NEW w \in Servers, BreakCursor(w) PROVE NoOrphan'
    BY <1>9 DEF BreakCursor, Goto, jobVars, history
  <1>10. ASSUME NEW w \in Servers, FinishDone(w) PROVE NoOrphan'
    BY <1>10 DEF FinishDone, Rest, history
  <1>11. ASSUME NEW w \in Servers, FinishFailed(w) PROVE NoOrphan'
    BY <1>11 DEF FinishFailed, Outcome, Goto, history
  <1>12. ASSUME NEW w \in Servers, Announce(w) PROVE NoOrphan'
    BY <1>12 DEF Announce, Rest, jobVars, history
  <1>13. ASSUME NEW p \in Servers, NEW j \in Jobs, Replay(p, j) PROVE NoOrphan'
    BY <1>13 DEF Replay, workerVars, history
  <1>14. ASSUME NEW p \in Servers, NEW j \in Jobs, AnnounceReplay(p, j) PROVE NoOrphan'
    BY <1>14 DEF AnnounceReplay, jobVars, workerVars, history
  <1>15. ASSUME NEW w \in Servers, Stop(w) PROVE NoOrphan'
    BY <1>15 DEF Stop, jobVars, history
  <1>16. ASSUME NEW w \in Servers, Restart(w) PROVE NoOrphan'
    BY <1>16 DEF Restart, Goto, jobVars, history
  <1>17. CASE Tick
    BY <1>17 DEF Tick, workerVars, history
  <1>18. ASSUME NEW d \in Dashboards, Dashboard(d) PROVE NoOrphan'
    BY <1>18 DEF Dashboard, jobVars, workerVars, history
  <1>19. CASE UNCHANGED vars
    BY <1>19 DEF vars, jobVars, workerVars, history
  <1>. QED
    BY <1>1, <1>2, <1>3, <1>4, <1>5, <1>6, <1>7, <1>8, <1>9, <1>10, <1>11, <1>12, <1>13, <1>14, <1>15, <1>16, <1>17, <1>18, <1>19
    DEF Next, Step, WorkOne, Deliver

\* While processes do not stop and statements do not fail, a job that is being
\* processed is always in the hands of a worker.
THEOREM NoneOrphaned ==
  ASSUME "crash" \notin Faults, "db" \notin Faults
  PROVE  Spec => []NoOrphan
  <1>1. Init => NoOrphan
    BY DEF Init, NoOrphan
  <1>2. Claims /\ NoOrphan /\ [Next]_vars => NoOrphan'
    BY NoOrphanStep
  <1>. QED
    BY <1>1, <1>2, ClaimsInit, ClaimsStep, PTL DEF Spec

-----------------------------------------------------------------------------
(* The log explains the outcome.                                           *)

\* The subscriptions some rows log as reached, and those they log as refusing.
Successes(log) == {s \in Subs : <<s, TRUE>> \in log}
Refused(log) == {s \in Subs : <<s, FALSE>> \in log}

LEMMA PutRow ==
  ASSUME NEW log, NEW s \in Subs
  PROVE  /\ Successes(log \union {<<s, TRUE>>}) = Successes(log) \union {s}
         /\ Refused(log \union {<<s, TRUE>>}) = Refused(log)
         /\ Successes(log \union {<<s, FALSE>>}) = Successes(log)
         /\ Refused(log \union {<<s, FALSE>>}) = Refused(log) \union {s}
  <1>1. ASSUME NEW t, NEW a, NEW b
        PROVE  <<t, a>> \in log \union {<<s, b>>} <=> <<t, a>> \in log \/ (t = s /\ a = b)
    OBVIOUS
  <1>2. TRUE # FALSE
    OBVIOUS
  <1>3. \A t : <<t, TRUE>> \in log \union {<<s, TRUE>>} <=> <<t, TRUE>> \in log \/ t = s
    BY <1>1, Zenon
  <1>4. \A t : <<t, FALSE>> \in log \union {<<s, TRUE>>} <=> <<t, FALSE>> \in log
    BY <1>1, <1>2, Zenon
  <1>5. \A t : <<t, TRUE>> \in log \union {<<s, FALSE>>} <=> <<t, TRUE>> \in log
    BY <1>1, <1>2, Zenon
  <1>6. \A t : <<t, FALSE>> \in log \union {<<s, FALSE>>} <=> <<t, FALSE>> \in log \/ t = s
    BY <1>1, Zenon
  <1>. QED
    BY <1>3, <1>4, <1>5, <1>6, Zenon DEF Successes, Refused

\* While statements do not fail, an attempt has logged a success for every
\* subscription it is past, and has failed only after logging a refusal.
Logged ==
    \A w \in Servers :
        /\ pc[w] = "sending" => owed[job[w]] \subseteq Successes(rows[job[w]]) \union todo[w]
        /\ pc[w] = "answered" =>
              owed[job[w]] \subseteq Successes(rows[job[w]]) \union todo[w] \union {dest[w]}
        /\ pc[w] = "failed" => Refused(rows[job[w]]) # {}

Settled ==
    \A j \in Jobs :
        /\ status[j] = "done" => owed[j] \subseteq Successes(rows[j])
        /\ status[j] = "dead" => Refused(rows[j]) # {}

Explained == Logged /\ Settled

LEMMA ExplainedInit == Init => Explained
  BY DEF Init, Explained, Logged, Settled

LEMMA ExplainedStep ==
  ASSUME "db" \notin Faults
  PROVE  Claims /\ Coverage /\ Explained /\ [Next]_vars => Explained'
  <1>. SUFFICES ASSUME Claims, Coverage, Explained, [Next]_vars PROVE Explained'
    OBVIOUS
  <1>. USE DEF Claims, Typing, TypeOK, Locals, RowAgrees, ExclusiveClaim, Owns, Coverage,
       OwedIsEnabled, Explained, Logged, Settled
  <1>1. ASSUME NEW j \in Jobs, Enqueue(j) PROVE Explained'
    BY <1>1, ZenonT(40) DEF Enqueue, workerVars
  <1>2. ASSUME NEW s \in Subs, AddSubscription(s) PROVE Explained'
    BY <1>2 DEF AddSubscription, jobVars, workerVars, history
  <1>3. ASSUME NEW w \in Servers, NEW j \in Jobs, LockJob(w, j) PROVE Explained'
    BY <1>3 DEF LockJob, jobVars, history
  <1>4. ASSUME NEW w \in Servers, CommitClaim(w) PROVE Explained'
    <2>1. /\ status' = [status EXCEPT ![job[w]] = "processing"] /\ job[w] \in Jobs
          /\ pc' = [pc EXCEPT ![w] = "claimed"]
          /\ UNCHANGED <<job, todo, dest, rows, owed>>
      BY <1>4 DEF CommitClaim, MarkProcessing, Goto, history
    <2>2. Logged'
      BY <2>1
    <2>3. Settled'
      BY <2>1
    <2>. QED
      BY <2>2, <2>3
  <1>5. ASSUME NEW w \in Servers, AbandonClaim(w) PROVE Explained'
    BY <1>5 DEF AbandonClaim, MarkProcessing, Rest, jobVars, history
  <1>6. ASSUME NEW w \in Servers, ReadSubscriptions(w) PROVE Explained'
    <2>1. /\ pc' = [pc EXCEPT ![w] = "sending"] /\ job[w] \in Jobs
          /\ todo' = [todo EXCEPT ![w] = SubsOf(job[w])]
          /\ UNCHANGED <<status, job, dest, rows, owed>>
      BY <1>6 DEF ReadSubscriptions, Goto, jobVars, history
    <2>2. owed[job[w]] \subseteq SubsOf(job[w])
      BY <2>1
    <2>3. Logged'
      BY <2>1, <2>2
    <2>4. Settled'
      BY <2>1
    <2>. QED
      BY <2>3, <2>4
  <1>7. ASSUME NEW w \in Servers, NEW s \in Subs, Post(w, s) PROVE Explained'
    BY <1>7 DEF Post, jobVars
  <1>8. ASSUME NEW w \in Servers, RecordDelivery(w) PROVE Explained'
    <2>0. dest[w] \in Subs /\ job[w] \in Jobs
      BY <1>8 DEF RecordDelivery
    <2>1. CASE pc[w] = "answered"
      <3>1. rows' = [rows EXCEPT ![job[w]] = @ \union {<<dest[w], TRUE>>}]
        BY <1>8, <2>1 DEF RecordDelivery
      <3>2. /\ Successes(rows'[job[w]]) = Successes(rows[job[w]]) \union {dest[w]}
            /\ Refused(rows'[job[w]]) = Refused(rows[job[w]])
        <4>1. rows'[job[w]] = rows[job[w]] \union {<<dest[w], TRUE>>}
          BY <2>0, <3>1
        <4>2. /\ Successes(rows[job[w]] \union {<<dest[w], TRUE>>}) =
                    Successes(rows[job[w]]) \union {dest[w]}
              /\ Refused(rows[job[w]] \union {<<dest[w], TRUE>>}) =
                    Refused(rows[job[w]])
          BY <2>0, PutRow, ZenonT(40)
        <4>. QED
          BY <4>1, <4>2
      <3>3. \A j \in Jobs \ {job[w]} : rows'[j] = rows[j]
        BY <3>1
      <3>. QED
        BY <1>8, <2>1, <3>2, <3>3 DEF RecordDelivery, jobVars, history
    <2>2. CASE pc[w] = "refused"
      <3>1. rows' = [rows EXCEPT ![job[w]] = @ \union {<<dest[w], FALSE>>}]
        BY <1>8, <2>2 DEF RecordDelivery
      <3>2. /\ Successes(rows'[job[w]]) = Successes(rows[job[w]])
            /\ Refused(rows'[job[w]]) = Refused(rows[job[w]]) \union {dest[w]}
        <4>1. rows'[job[w]] = rows[job[w]] \union {<<dest[w], FALSE>>}
          BY <2>0, <3>1
        <4>2. /\ Successes(rows[job[w]] \union {<<dest[w], FALSE>>}) =
                    Successes(rows[job[w]])
              /\ Refused(rows[job[w]] \union {<<dest[w], FALSE>>}) =
                    Refused(rows[job[w]]) \union {dest[w]}
          BY <2>0, PutRow
        <4>. QED
          BY <4>1, <4>2
      <3>3. \A j \in Jobs \ {job[w]} : rows'[j] = rows[j]
        BY <3>1
      <3>4. /\ pc' = [pc EXCEPT ![w] = "failed"] /\ dest' = [dest EXCEPT ![w] = NoSub]
            /\ UNCHANGED <<status, job, todo, owed>>
        BY <1>8, <2>2 DEF RecordDelivery, jobVars, history
      <3>5. \A v \in Servers \ {w} : pc[v] \in Busy => job[v] # job[w]
        BY <2>2
      <3>6. Logged'
        <4>. DEFINE Kept(v) ==
                /\ pc[v] = "sending" =>
                      owed[job[v]] \subseteq Successes(rows[job[v]]) \union todo[v]
                /\ pc[v] = "answered" =>
                      owed[job[v]] \subseteq Successes(rows[job[v]]) \union todo[v] \union {dest[v]}
                /\ pc[v] = "failed" => Refused(rows[job[v]]) # {}
        <4>1. Kept(w)'
          <5>1. Refused(rows'[job[w]]) # {}
            BY <3>2
          <5>2. pc'[w] = "failed" /\ job'[w] = job[w]
            BY <3>4
          <5>. QED
            BY <5>1, <5>2
        <4>2. ASSUME NEW v \in Servers \ {w} PROVE Kept(v)'
          <5>1. pc'[v] = pc[v] /\ dest'[v] = dest[v]
            BY <3>4
          <5>2. pc[v] \in Busy => rows'[job[v]] = rows[job[v]]
            BY <3>3, <3>5
          <5>. QED
            BY <3>4, <5>1, <5>2
        <4>. QED
          BY <4>1, <4>2
      <3>7. Settled'
        BY <2>0, <3>2, <3>3, <3>4
      <3>. QED
        BY <3>6, <3>7
    <2>. QED
      BY <1>8, <2>1, <2>2 DEF RecordDelivery
  <1>9. ASSUME NEW w \in Servers, BreakCursor(w) PROVE Explained'
    BY <1>9 DEF BreakCursor, Goto, jobVars, history
  <1>10. ASSUME NEW w \in Servers, FinishDone(w) PROVE Explained'
    BY <1>10, SMTT(30) DEF FinishDone, Rest, history
  <1>11. ASSUME NEW w \in Servers, FinishFailed(w) PROVE Explained'
    BY <1>11 DEF FinishFailed, Outcome, Goto, history
  <1>12. ASSUME NEW w \in Servers, Announce(w) PROVE Explained'
    BY <1>12 DEF Announce, Rest, jobVars, history
  <1>13. ASSUME NEW p \in Servers, NEW j \in Jobs, Replay(p, j) PROVE Explained'
    BY <1>13, ZenonT(40) DEF Replay, workerVars, history
  <1>14. ASSUME NEW p \in Servers, NEW j \in Jobs, AnnounceReplay(p, j) PROVE Explained'
    BY <1>14 DEF AnnounceReplay, jobVars, workerVars, history
  <1>15. ASSUME NEW w \in Servers, Stop(w) PROVE Explained'
    BY <1>15 DEF Stop, jobVars, history
  <1>16. ASSUME NEW w \in Servers, Restart(w) PROVE Explained'
    BY <1>16 DEF Restart, Goto, jobVars, history
  <1>17. CASE Tick
    BY <1>17 DEF Tick, workerVars, history
  <1>18. ASSUME NEW d \in Dashboards, Dashboard(d) PROVE Explained'
    BY <1>18 DEF Dashboard, jobVars, workerVars, history
  <1>19. CASE UNCHANGED vars
    BY <1>19 DEF vars, jobVars, workerVars, history
  <1>. QED
    BY <1>1, <1>2, <1>3, <1>4, <1>5, <1>6, <1>7, <1>8, <1>9, <1>10, <1>11, <1>12, <1>13, <1>14, <1>15, <1>16, <1>17, <1>18, <1>19
    DEF Next, Step, WorkOne, Deliver

\* Where statements do not fail, a done job has a logged success for every
\* subscription it was owed to, and a dead one a logged refusal.
THEOREM LogComplete ==
  ASSUME "db" \notin Faults
  PROVE  Spec => []LogExplainsOutcome
  <1>1. Claims /\ Explained => LogExplainsOutcome
    <2>. SUFFICES ASSUME Claims, Explained, NEW j \in Jobs
                  PROVE  /\ status[j] = "done" => owed[j] \X {TRUE} \subseteq rows[j]
                         /\ status[j] = "dead" => \E s \in Subs : <<s, FALSE>> \in rows[j]
      BY DEF LogExplainsOutcome
    <2>1. CASE status[j] = "done"
      <3>1. \A s \in owed[j] : <<s, TRUE>> \in rows[j]
        BY <2>1 DEF Explained, Settled, Successes
      <3>2. ASSUME NEW r \in owed[j] \X {TRUE} PROVE r \in rows[j]
        <4>1. r = <<r[1], r[2]>> /\ r[1] \in owed[j]
          BY <3>2
        <4>2. r[2] = TRUE
          BY <3>2, Zenon
        <4>3. r = <<r[1], TRUE>>
          BY <4>1, <4>2, Zenon
        <4>. QED
          BY <3>1, <4>1, <4>3, Zenon
      <3>3. owed[j] \X {TRUE} \subseteq rows[j]
        BY <3>2, Zenon
      <3>. QED
        BY <2>1, <3>3
    <2>2. CASE status[j] = "dead"
      <3>1. Refused(rows[j]) # {}
        BY <2>2 DEF Explained, Settled
      <3>. QED
        BY <2>2, <3>1 DEF Refused
    <2>. QED
      BY <2>1, <2>2
  <1>2. Claims /\ Coverage /\ Explained /\ [Next]_vars => Explained'
    BY ExplainedStep
  <1>. QED
    BY <1>1, <1>2, ClaimsHold, CoverageInit, CoverageStep, ExplainedInit, PTL DEF Spec

-----------------------------------------------------------------------------
(* Back-off.                                                               *)

LEMMA FullBackoffStep ==
  ASSUME NEW n \in Nat
  PROVE  FullBackoff(n) \in Nat /\ FullBackoff(n + 1) = FullBackoff(n) + Backoff(n)
  <1>1. CASE n < 6
    <2>1. n \in {0, 1, 2, 3, 4, 5}
      BY <1>1
    <2>2. n = 0 => FullBackoff(n) = 0 /\ FullBackoff(n + 1) = 1 /\ Backoff(n) = 1
      BY DEF FullBackoff, Backoff
    <2>3. n = 1 => FullBackoff(n) = 1 /\ FullBackoff(n + 1) = 3 /\ Backoff(n) = 2
      BY DEF FullBackoff, Backoff
    <2>4. n = 2 => FullBackoff(n) = 3 /\ FullBackoff(n + 1) = 7 /\ Backoff(n) = 4
      BY DEF FullBackoff, Backoff
    <2>5. n = 3 => FullBackoff(n) = 7 /\ FullBackoff(n + 1) = 15 /\ Backoff(n) = 8
      BY DEF FullBackoff, Backoff
    <2>6. n = 4 => FullBackoff(n) = 15 /\ FullBackoff(n + 1) = 31 /\ Backoff(n) = 16
      BY DEF FullBackoff, Backoff
    <2>7. n = 5 => FullBackoff(n) = 31 /\ FullBackoff(n + 1) = 63 /\ Backoff(n) = 32
      BY DEF FullBackoff, Backoff
    <2>. QED
      BY <2>1, <2>2, <2>3, <2>4, <2>5, <2>6, <2>7
  <1>2. CASE ~(n < 6)
    BY <1>2 DEF FullBackoff, Backoff
  <1>. QED
    BY <1>1, <1>2

LEMMA FullBackoffMonotone ==
  ASSUME NEW m \in Nat, NEW n \in Nat, m <= n
  PROVE  FullBackoff(m) <= FullBackoff(n)
  <1>1. 2^0 = 1 /\ 2^1 = 2 /\ 2^2 = 4 /\ 2^3 = 8 /\ 2^4 = 16 /\ 2^5 = 32
    OBVIOUS
  <1>2. \A k \in Nat : k < 6 =>
          \/ k = 0 /\ FullBackoff(k) = 0
          \/ k = 1 /\ FullBackoff(k) = 1
          \/ k = 2 /\ FullBackoff(k) = 3
          \/ k = 3 /\ FullBackoff(k) = 7
          \/ k = 4 /\ FullBackoff(k) = 15
          \/ k = 5 /\ FullBackoff(k) = 31
    <2>1. ASSUME NEW k \in Nat, k < 6 PROVE k \in {0, 1, 2, 3, 4, 5}
      BY <2>1
    <2>2. /\ FullBackoff(0) = 0 /\ FullBackoff(1) = 1 /\ FullBackoff(2) = 3
          /\ FullBackoff(3) = 7 /\ FullBackoff(4) = 15 /\ FullBackoff(5) = 31
      BY <1>1 DEF FullBackoff
    <2>. QED
      BY <2>1, <2>2
  <1>3. \A k \in Nat : ~(k < 6) => FullBackoff(k) = 63 + 32 * (k - 6)
    BY DEF FullBackoff
  <1>. QED
    BY <1>2, <1>3

\* The time a pending job has waited and still has to wait covers the back-offs of
\* its attempts; a job in processing has waited them out, the last excepted.  A
\* job can only be claimed once its wait is over.
Patience ==
    /\ \A j \in Jobs :
        /\ status[j] = "absent" => attempts[j] = 0
        /\ status[j] = "pending" => age[j] + wait[j] >= FullBackoff(attempts[j])
        /\ status[j] = "processing" => age[j] >= FullBackoff(attempts[j] - 1)
    /\ \A w \in Servers : pc[w] = "locked" => wait[job[w]] = 0

Patient == Patience /\ DeadOnlyAfterFullBackoff

LEMMA PatientInit == Init => Patient
  <1>1. FullBackoff(0) = 0
    BY DEF FullBackoff
  <1>. QED
    BY <1>1 DEF Init, Patient, Patience, DeadOnlyAfterFullBackoff

LEMMA PatientStep ==
  ASSUME MaxAge >= FullBackoff(MaxAttempts - 1)
  PROVE  Claims /\ Patient /\ [Next]_vars => Patient'
  <1>. SUFFICES ASSUME Claims, Patient, [Next]_vars PROVE Patient'
    OBVIOUS
  <1>0. /\ FullBackoff(0) = 0
        /\ \A n \in Nat : FullBackoff(n) \in Nat
        /\ \A n \in Nat : FullBackoff(n + 1) = FullBackoff(n) + Backoff(n)
        /\ \A n \in Nat : n < MaxAttempts => MaxAge >= FullBackoff(n)
    <2>1. FullBackoff(0) = 0
      BY DEF FullBackoff
    <2>2. ASSUME NEW n \in Nat, n < MaxAttempts PROVE MaxAge >= FullBackoff(n)
      <3>1. MaxAttempts - 1 \in Nat /\ n <= MaxAttempts - 1
        BY <2>2, MaxAttemptsAssumption
      <3>2. FullBackoff(n) <= FullBackoff(MaxAttempts - 1)
        BY <3>1, FullBackoffMonotone
      <3>3. FullBackoff(n) \in Nat /\ FullBackoff(MaxAttempts - 1) \in Nat
        BY <3>1, FullBackoffStep
      <3>. QED
        BY <3>2, <3>3, MaxAgeAssumption
    <2>. QED
      BY <2>1, <2>2, FullBackoffStep
  <1>. USE MaxAttemptsAssumption, MaxAgeAssumption
       DEF Claims, Typing, TypeOK, Locals, RowAgrees, RetryBudget, Patient, Patience,
       DeadOnlyAfterFullBackoff
  <1>1. ASSUME NEW j \in Jobs, Enqueue(j) PROVE Patient'
    BY <1>0, <1>1 DEF Enqueue, workerVars
  <1>2. ASSUME NEW s \in Subs, AddSubscription(s) PROVE Patient'
    BY <1>2 DEF AddSubscription, jobVars, workerVars, history
  <1>3. ASSUME NEW w \in Servers, NEW j \in Jobs, LockJob(w, j) PROVE Patient'
    BY <1>3 DEF LockJob, Claimable, jobVars, history
  <1>20. ASSUME NEW w \in Servers, pc[w] = "locked", MarkProcessing(w), pc'[w] # "locked",
                \A v \in Servers \ {w} : pc'[v] = pc[v] /\ job'[v] = job[v]
         PROVE  Patient'
    <2>1. /\ status' = [status EXCEPT ![job[w]] = "processing"] /\ job[w] \in Jobs
          /\ attempts' = [attempts EXCEPT ![job[w]] = @ + 1]
          /\ age' = age /\ wait' = wait
      BY <1>20 DEF MarkProcessing, history
    <2>2. age[job[w]] >= FullBackoff(attempts'[job[w]] - 1)
      <3>1. attempts'[job[w]] - 1 = attempts[job[w]] /\ wait[job[w]] = 0
        <4>1. attempts[job[w]] \in Nat
          BY <2>1
        <4>. QED
          BY <1>20, <2>1, <4>1
      <3>2. age[job[w]] + wait[job[w]] >= FullBackoff(attempts[job[w]])
        BY <1>20, <2>1
      <3>3. age[job[w]] \in Nat
        BY <2>1
      <3>. QED
        BY <3>1, <3>2, <3>3
    <2>3. \A j \in Jobs \ {job[w]} : status'[j] = status[j] /\ attempts'[j] = attempts[j]
      BY <2>1
    <2>. QED
      BY <1>20, <2>1, <2>2, <2>3
  <1>4. ASSUME NEW w \in Servers, CommitClaim(w) PROVE Patient'
    BY <1>4, <1>20 DEF CommitClaim, Goto
  <1>5. ASSUME NEW w \in Servers, AbandonClaim(w) PROVE Patient'
    <2>1. /\ pc[w] = "locked" /\ pc'[w] # "locked"
          /\ \A v \in Servers \ {w} : pc'[v] = pc[v] /\ job'[v] = job[v]
      BY <1>5 DEF AbandonClaim, Rest
    <2>2. CASE MarkProcessing(w)
      BY <1>20, <2>1, <2>2
    <2>3. CASE UNCHANGED <<status, attempts, wait, age>>
      BY <2>1, <2>3
    <2>. QED
      BY <1>5, <2>2, <2>3 DEF AbandonClaim, jobVars, history
  <1>6. ASSUME NEW w \in Servers, ReadSubscriptions(w) PROVE Patient'
    BY <1>6 DEF ReadSubscriptions, Goto, jobVars, history
  <1>7. ASSUME NEW w \in Servers, NEW s \in Subs, Post(w, s) PROVE Patient'
    BY <1>7 DEF Post, jobVars
  <1>8. ASSUME NEW w \in Servers, RecordDelivery(w) PROVE Patient'
    BY <1>8 DEF RecordDelivery, jobVars, history
  <1>9. ASSUME NEW w \in Servers, BreakCursor(w) PROVE Patient'
    BY <1>9 DEF BreakCursor, Goto, jobVars, history
  <1>10. ASSUME NEW w \in Servers, FinishDone(w) PROVE Patient'
    BY <1>10 DEF FinishDone, Rest, history
  <1>11. ASSUME NEW w \in Servers, FinishFailed(w) PROVE Patient'
    <2>1. /\ job[w] \in Jobs /\ tries[w] \in Nat /\ status[job[w]] = "processing"
          /\ attempts[job[w]] = tries[w] + 1 /\ pc[w] = "failed"
          /\ UNCHANGED <<attempts, age, job>>
          /\ \A v \in Servers : pc'[v] = "locked" => pc[v] = "locked"
      BY <1>11 DEF FinishFailed, Goto, history
    <2>2. CASE UNCHANGED <<status, wait>>
      BY <2>1, <2>2
    <2>3. CASE /\ status' = [status EXCEPT ![job[w]] = Outcome(w)]
               /\ wait' = [wait EXCEPT ![job[w]] = Backoff(tries[w])]
      <3>1. age[job[w]] >= FullBackoff(tries[w])
        <4>1. age[job[w]] >= FullBackoff(attempts[job[w]] - 1) /\ attempts[job[w]] - 1 = tries[w]
          BY <2>1
        <4>. QED
          BY <4>1
      <3>2. age[job[w]] + Backoff(tries[w]) >= FullBackoff(attempts[job[w]])
        BY <1>0, <2>1, <3>1, BackoffType
      <3>3. Outcome(w) = "dead" => tries[w] = MaxAttempts - 1
        BY <2>1 DEF Outcome
      <3>4. Outcome(w) \in {"dead", "pending"}
        BY DEF Outcome
      <3>5. \A j \in Jobs \ {job[w]} : status'[j] = status[j] /\ wait'[j] = wait[j]
        BY <2>3
      <3>6. status'[job[w]] = Outcome(w) /\ wait'[job[w]] = Backoff(tries[w])
        BY <2>1, <2>3
      <3>7. \A v \in Servers : pc[v] = "locked" => job[v] # job[w]
        BY <2>1
      <3>8. ASSUME NEW j \in Jobs
            PROVE  /\ status'[j] = "absent" => attempts[j] = 0
                   /\ status'[j] = "pending" => age[j] + wait'[j] >= FullBackoff(attempts[j])
                   /\ status'[j] = "processing" => age[j] >= FullBackoff(attempts[j] - 1)
                   /\ status'[j] = "dead" => age[j] >= FullBackoff(MaxAttempts - 1)
        <4>1. CASE j = job[w]
          BY <3>1, <3>2, <3>3, <3>4, <3>6, <4>1
        <4>2. CASE j # job[w]
          BY <3>5, <4>2
        <4>. QED
          BY <4>1, <4>2
      <3>9. \A v \in Servers : pc'[v] = "locked" => wait'[job[v]] = 0
        BY <2>1, <3>5, <3>7
      <3>. QED
        BY <2>1, <3>8, <3>9
    <2>. QED
      BY <1>11, <2>2, <2>3 DEF FinishFailed
  <1>12. ASSUME NEW w \in Servers, Announce(w) PROVE Patient'
    BY <1>12 DEF Announce, Rest, jobVars, history
  <1>13. ASSUME NEW p \in Servers, NEW j \in Jobs, Replay(p, j) PROVE Patient'
    BY <1>0, <1>13 DEF Replay, workerVars, history
  <1>14. ASSUME NEW p \in Servers, NEW j \in Jobs, AnnounceReplay(p, j) PROVE Patient'
    BY <1>14 DEF AnnounceReplay, jobVars, workerVars, history
  <1>15. ASSUME NEW w \in Servers, Stop(w) PROVE Patient'
    BY <1>15 DEF Stop, jobVars, history
  <1>16. ASSUME NEW w \in Servers, Restart(w) PROVE Patient'
    BY <1>16 DEF Restart, Goto, jobVars, history
  <1>17. CASE Tick
    <2>1. UNCHANGED <<status, attempts, pc, job>>
      BY <1>17 DEF Tick, workerVars
    <2>2. ASSUME NEW j \in Jobs
          PROVE  /\ status[j] = "pending" => age'[j] + wait'[j] >= FullBackoff(attempts[j])
                 /\ age'[j] >= age[j]
                 /\ wait[j] = 0 => wait'[j] = 0
      <3>1. /\ wait'[j] = IF wait[j] > 0 THEN wait[j] - 1 ELSE 0
            /\ age'[j] = IF status[j] \in {"pending", "processing"} /\ age[j] < MaxAge
                         THEN age[j] + 1 ELSE age[j]
        BY <1>17 DEF Tick
      <3>2. age[j] \in Nat /\ wait[j] \in Nat
        OBVIOUS
      <3>3. ASSUME status[j] = "pending"
            PROVE  /\ age[j] + wait[j] >= FullBackoff(attempts[j])
                   /\ FullBackoff(attempts[j]) \in Nat /\ MaxAge >= FullBackoff(attempts[j])
        BY <1>0, <3>3
      <3>. QED
        BY <3>1, <3>2, <3>3
    <2>3. \A j \in Jobs : FullBackoff(attempts[j]) \in Nat /\ age'[j] \in Nat /\ age[j] \in Nat
      <3>1. age' \in [Jobs -> Nat]
        BY <1>17 DEF Tick
      <3>. QED
        BY <1>0, <3>1
    <2>4. \A j \in Jobs : status[j] = "processing" => age'[j] >= FullBackoff(attempts[j] - 1)
      <3>1. ASSUME NEW j \in Jobs, status[j] = "processing"
            PROVE  FullBackoff(attempts[j] - 1) \in Nat /\ age[j] >= FullBackoff(attempts[j] - 1)
        <4>1. attempts[j] - 1 \in Nat
          BY <3>1
        <4>. QED
          BY <1>0, <3>1, <4>1
      <3>. QED
        BY <2>2, <2>3, <3>1
    <2>5. \A j \in Jobs : status[j] = "dead" => age'[j] >= FullBackoff(MaxAttempts - 1)
      <3>1. FullBackoff(MaxAttempts - 1) \in Nat
        BY <1>0
      <3>. QED
        BY <2>2, <2>3, <3>1
    <2>6. \A w \in Servers : pc[w] = "locked" => wait'[job[w]] = 0
      BY <2>2
    <2>. QED
      BY <2>1, <2>2, <2>4, <2>5, <2>6
  <1>18. ASSUME NEW d \in Dashboards, Dashboard(d) PROVE Patient'
    BY <1>18 DEF Dashboard, jobVars, workerVars, history
  <1>19. CASE UNCHANGED vars
    BY <1>19 DEF vars, jobVars, workerVars, history
  <1>. QED
    BY <1>1, <1>2, <1>3, <1>4, <1>5, <1>6, <1>7, <1>8, <1>9, <1>10, <1>11, <1>12, <1>13, <1>14, <1>15, <1>16, <1>17, <1>18, <1>19
    DEF Next, Step, WorkOne, Deliver

\* A job is dead no sooner than all its back-offs have passed since it was queued
\* or replayed, as long as the stopwatch that measures it runs that far.
THEOREM BackoffKept ==
  ASSUME MaxAge >= FullBackoff(MaxAttempts - 1)
  PROVE  Spec => []DeadOnlyAfterFullBackoff
  <1>1. Patient => DeadOnlyAfterFullBackoff
    BY DEF Patient
  <1>2. Claims /\ Patient /\ [Next]_vars => Patient'
    BY PatientStep
  <1>. QED
    BY <1>1, <1>2, ClaimsHold, PatientInit, PTL DEF Spec


-----------------------------------------------------------------------------
(* The outbox implements Notifications.                                    *)

LEMMA PromiseInit == Init => Promise!Init
  BY DEF Init, Promise!Init

LEMMA PromiseStep == Claims /\ Coverage /\ [Next]_vars => [Promise!Next]_Promise!vars
  <1>. SUFFICES ASSUME Claims, Coverage, [Next]_vars
                PROVE  Promise!Next \/ UNCHANGED <<status, attempts, owed, accepted>>
    BY DEF Promise!vars
  <1>. USE DEF Claims, Typing, TypeOK, Locals, RowAgrees, RetryBudget, Promise!Move
  <1>1. ASSUME NEW j \in Jobs, Enqueue(j) PROVE Promise!Next
    <2>1. Promise!Accept(j, SubsOf(j))
      BY <1>1 DEF Enqueue, Promise!Accept
    <2>2. SubsOf(j) \in SUBSET Subs
      BY DEF SubsOf
    <2>. QED
      BY <2>1, <2>2 DEF Promise!Next
  <1>2. ASSUME NEW w \in Servers, pc[w] = "locked", MarkProcessing(w) PROVE Promise!Next
    <2>1. Promise!Begin(job[w])
      BY <1>2 DEF MarkProcessing, history, Promise!Begin
    <2>. QED
      BY <1>2, <2>1 DEF Promise!Next
  <1>3. ASSUME NEW w \in Servers, CommitClaim(w) \/ AbandonClaim(w)
        PROVE  Promise!Next \/ UNCHANGED <<status, attempts, owed, accepted>>
    BY <1>2, <1>3 DEF CommitClaim, AbandonClaim, jobVars, history
  <1>4. ASSUME NEW w \in Servers, NEW s \in Subs, Post(w, s)
        PROVE  Promise!Next \/ UNCHANGED <<status, attempts, owed, accepted>>
    <2>1. CASE accepted' = [accepted EXCEPT ![job[w]] = @ \union {s}]
      <3>1. Promise!Reach(job[w], s)
        BY <1>4, <2>1 DEF Post, jobVars, Promise!Reach
      <3>. QED
        BY <1>4, <3>1 DEF Post, Promise!Next
    <2>2. CASE accepted' = accepted
      BY <1>4, <2>2 DEF Post, jobVars
    <2>. QED
      BY <1>4, <2>1, <2>2 DEF Post
  <1>5. ASSUME NEW w \in Servers, FinishDone(w)
        PROVE  Promise!Next \/ UNCHANGED <<status, attempts, owed, accepted>>
    <2>1. CASE status' = [status EXCEPT ![job[w]] = "done"]
      <3>1. owed[job[w]] \subseteq accepted[job[w]]
        BY <1>5 DEF FinishDone, Coverage, NoneSkipped
      <3>2. Promise!Complete(job[w])
        BY <1>5, <2>1, <3>1 DEF FinishDone, history, Promise!Complete
      <3>. QED
        BY <1>5, <3>2 DEF FinishDone, Promise!Next
    <2>2. CASE status' = status
      BY <1>5, <2>2 DEF FinishDone, history
    <2>. QED
      BY <1>5, <2>1, <2>2 DEF FinishDone
  <1>6. ASSUME NEW w \in Servers, FinishFailed(w)
        PROVE  Promise!Next \/ UNCHANGED <<status, attempts, owed, accepted>>
    <2>1. CASE status' = [status EXCEPT ![job[w]] = Outcome(w)]
      <3>1. CASE tries[w] + 1 >= MaxAttempts
        <4>1. Promise!GiveUp(job[w])
          BY <1>6, <2>1, <3>1, MaxAttemptsAssumption
          DEF FinishFailed, Outcome, history, Promise!GiveUp
        <4>. QED
          BY <1>6, <4>1 DEF FinishFailed, Promise!Next
      <3>2. CASE ~(tries[w] + 1 >= MaxAttempts)
        <4>1. Promise!TryLater(job[w])
          BY <1>6, <2>1, <3>2, MaxAttemptsAssumption
          DEF FinishFailed, Outcome, history, Promise!TryLater
        <4>. QED
          BY <1>6, <4>1 DEF FinishFailed, Promise!Next
      <3>. QED
        BY <3>1, <3>2
    <2>2. CASE status' = status
      BY <1>6, <2>2 DEF FinishFailed, history
    <2>. QED
      BY <1>6, <2>1, <2>2 DEF FinishFailed
  <1>7. ASSUME NEW p \in Servers, NEW j \in Jobs, Replay(p, j) PROVE Promise!Next
    <2>1. Promise!Reopen(j)
      BY <1>7 DEF Replay, history, Promise!Reopen
    <2>. QED
      BY <2>1 DEF Promise!Next
  <1>8. ASSUME NEW w \in Servers,
               \/ \E j \in Jobs : LockJob(w, j)
               \/ ReadSubscriptions(w) \/ RecordDelivery(w) \/ BreakCursor(w)
               \/ Announce(w) \/ Stop(w) \/ Restart(w)
        PROVE  UNCHANGED <<status, attempts, owed, accepted>>
    BY <1>8 DEF LockJob, ReadSubscriptions, RecordDelivery, BreakCursor, Announce, Stop,
                Restart, jobVars, history
  <1>9. ASSUME \/ \E s \in Subs : AddSubscription(s)
               \/ \E p \in Servers, j \in Jobs : AnnounceReplay(p, j)
               \/ \E d \in Dashboards : Dashboard(d)
               \/ Tick
               \/ UNCHANGED vars
        PROVE  UNCHANGED <<status, attempts, owed, accepted>>
    BY <1>9 DEF AddSubscription, AnnounceReplay, Dashboard, Tick, vars, jobVars, history
  <1>. QED
    BY <1>1, <1>3, <1>4, <1>5, <1>6, <1>7, <1>8, <1>9, Zenon
    DEF Next, Step, WorkOne, Deliver

\* Every behaviour of the outbox is one its promise allows.
THEOREM PromiseKept == Spec => KeepsPromise
  <1>. QED
    BY PromiseInit, PromiseStep, ClaimsInit, ClaimsStep, CoverageInit, CoverageStep, PTL
    DEF Spec, KeepsPromise, Promise!Spec

=============================================================================
