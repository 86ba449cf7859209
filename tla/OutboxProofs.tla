---------------------------- MODULE OutboxProofs ----------------------------
(***************************************************************************)
(* Theorems about Outbox for every set of events, commands and workers and  *)
(* every value of the bounds.                                               *)
(***************************************************************************)
EXTENDS Outbox, TLAPS

-----------------------------------------------------------------------------
(* Type correctness.                                                        *)

\* The empty tables and idle workers of the initial state are well typed.
LEMMA InitTypeOK == Init => TypeOK
BY EventsAssumption DEF Init, TypeOK, Statuses

\* A step of a request (enqueue, commit, rollback) keeps the types.
LEMMA CommandTypeOK ==
    ASSUME TypeOK, NEW c \in Commands, CommandStep(c)
    PROVE  TypeOK'
<1>1. CASE Lookup(c)
  BY <1>1 DEF Lookup, TypeOK, rows, provider, workers, history
<1>2. CASE Insert(c)
  BY <1>2 DEF Insert, TypeOK, rows, provider, workers, history
<1>3. CASE Commit(c)
  BY <1>3 DEF Commit, TypeOK, Statuses, provider, workers, history
<1>4. CASE Rollback(c)
  BY <1>4 DEF Rollback, TypeOK, rows, provider, workers, history
<1> QED BY <1>1, <1>2, <1>3, <1>4 DEF CommandStep

\* A step of a worker, or its crash, keeps the types.
LEMMA WorkerTypeOK ==
    ASSUME TypeOK, NEW w \in Workers, WorkerStep(w) \/ Crash(w)
    PROVE  TypeOK'
<1>1. ASSUME NEW e \in Events, Claim(w, e) PROVE TypeOK'
  BY <1>1 DEF Claim, TypeOK, Statuses, provider, commands
<1>2. CASE CheckDelivery(w)
  BY <1>2 DEF CheckDelivery, EndHandler, TypeOK, rows, provider, commands, history
<1>3. CASE Post(w)
  BY <1>3 DEF Post, Accept, IdempotencyKey, TypeOK, rows, commands, history
<1>4. CASE PostFails(w)
  BY <1>4 DEF PostFails, Accept, IdempotencyKey, EndHandler, TypeOK, rows, provider, commands, history
<1>5. CASE Record(w)
  BY <1>5 DEF Record, EndHandler, TypeOK, rows, provider, commands, history
<1>6. CASE Finish(w)
  BY <1>6 DEF Finish, NextStatus, TypeOK, Statuses, provider, commands, history
<1>7. CASE Crash(w)
  BY <1>7 DEF Crash, TypeOK, rows, provider, commands
<1> QED BY <1>1, <1>2, <1>3, <1>4, <1>5, <1>6, <1>7 DEF WorkerStep

\* Back-offs and leases that run out keep the types.
LEMMA TimeTypeOK ==
    ASSUME TypeOK, NEW e \in Events, Clock(e) \/ Overrun(e)
    PROVE  TypeOK'
<1>1. CASE BackoffElapses(e)
  BY <1>1 DEF BackoffElapses, TypeOK, provider, commands, workers, history
<1>2. CASE AbandonedLeaseExpires(e)
  BY <1>2 DEF AbandonedLeaseExpires, TypeOK, provider, commands, workers, history
<1>3. CASE Overrun(e)
  BY <1>3 DEF Overrun, TypeOK, provider, commands, workers
<1> QED BY <1>1, <1>2, <1>3 DEF Clock

\* Type correctness is inductive.
LEMMA NextTypeOK == TypeOK /\ [Next]_vars => TypeOK'
<1> SUFFICES ASSUME TypeOK, [Next]_vars PROVE TypeOK'
  OBVIOUS
<1>1. CASE UNCHANGED vars
  BY <1>1 DEF vars, rows, provider, commands, workers, history, TypeOK
<1>2. CASE Next
  BY <1>2, CommandTypeOK, WorkerTypeOK, TimeTypeOK DEF Next
<1> QED BY <1>1, <1>2

\* Every column, worker and counter keeps its type in every reachable state.
THEOREM TypeCorrect == Spec => []TypeOK
BY InitTypeOK, NextTypeOK, PTL DEF Spec

-----------------------------------------------------------------------------
(* Mails and their records.                                                 *)

\* The provider's books: one mail for a key it has honoured, none otherwise; a
\* delivery row, an accepted POST and a clean end of a handler each mean a mail.
MailInv ==
    /\ TypeOK
    /\ \A e \in Events : mails[e] = IF e \in honoured THEN 1 ELSE 0
    /\ delivered \subseteq honoured
    /\ \A w \in Workers : pc[w] = "accepted" => job[w] \in honoured
    /\ \A w \in Workers : pc[w] = "finishing" /\ ~failed[w] => job[w] \in delivered
    /\ \A e \in Events : status[e] = "done" => e \in delivered

\* No mail was sent in the initial state.
LEMMA InitMailInv == Init => MailInv
BY InitTypeOK DEF Init, MailInv

\* MailInv is inductive: only a POST sends a mail, and its key is then honoured.
LEMMA NextMailInv == MailInv /\ [Next]_vars => MailInv'
<1> SUFFICES ASSUME MailInv, [Next]_vars PROVE MailInv'
  OBVIOUS
<1> USE DEF MailInv
<1>0. TypeOK'
  BY NextTypeOK
<1>1. ASSUME NEW c \in Commands, CommandStep(c) PROVE MailInv'
  <2>1. UNCHANGED <<delivered, provider, workers>>
    BY <1>1 DEF CommandStep, Lookup, Insert, Commit, Rollback
  <2>2. \A e \in Events : status'[e] \in {status[e], "queued"}
    BY <1>1 DEF CommandStep, Lookup, Insert, Commit, Rollback, rows, TypeOK
  <2> QED BY <1>0, <2>1, <2>2 DEF provider, workers
<1>2. ASSUME NEW w \in Workers, NEW e \in Events, Claim(w, e) PROVE MailInv'
  BY <1>0, <1>2 DEF Claim, TypeOK, provider
<1>3. ASSUME NEW w \in Workers, CheckDelivery(w) PROVE MailInv'
  BY <1>0, <1>3 DEF CheckDelivery, EndHandler, TypeOK, rows, provider
<1>4. ASSUME NEW w \in Workers, Post(w) PROVE MailInv'
  BY <1>0, <1>4 DEF Post, Accept, IdempotencyKey, TypeOK, rows
<1>5. ASSUME NEW w \in Workers, PostFails(w) PROVE MailInv'
  BY <1>0, <1>5 DEF PostFails, Accept, IdempotencyKey, EndHandler, TypeOK, rows, provider
<1>6. ASSUME NEW w \in Workers, Record(w) PROVE MailInv'
  BY <1>0, <1>6 DEF Record, EndHandler, TypeOK, rows, provider
<1>7. ASSUME NEW w \in Workers, Finish(w) PROVE MailInv'
  <2>1. NextStatus(w) = "done" => job[w] \in delivered
    BY <1>7 DEF Finish, NextStatus, TypeOK
  <2>2. \A e \in Events : status'[e] = "done" => status[e] = "done" \/ (e = job[w] /\ NextStatus(w) = "done")
    BY <1>7 DEF Finish, TypeOK
  <2>3. \A v \in Workers : pc'[v] = pc[v] \/ pc'[v] = "idle"
    BY <1>7 DEF Finish, TypeOK
  <2>4. UNCHANGED <<delivered, provider, job, failed>>
    BY <1>7 DEF Finish
  <2> QED BY <1>0, <2>1, <2>2, <2>3, <2>4 DEF provider
<1>8. ASSUME NEW w \in Workers, Crash(w) PROVE MailInv'
  BY <1>0, <1>8 DEF Crash, TypeOK, rows, provider
<1>9. ASSUME NEW e \in Events, Clock(e) \/ Overrun(e) PROVE MailInv'
  BY <1>0, <1>9 DEF Clock, BackoffElapses, AbandonedLeaseExpires, Overrun, provider, workers
<1>10. CASE UNCHANGED vars
  BY <1>0, <1>10 DEF vars, rows, provider, workers
<1> QED
  BY <1>1, <1>2, <1>3, <1>4, <1>5, <1>6, <1>7, <1>8, <1>9, <1>10 DEF Next, WorkerStep

\* The recipient of an event gets at most one mail, for any number of workers,
\* crashes and overrun leases.
THEOREM AtMostOneMail == Spec => []OneMailPerEvent
<1>1. MailInv => OneMailPerEvent
  BY DEF MailInv, OneMailPerEvent
<1> QED BY InitMailInv, NextMailInv, <1>1, PTL DEF Spec

\* An event that was acknowledged was mailed and has its delivery row.
THEOREM DoneIsMailed == Spec => []DoneMeansMailed
<1>1. MailInv => DoneMeansMailed
  BY DEF MailInv, DoneMeansMailed, TypeOK
<1> QED BY InitMailInv, NextMailInv, <1>1, PTL DEF Spec

-----------------------------------------------------------------------------
(* Commands and the retry budget.                                           *)

\* Only the transaction that inserted the row can make it visible, and a row that
\* is queued has a claim left.
QueueInv ==
    /\ TypeOK
    /\ \A c \in Commands : command[c] = "inserted" => ~Exists(target[c])
    /\ \A c, d \in Commands :
        command[c] = "inserted" /\ command[d] = "inserted" /\ target[c] = target[d] => c = d
    /\ \A c \in Commands : command[c] \in {"found", "committed"} => Exists(target[c])
    /\ \A w \in Workers : pc[w] # "idle" => Exists(job[w])
    /\ \A e \in Events : ~Exists(e) => attempts[e] = 0
    /\ \A e \in Events : status[e] = "queued" => attempts[e] < MaxAttempts
    /\ RetryBudget

\* No command has run in the initial state.
LEMMA InitQueueInv == Init => QueueInv
BY InitTypeOK, MaxAttemptsAssumption DEF Init, QueueInv, Exists, RetryBudget

\* QueueInv is inductive: finish requeues an event only within its budget.
LEMMA NextQueueInv == QueueInv /\ [Next]_vars => QueueInv'
<1> SUFFICES ASSUME QueueInv, [Next]_vars PROVE QueueInv'
  OBVIOUS
<1> USE MaxAttemptsAssumption DEF QueueInv, Exists, RetryBudget
<1>0. TypeOK'
  BY NextTypeOK
<1>1. ASSUME NEW c \in Commands, Lookup(c) PROVE QueueInv'
  BY <1>0, <1>1 DEF Lookup, TypeOK, rows, workers, history
<1>2. ASSUME NEW c \in Commands, Insert(c) PROVE QueueInv'
  BY <1>0, <1>2 DEF Insert, Inserting, TypeOK, rows, workers, history
<1>3. ASSUME NEW c \in Commands, Commit(c) PROVE QueueInv'
  BY <1>0, <1>3 DEF Commit, TypeOK, workers, history
<1>4. ASSUME NEW c \in Commands, Rollback(c) PROVE QueueInv'
  BY <1>0, <1>4 DEF Rollback, TypeOK, rows, workers, history
<1>5. ASSUME NEW w \in Workers, NEW e \in Events, Claim(w, e) PROVE QueueInv'
  BY <1>0, <1>5 DEF Claim, Claimable, TypeOK, commands
<1>6. ASSUME NEW w \in Workers, CheckDelivery(w) \/ Post(w) \/ PostFails(w) \/ Record(w)
      PROVE QueueInv'
  BY <1>0, <1>6 DEF CheckDelivery, Post, PostFails, Record, EndHandler, TypeOK, rows, commands, history
<1>7. ASSUME NEW w \in Workers, Finish(w) PROVE QueueInv'
  <2>1. NextStatus(w) \in {"done", "failed", "queued"}
    BY DEF NextStatus
  <2>2. NextStatus(w) = "queued" => attempts[job[w]] < MaxAttempts
    BY DEF NextStatus, TypeOK
  <2>3. \A e \in Events : IF e = job[w] THEN status'[e] = NextStatus(w) ELSE status'[e] = status[e]
    BY <1>7 DEF Finish, TypeOK
  <2>4. \A v \in Workers : pc'[v] = pc[v] \/ pc'[v] = "idle"
    BY <1>7 DEF Finish, TypeOK
  <2>5. UNCHANGED <<attempts, commands, job, reclaims>> /\ Exists(job[w])
    BY <1>7 DEF Finish, history
  <2> QED BY <1>0, <2>1, <2>2, <2>3, <2>4, <2>5 DEF commands, TypeOK
<1>8. ASSUME NEW w \in Workers, Crash(w) PROVE QueueInv'
  BY <1>0, <1>8 DEF Crash, TypeOK, rows, commands
<1>9. ASSUME NEW e \in Events, Clock(e) \/ Overrun(e) PROVE QueueInv'
  BY <1>0, <1>9 DEF Clock, BackoffElapses, AbandonedLeaseExpires, Overrun, commands, workers, history
<1>10. CASE UNCHANGED vars
  BY <1>0, <1>10 DEF vars, rows, commands, workers, history
<1> QED
  BY <1>1, <1>2, <1>3, <1>4, <1>5, <1>6, <1>7, <1>8, <1>9, <1>10 DEF Next, CommandStep, WorkerStep

\* An event is claimed at most max_attempts times plus once per abandoned claim.
THEOREM BudgetHolds == Spec => []RetryBudget
<1>1. QueueInv => RetryBudget
  BY DEF QueueInv
<1> QED BY InitQueueInv, NextQueueInv, <1>1, PTL DEF Spec

\* A command that committed has its event, however many commands race for its key.
THEOREM CommandsHaveEvents == Spec => []CommittedHasEvent
<1>1. QueueInv => CommittedHasEvent
  BY DEF QueueInv, CommittedHasEvent
<1> QED BY InitQueueInv, NextQueueInv, <1>1, PTL DEF Spec

-----------------------------------------------------------------------------
(* The lease.                                                               *)

\* While no lease has run out under a live worker, whoever is in process_once holds
\* the live lease of its event, alone; and nobody sends an event that is recorded.
LeaseHeld ==
    /\ \A w \in Workers : pc[w] # "idle" =>
        status[job[w]] = "processing" /\ lease[job[w]] = "live"
    /\ \A v, w \in Workers : pc[v] # "idle" /\ pc[w] # "idle" /\ job[v] = job[w] => v = w
    /\ \A w \in Workers :
        \/ pc[w] \in {"sending", "accepted"}
        \/ pc[w] = "finishing" /\ failed[w]
        => job[w] \notin delivered
    /\ \A w \in Workers : pc[w] = "finishing" /\ ~failed[w] => job[w] \in delivered
    /\ \A e \in delivered : status[e] # "failed"

LeaseInv == QueueInv /\ (overruns = 0 => LeaseHeld)

\* Nobody works in the initial state.
LEMMA InitLeaseInv == Init => LeaseInv
BY InitQueueInv DEF Init, LeaseInv, LeaseHeld

\* LeaseInv is inductive: a claim finds the event free unless a lease has overrun.
LEMMA NextLeaseInv == LeaseInv /\ [Next]_vars => LeaseInv'
<1> SUFFICES ASSUME LeaseInv, [Next]_vars PROVE LeaseInv'
  OBVIOUS
<1>0. QueueInv' /\ QueueInv /\ TypeOK /\ TypeOK'
  BY NextQueueInv DEF LeaseInv, QueueInv
<1> USE DEF LeaseInv, LeaseHeld, Exists
<1>1. ASSUME NEW c \in Commands, CommandStep(c) PROVE LeaseInv'
  <2>1. UNCHANGED <<lease, delivered, workers, overruns>>
    BY <1>1 DEF CommandStep, Lookup, Insert, Commit, Rollback, rows, history
  <2>2. \A e \in Events : status'[e] = status[e] \/ (~Exists(e) /\ status'[e] = "queued")
    BY <1>0, <1>1 DEF CommandStep, Lookup, Insert, Commit, Rollback, rows, TypeOK, QueueInv
  <2> QED BY <1>0, <2>1, <2>2 DEF workers, TypeOK
<1>2. ASSUME NEW w \in Workers, NEW e \in Events, Claim(w, e) PROVE LeaseInv'
  BY <1>0, <1>2 DEF Claim, Claimable, TypeOK
<1>3. ASSUME NEW w \in Workers, CheckDelivery(w) PROVE LeaseInv'
  BY <1>0, <1>3 DEF CheckDelivery, EndHandler, TypeOK, rows, history
<1>4. ASSUME NEW w \in Workers, Post(w) PROVE LeaseInv'
  BY <1>0, <1>4 DEF Post, TypeOK, rows, history
<1>5. ASSUME NEW w \in Workers, PostFails(w) PROVE LeaseInv'
  BY <1>0, <1>5 DEF PostFails, EndHandler, TypeOK, rows, history
<1>6. ASSUME NEW w \in Workers, Record(w) PROVE LeaseInv'
  <2>1. /\ pc' = [pc EXCEPT ![w] = "finishing"]
        /\ delivered' = delivered \cup {job[w]}
        /\ UNCHANGED <<status, lease, job, overruns>>
    BY <1>6 DEF Record, EndHandler, rows, history
  <2> SUFFICES ASSUME overruns = 0
               PROVE  LeaseHeld'
    BY <1>0, <2>1
  <2>2. /\ job[w] \notin delivered
        /\ status[job[w]] = "processing"
        /\ \A v \in Workers : v # w /\ pc[v] # "idle" => job[v] # job[w]
    BY <1>6 DEF Record
  <2>3. ~failed'[w] /\ \A v \in Workers : v # w => failed'[v] = failed[v]
    <3>1. (job[w] \in delivered) = FALSE
      BY <2>2
    <3>2. failed' = [failed EXCEPT ![w] = job[w] \in delivered]
      BY <1>6 DEF Record, EndHandler
    <3>3. failed' = [failed EXCEPT ![w] = FALSE]
      BY <3>1, <3>2
    <3> QED BY <1>0, <3>3 DEF TypeOK
  <2>4. \A v \in Workers : pc'[v] # "idle" => pc[v] # "idle"
    BY <1>6, <2>1 DEF Record, TypeOK
  <2>5. \A v \in Workers : v # w => pc'[v] = pc[v]
    BY <1>0, <2>1 DEF TypeOK
  <2> QED BY <1>0, <2>1, <2>2, <2>3, <2>4, <2>5 DEF TypeOK
<1>7. ASSUME NEW w \in Workers, Finish(w) PROVE LeaseInv'
  <2> SUFFICES ASSUME overruns = 0 PROVE LeaseHeld'
    BY <1>0, <1>7 DEF Finish, TypeOK, history
  <2>1. \A v \in Workers : pc'[v] # "idle" => v # w /\ pc'[v] = pc[v] /\ job[v] # job[w]
    BY <1>0, <1>7 DEF Finish, TypeOK
  <2>2. \A e \in Events : e # job[w] => status'[e] = status[e] /\ lease'[e] = lease[e]
    BY <1>7 DEF Finish, TypeOK
  <2>3. job[w] \in delivered => NextStatus(w) = "done"
    BY <1>7 DEF Finish, NextStatus, TypeOK
  <2>4. status'[job[w]] = NextStatus(w)
    BY <1>0, <1>7 DEF Finish, TypeOK
  <2>5. UNCHANGED <<delivered, job, failed>>
    BY <1>7 DEF Finish
  <2> QED BY <1>0, <2>1, <2>2, <2>3, <2>4, <2>5 DEF TypeOK
<1>8. ASSUME NEW w \in Workers, Crash(w) PROVE LeaseInv'
  BY <1>0, <1>8 DEF Crash, TypeOK, rows
<1>9. ASSUME NEW e \in Events, BackoffElapses(e) PROVE LeaseInv'
  BY <1>0, <1>9 DEF BackoffElapses, workers, history
<1>10. ASSUME NEW e \in Events, AbandonedLeaseExpires(e) PROVE LeaseInv'
  BY <1>0, <1>10 DEF AbandonedLeaseExpires, AtWork, TypeOK, workers, history
<1>11. ASSUME NEW e \in Events, Overrun(e) PROVE LeaseInv'
  BY <1>0, <1>11 DEF Overrun, TypeOK
<1>12. CASE UNCHANGED vars
  BY <1>0, <1>12 DEF vars, rows, workers, history
<1> QED
  BY <1>1, <1>2, <1>3, <1>4, <1>5, <1>6, <1>7, <1>8, <1>9, <1>10, <1>11, <1>12
  DEF Next, WorkerStep, Clock

\* The lease excludes concurrent redelivery, with any number of crashes.
THEOREM LeaseExcludes == Spec => []LeaseExclusive
<1>1. LeaseInv => LeaseExclusive
  BY DEF LeaseInv, LeaseHeld, LeaseExclusive
<1> QED BY InitLeaseInv, NextLeaseInv, <1>1, PTL DEF Spec

\* The redelivery of a recorded mail does not end in "failed".
THEOREM RecordedNeverFails == Spec => []RecordedIsNotFailed
<1>1. LeaseInv => RecordedIsNotFailed
  BY DEF LeaseInv, LeaseHeld, RecordedIsNotFailed
<1> QED BY InitLeaseInv, NextLeaseInv, <1>1, PTL DEF Spec

\* A settled event is not reopened: every step of a state with LeaseInv keeps it.
THEOREM SettledStays == Spec => SettledIsFinal
<1>1. LeaseInv /\ [Next]_vars =>
      [\A e \in Events : overruns = 0 /\ status[e] \in Settled => status'[e] = status[e]]_vars
  <2> SUFFICES ASSUME LeaseInv, Next, NEW e \in Events, overruns = 0, status[e] \in Settled
               PROVE  status'[e] = status[e]
    OBVIOUS
  <2>0. TypeOK /\ QueueInv
    BY DEF LeaseInv, QueueInv
  <2>1. \A w \in Workers : pc[w] # "idle" => job[w] # e
    BY DEF LeaseInv, LeaseHeld, Settled
  <2>2. ASSUME NEW c \in Commands, CommandStep(c) PROVE status'[e] = status[e]
    BY <2>0, <2>2 DEF CommandStep, Lookup, Insert, Commit, Rollback, rows, QueueInv, Exists, Settled, TypeOK
  <2>3. ASSUME NEW w \in Workers, NEW f \in Events, Claim(w, f) PROVE status'[e] = status[e]
    BY <2>0, <2>3 DEF Claim, Claimable, Settled, TypeOK
  <2>4. ASSUME NEW w \in Workers, Finish(w) PROVE status'[e] = status[e]
    BY <2>0, <2>1, <2>4 DEF Finish, TypeOK
  <2>5. ASSUME NEW w \in Workers, CheckDelivery(w) \/ Post(w) \/ PostFails(w) \/ Record(w) \/ Crash(w)
        PROVE status'[e] = status[e]
    BY <2>5 DEF CheckDelivery, Post, PostFails, Record, Crash, rows
  <2>6. ASSUME NEW f \in Events, Clock(f) \/ Overrun(f) PROVE status'[e] = status[e]
    BY <2>6 DEF Clock, BackoffElapses, AbandonedLeaseExpires, Overrun
  <2> QED BY <2>2, <2>3, <2>4, <2>5, <2>6 DEF Next, WorkerStep
<1> QED BY InitLeaseInv, NextLeaseInv, <1>1, PTL DEF Spec, SettledIsFinal

-----------------------------------------------------------------------------
(* The outbox implements MailPromise.                                       *)

Published == {e \in Events : Exists(e)}
ClosedMap == [e \in Events |-> Closed(e)]
promiseVars == <<Published, mails, delivered, ClosedMap, overruns > 0>>

\* The initial state maps to one of the abstract promise.
LEMMA PromiseInit == Init => Promise!Init
BY DEF Init, Promise!Init, Exists, Closed, Settled

\* Only commits, posts, records, finishes and overruns are visible; the rest stutters.
LEMMA PromiseCommand ==
    ASSUME QueueInv, NEW c \in Commands, CommandStep(c)
    PROVE  (\E e \in Events : Promise!Publish(e)) \/ UNCHANGED promiseVars
<1> USE DEF promiseVars, Published, ClosedMap
<1>1. CASE Lookup(c) \/ Insert(c) \/ Rollback(c)
  BY <1>1 DEF Lookup, Insert, Rollback, rows, provider, history, Exists, Closed
<1>2. CASE Commit(c) /\ command[c] = "found"
  BY <1>2 DEF Commit, provider, history, Exists, Closed
<1>3. CASE Commit(c) /\ command[c] = "inserted"
  <2> DEFINE t == target[c]
  <2>1. t \in Events /\ ~Exists(t) /\ status' = [status EXCEPT ![t] = "queued"]
        /\ UNCHANGED <<mails, delivered, overruns>>
    BY <1>3 DEF Commit, QueueInv, TypeOK, provider, history
  <2>2. Published' = Published \cup {t}
    BY <2>1 DEF Exists, QueueInv, TypeOK
  <2>3. ClosedMap' = ClosedMap
    BY <2>1 DEF Exists, QueueInv, TypeOK, Closed, Settled
  <2>4. Promise!Publish(t)
    BY <2>1, <2>2, <2>3 DEF Promise!Publish
  <2> QED BY <2>1, <2>4
<1> QED BY <1>1, <1>2, <1>3 DEF CommandStep, Commit

\* A worker step maps to Mail, Record, Close or a stutter.
LEMMA PromiseWorker ==
    ASSUME MailInv, LeaseInv, NEW w \in Workers, WorkerStep(w) \/ Crash(w)
    PROVE  Promise!Next \/ UNCHANGED promiseVars
<1> DEFINE j == job[w]
<1>0. TypeOK /\ QueueInv
  BY DEF MailInv, LeaseInv
<1>1. j \in Events /\ (pc[w] # "idle" => Exists(j))
  BY <1>0 DEF QueueInv, TypeOK
<1>2. ASSUME NEW e \in Events, Claim(w, e) PROVE UNCHANGED promiseVars
  <2>1. \A f \in Events : Exists(f)' = Exists(f) /\ Closed(f)' = Closed(f)
    BY <1>0, <1>2 DEF Claim, Claimable, Exists, Closed, Settled, TypeOK
  <2> QED BY <1>2, <2>1 DEF promiseVars, Published, ClosedMap, Claim, provider
<1>3. CASE CheckDelivery(w) \/ Crash(w)
  BY <1>3 DEF CheckDelivery, Crash, rows, provider, history, promiseVars, Published, ClosedMap, Exists, Closed
<1>4. CASE Post(w) \/ PostFails(w)
  <2>1. UNCHANGED <<Published, delivered, ClosedMap, overruns>>
    BY <1>4 DEF Post, PostFails, rows, history, Published, ClosedMap, Exists, Closed
  <2>2. mails' = mails \/ (mails[j] = 0 /\ mails' = [mails EXCEPT ![j] = 1])
    <3>1. Accept(j) \/ UNCHANGED mails
      BY <1>4 DEF Post, PostFails, provider
    <3>2. CASE Accept(j) /\ j \in honoured
      <4>1. mails' = [mails EXCEPT ![j] = mails[j]]
        BY <3>2 DEF Accept, IdempotencyKey
      <4> QED BY <1>0, <1>1, <4>1 DEF TypeOK
    <3>3. CASE Accept(j) /\ j \notin honoured
      <4>1. mails' = [mails EXCEPT ![j] = mails[j] + 1] /\ mails[j] = 0
        BY <1>1, <3>3 DEF Accept, IdempotencyKey, MailInv
      <4> QED BY <4>1
    <3> QED BY <3>1, <3>2, <3>3
  <2>3. j \in Published
    BY <1>1, <1>4 DEF Post, PostFails, Published
  <2>4. UNCHANGED promiseVars \/ Promise!Mail(j)
    BY <2>1, <2>2, <2>3 DEF promiseVars, Promise!Mail, Published, ClosedMap
  <2> QED BY <1>1, <2>4 DEF Promise!Next
<1>5. CASE Record(w)
  <2>1. UNCHANGED <<Published, mails, ClosedMap, overruns>> /\ delivered' = delivered \cup {j}
    BY <1>5 DEF Record, rows, provider, history, Published, ClosedMap, Exists, Closed
  <2>2. mails[j] = 1
    BY <1>1, <1>5 DEF Record, MailInv
  <2>3. Promise!Record(j)
    BY <2>1, <2>2 DEF Promise!Record, Published, ClosedMap
  <2> QED BY <1>1, <2>3 DEF Promise!Next
<1>6. CASE Finish(w)
  <2> DEFINE how == IF NextStatus(w) = "queued" THEN "open" ELSE NextStatus(w)
  <2>1. UNCHANGED <<mails, delivered, overruns>>
    BY <1>6 DEF Finish, provider, history
  <2>2. NextStatus(w) \in {"done", "failed", "queued"} /\ how \in {"open", "done", "failed"}
    BY DEF NextStatus
  <2>3. status' = [status EXCEPT ![j] = NextStatus(w)] /\ Exists(j) /\ pc[w] = "finishing"
    BY <1>1, <1>6 DEF Finish
  <2>4. Published' = Published
    BY <1>0, <1>1, <2>2, <2>3 DEF Published, Exists, TypeOK
  <2>5. ClosedMap' = [ClosedMap EXCEPT ![j] = how]
    BY <1>0, <1>1, <2>2, <2>3 DEF ClosedMap, Closed, Settled, TypeOK
  <2>6. ClosedMap[j] = "open" \/ overruns > 0
    BY <1>0, <1>1, <2>3 DEF LeaseInv, LeaseHeld, ClosedMap, Closed, Settled, TypeOK
  <2>7. how = "done" => j \in delivered
    BY <1>0, <2>3 DEF NextStatus, MailInv, TypeOK
  <2>10. NextStatus(w) = "failed" => failed[w]
    BY <1>0 DEF NextStatus, TypeOK
  <2>8. how = "failed" => j \in Published /\ (j \notin delivered \/ overruns > 0)
    BY <1>0, <1>1, <2>3, <2>10 DEF LeaseInv, LeaseHeld, Published, TypeOK
  <2>9. Promise!Close(j, how)
    BY <2>1, <2>4, <2>5, <2>6, <2>7, <2>8 DEF Promise!Close, Published, ClosedMap
  <2> QED BY <1>1, <2>2, <2>9 DEF Promise!Next
<1> QED BY <1>2, <1>3, <1>4, <1>5, <1>6 DEF WorkerStep

\* Only an overrun is visible: it maps to BeLate.
LEMMA PromiseTime ==
    ASSUME TypeOK, NEW e \in Events, Clock(e) \/ Overrun(e)
    PROVE  Promise!Next \/ UNCHANGED promiseVars
<1>1. CASE Clock(e)
  BY <1>1 DEF Clock, BackoffElapses, AbandonedLeaseExpires, provider, history,
              promiseVars, Published, ClosedMap, Exists, Closed
<1>2. CASE Overrun(e)
  <2>1. UNCHANGED <<Published, mails, delivered, ClosedMap>> /\ overruns' > 0
    BY <1>2 DEF Overrun, provider, Published, ClosedMap, Exists, Closed, TypeOK
  <2> QED BY <2>1 DEF Promise!Next, Promise!BeLate, Published, ClosedMap
<1> QED BY <1>1, <1>2

\* Every behaviour of the outbox is one the abstract promise allows.
THEOREM OutboxKeepsPromise == Spec => KeepsPromise
<1>1. MailInv /\ LeaseInv /\ [Next]_vars => [Promise!Next]_promiseVars
  <2> SUFFICES ASSUME MailInv, LeaseInv, [Next]_vars PROVE Promise!Next \/ UNCHANGED promiseVars
    OBVIOUS
  <2>1. TypeOK /\ QueueInv
    BY DEF MailInv, LeaseInv
  <2>2. CASE UNCHANGED vars
    BY <2>2 DEF vars, rows, provider, history, promiseVars, Published, ClosedMap, Exists, Closed
  <2>3. ASSUME NEW c \in Commands, CommandStep(c) PROVE Promise!Next \/ UNCHANGED promiseVars
    BY <2>1, <2>3, PromiseCommand DEF Promise!Next
  <2> QED BY <2>1, <2>2, <2>3, PromiseWorker, PromiseTime DEF Next
<1>2. [Promise!Next]_promiseVars => [Promise!Next]_(Promise!vars)
  BY DEF promiseVars, Published, ClosedMap, Promise!vars
<1> QED
  BY InitMailInv, NextMailInv, InitLeaseInv, NextLeaseInv, PromiseInit, <1>1, <1>2, PTL
  DEF Spec, KeepsPromise, Promise!Spec

=============================================================================
