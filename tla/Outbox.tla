------------------------------- MODULE Outbox -------------------------------
(***************************************************************************)
(* The transactional outbox: commands enqueue events in their own          *)
(* transaction (app/core/outbox.py), worker processes claim them under a    *)
(* lease, run the mail handler and finish them (app/worker/runner.py), and  *)
(* the Resend adapter sends the mail (app/modules/integrations/email.py).   *)
(*                                                                         *)
(* An event is identified by its dedupe_key.  A worker runs three           *)
(* transactions per event (claim, handler, finish); between them it can     *)
(* crash, or be so slow that its lease runs out.  The order_by of the claim  *)
(* query is left out: any due event may be claimed.                         *)
(***************************************************************************)
EXTENDS Naturals, FiniteSets

CONSTANTS
    Events,        \* dedupe keys of email events
    Commands,      \* API requests that enqueue an event
    Workers,       \* worker processes (python -m app.worker.runner)
    MaxAttempts,   \* OutboxEvent.max_attempts (settings.worker_max_attempts)
    MaxCrashes,    \* bound on worker crashes
    MaxOverruns    \* bound on leases that run out under a live worker

ASSUME EventsAssumption == Events # {}
ASSUME MaxAttemptsAssumption == MaxAttempts \in Nat \ {0}
ASSUME BoundsAssumption == MaxCrashes \in Nat /\ MaxOverruns \in Nat

VARIABLES
    \* outbox_events, one column per function
    status, attempts, lease, due,
    \* email_deliveries: the events that have a row (unique outbox_event_id)
    delivered,
    \* the provider: keys it has honoured, and the mails it has sent per event
    honoured, mails,
    \* commands: where the request is, and the event it enqueues
    command, target,
    \* workers: where the process is, its event, and the error of its handler
    pc, job, failed,
    \* history: claims of an expired lease; faults so far
    reclaims, crashes, overruns

rows == <<status, attempts, lease, due>>
provider == <<honoured, mails>>
commands == <<command, target>>
workers == <<pc, job, failed>>
history == <<reclaims, crashes, overruns>>
vars == <<rows, delivered, provider, commands, workers, history>>

Statuses == {"queued", "processing", "done", "failed"}
Settled == {"done", "failed"}

TypeOK ==
    /\ status \in [Events -> Statuses \cup {"absent"}]
    /\ attempts \in [Events -> Nat]
    /\ lease \in [Events -> {"none", "live", "expired"}]
    /\ due \in [Events -> BOOLEAN]
    /\ delivered \subseteq Events
    /\ honoured \subseteq Events
    /\ mails \in [Events -> Nat]
    /\ command \in [Commands -> {"idle", "found", "missing", "inserted", "committed", "rolled_back"}]
    /\ target \in [Commands -> Events]
    /\ pc \in [Workers -> {"idle", "claimed", "sending", "accepted", "finishing"}]
    /\ job \in [Workers -> Events]
    /\ failed \in [Workers -> BOOLEAN]
    /\ reclaims \in [Events -> Nat]
    /\ crashes \in Nat
    /\ overruns \in Nat

Init ==
    /\ status = [e \in Events |-> "absent"]
    /\ attempts = [e \in Events |-> 0]
    /\ lease = [e \in Events |-> "none"]
    /\ due = [e \in Events |-> FALSE]
    /\ delivered = {}
    /\ honoured = {}
    /\ mails = [e \in Events |-> 0]
    /\ command = [c \in Commands |-> "idle"]
    /\ target \in [Commands -> Events]
    /\ pc = [w \in Workers |-> "idle"]
    /\ job = [w \in Workers |-> CHOOSE e \in Events : TRUE]
    /\ failed = [w \in Workers |-> FALSE]
    /\ reclaims = [e \in Events |-> 0]
    /\ crashes = 0
    /\ overruns = 0

-----------------------------------------------------------------------------
(* Commands: outbox.enqueue inside the request's transaction.               *)

Exists(e) == status[e] # "absent"

\* The transactions that hold an uncommitted row with this dedupe key.
Inserting(e) == {c \in Commands : command[c] = "inserted" /\ target[c] = e}

\* The SELECT sees committed rows only.  A failed request may be sent again.
Lookup(c) ==
    /\ command[c] \in {"idle", "rolled_back"}
    /\ command' = [command EXCEPT ![c] = IF Exists(target[c]) THEN "found" ELSE "missing"]
    /\ UNCHANGED <<rows, delivered, provider, target, workers, history>>

\* Variant: an uncommitted row counts as existing.
Insert_NoWait(c) ==
    /\ command[c] = "missing"
    /\ command' = [command EXCEPT ![c] =
        IF Exists(target[c]) \/ Inserting(target[c]) # {} THEN "found" ELSE "inserted"]
    /\ UNCHANGED <<rows, delivered, provider, target, workers, history>>

\* db.add + flush: the unique index makes the INSERT wait for an uncommitted row
\* with the same key and raises IntegrityError when one is committed.
Insert(c) ==
    /\ command[c] = "missing"
    /\ Inserting(target[c]) = {}
    /\ command' = [command EXCEPT ![c] = IF Exists(target[c]) THEN "rolled_back" ELSE "inserted"]
    /\ UNCHANGED <<rows, delivered, provider, target, workers, history>>

\* The request commits: its domain change, and the row it inserted if any.
Commit(c) ==
    /\ command[c] \in {"found", "inserted"}
    /\ command' = [command EXCEPT ![c] = "committed"]
    /\ IF command[c] = "inserted"
       THEN /\ status' = [status EXCEPT ![target[c]] = "queued"]
            /\ due' = [due EXCEPT ![target[c]] = TRUE]
       ELSE UNCHANGED <<status, due>>
    /\ UNCHANGED <<attempts, lease, delivered, provider, target, workers, history>>

\* The request fails after enqueue for a reason of its own.
Rollback(c) ==
    /\ command[c] \in {"found", "missing", "inserted"}
    /\ command' = [command EXCEPT ![c] = "rolled_back"]
    /\ UNCHANGED <<rows, delivered, provider, target, workers, history>>

-----------------------------------------------------------------------------
(* Workers: process_once.                                                   *)

AtWork(e) == {w \in Workers : pc[w] # "idle" /\ job[w] = e}

\* Variants: the lease is not looked at; an expired claim is never picked up again.
Claimable_AnyLease(e) == status[e] \in {"queued", "processing"}
Claimable_QueuedOnly(e) == status[e] = "queued"

Claimable(e) ==
    \/ status[e] = "queued"
    \/ status[e] = "processing" /\ lease[e] = "expired"

\* claim_one: FOR UPDATE SKIP LOCKED, committed with attempts + 1.
Claim(w, e) ==
    /\ pc[w] = "idle"
    /\ due[e]
    /\ Claimable(e)
    /\ status' = [status EXCEPT ![e] = "processing"]
    /\ lease' = [lease EXCEPT ![e] = "live"]
    /\ attempts' = [attempts EXCEPT ![e] = @ + 1]
    /\ reclaims' = [reclaims EXCEPT ![e] = IF status[e] = "processing" THEN @ + 1 ELSE @]
    /\ pc' = [pc EXCEPT ![w] = "claimed"]
    /\ job' = [job EXCEPT ![w] = e]
    /\ UNCHANGED <<due, delivered, provider, commands, failed, crashes, overruns>>

EndHandler(w, error) ==
    /\ pc' = [pc EXCEPT ![w] = "finishing"]
    /\ failed' = [failed EXCEPT ![w] = error]

\* Variant: redelivery is not recognised.
CheckDelivery_Always(w) ==
    /\ pc[w] = "claimed"
    /\ pc' = [pc EXCEPT ![w] = "sending"]
    /\ UNCHANGED <<rows, delivered, provider, commands, job, failed, history>>

\* _send_mail: an event with a delivery row is not sent again.
CheckDelivery(w) ==
    /\ pc[w] = "claimed"
    /\ IF job[w] \in delivered
       THEN EndHandler(w, FALSE)
       ELSE pc' = [pc EXCEPT ![w] = "sending"] /\ UNCHANGED failed
    /\ UNCHANGED <<rows, delivered, provider, commands, job, history>>

\* Variant: a key per attempt.
IdempotencyKey_PerAttempt(e) == <<e, attempts[e]>>

\* The key of the POST, and what the provider does with it: the first request
\* with a key is sent, a repeated one only gets the first one's answer.
IdempotencyKey(e) == e

Accept(e) ==
    /\ honoured' = honoured \cup {IdempotencyKey(e)}
    /\ mails' = [mails EXCEPT ![e] = IF IdempotencyKey(e) \in honoured THEN @ ELSE @ + 1]

\* ResendEmailAdapter.deliver, the POST: accepted.
Post(w) ==
    /\ pc[w] = "sending"
    /\ Accept(job[w])
    /\ pc' = [pc EXCEPT ![w] = "accepted"]
    /\ UNCHANGED <<rows, delivered, commands, job, failed, history>>

\* The POST is rejected, or times out before or after the provider took it;
\* the handler raises and its transaction is rolled back.
PostFails(w) ==
    /\ pc[w] = "sending"
    /\ Accept(job[w]) \/ UNCHANGED provider
    /\ EndHandler(w, TRUE)
    /\ UNCHANGED <<rows, delivered, commands, job, history>>

\* The handler's commit inserts the delivery row; a second row for the event is
\* an IntegrityError.
Record(w) ==
    /\ pc[w] = "accepted"
    /\ delivered' = delivered \cup {job[w]}
    /\ EndHandler(w, job[w] \in delivered)
    /\ UNCHANGED <<rows, provider, commands, job, history>>

\* Variant: the budget is off by one.
NextStatus_OneMore(w) ==
    IF ~failed[w] THEN "done"
    ELSE IF attempts[job[w]] > MaxAttempts THEN "failed" ELSE "queued"

NextStatus(w) ==
    IF ~failed[w] THEN "done"
    ELSE IF attempts[job[w]] >= MaxAttempts THEN "failed" ELSE "queued"

\* finish: the row is locked, the lease owner is not compared.
Finish(w) ==
    /\ pc[w] = "finishing"
    /\ status' = [status EXCEPT ![job[w]] = NextStatus(w)]
    /\ due' = [due EXCEPT ![job[w]] = IF NextStatus(w) = "queued" THEN FALSE ELSE @]
    /\ lease' = [lease EXCEPT ![job[w]] = "none"]
    /\ pc' = [pc EXCEPT ![w] = "idle"]
    /\ UNCHANGED <<attempts, delivered, provider, commands, job, failed, history>>

\* The process dies and is started again; its claim stays in the table.
Crash(w) ==
    /\ crashes < MaxCrashes
    /\ pc[w] # "idle"
    /\ pc' = [pc EXCEPT ![w] = "idle"]
    /\ crashes' = crashes + 1
    /\ UNCHANGED <<rows, delivered, provider, commands, job, failed, reclaims, overruns>>

-----------------------------------------------------------------------------
(* Time.                                                                    *)

\* next_attempt_at is reached.
BackoffElapses(e) ==
    /\ status[e] = "queued"
    /\ ~due[e]
    /\ due' = [due EXCEPT ![e] = TRUE]
    /\ UNCHANGED <<status, attempts, lease, delivered, provider, commands, workers, history>>

\* The lease of a claim nobody works on any more runs out.
AbandonedLeaseExpires(e) ==
    /\ status[e] = "processing"
    /\ lease[e] = "live"
    /\ AtWork(e) = {}
    /\ lease' = [lease EXCEPT ![e] = "expired"]
    /\ UNCHANGED <<status, attempts, due, delivered, provider, commands, workers, history>>

\* The lease runs out while a worker is still busy with the event.
Overrun(e) ==
    /\ overruns < MaxOverruns
    /\ status[e] = "processing"
    /\ lease[e] = "live"
    /\ AtWork(e) # {}
    /\ lease' = [lease EXCEPT ![e] = "expired"]
    /\ overruns' = overruns + 1
    /\ UNCHANGED <<status, attempts, due, delivered, provider, commands, workers, reclaims, crashes>>

-----------------------------------------------------------------------------
CommandStep(c) == Lookup(c) \/ Insert(c) \/ Commit(c) \/ Rollback(c)

WorkerStep(w) ==
    \/ \E e \in Events : Claim(w, e)
    \/ CheckDelivery(w)
    \/ Post(w)
    \/ PostFails(w)
    \/ Record(w)
    \/ Finish(w)

Clock(e) == BackoffElapses(e) \/ AbandonedLeaseExpires(e)

Next ==
    \/ \E c \in Commands : CommandStep(c)
    \/ \E w \in Workers : WorkerStep(w) \/ Crash(w)
    \/ \E e \in Events : Clock(e) \/ Overrun(e)

Spec == Init /\ [][Next]_vars

\* Workers loop for ever and time passes.  Commands, crashes and overruns get no
\* fairness: nothing obliges them to happen.
Fairness ==
    /\ \A w \in Workers : WF_vars(WorkerStep(w))
    /\ \A e \in Events : WF_vars(BackoffElapses(e)) /\ WF_vars(AbandonedLeaseExpires(e))

FairSpec == Spec /\ Fairness

-----------------------------------------------------------------------------
(* Properties.                                                              *)

\* The recipient gets at most one mail per event, whatever crashes, timeouts and
\* concurrent redeliveries do: the POST carries the event id as idempotency key.
OneMailPerEvent == \A e \in Events : mails[e] <= 1

\* An event is "done" only when its mail was sent and its delivery row exists:
\* finish never acknowledges an event whose handler did not commit.
DoneMeansMailed ==
    \A e \in Events : status[e] = "done" => e \in delivered /\ mails[e] > 0

\* The lease is a mutual exclusion: as long as no lease ran out under a live
\* worker, no two workers are in process_once with the same event, crashes or not.
LeaseExclusive ==
    overruns = 0 => \A v, w \in Workers :
        pc[v] # "idle" /\ pc[w] # "idle" /\ job[v] = job[w] => v = w

\* The retry budget: an event is claimed at most max_attempts times, plus once for
\* every claim that was left behind with an expired lease.
RetryBudget == \A e \in Events : attempts[e] <= MaxAttempts + reclaims[e]

\* A mail with a delivery row is never reported as failed, unless a worker was late:
\* the redelivery of a recorded event ends in "done".
RecordedIsNotFailed ==
    overruns = 0 => \A e \in delivered : status[e] # "failed"

\* A command that committed has its event in the table: enqueue never takes another
\* transaction's uncommitted row for an existing event.
CommittedHasEvent ==
    \A c \in Commands : command[c] = "committed" => Exists(target[c])

\* A settled event stays settled, unless a worker was late: no finish of an earlier
\* claim reopens it.
SettledIsFinal ==
    [][\A e \in Events :
        overruns = 0 /\ status[e] \in Settled => status'[e] = status[e]]_vars

\* Every event that exists is settled for good in the end: a crashed worker's claim
\* is picked up again, and retries come to an end.
EventsSettle == \A e \in Events : Exists(e) ~> [](status[e] \in Settled)

\* The outbox keeps the promise of MailPromise.
Closed(e) == IF status[e] \in Settled THEN status[e] ELSE "open"

Promise == INSTANCE MailPromise WITH
    published <- {e \in Events : Exists(e)},
    recorded <- delivered,
    closed <- [e \in Events |-> Closed(e)],
    late <- overruns > 0

KeepsPromise == Promise!Spec

=============================================================================
