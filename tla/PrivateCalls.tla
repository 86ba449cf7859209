---------------------------- MODULE PrivateCalls ----------------------------
(***************************************************************************)
(* "Ring for mig": calls to businesses on a private user's behalf, paid     *)
(* with a plan call of the month or with reserved credits                   *)
(* (app/modules/privat/calls.py, ledger.py, subscriptions.py).              *)
(*                                                                         *)
(* One workspace.  A call is <<t, n>>: the n-th call of task t; retry adds   *)
(* the next one.  Five parties interleave: the user's requests, the thread   *)
(* that dials (a request, or the worker for a scheduled call), Vapi, its     *)
(* end-of-call and call-back reports, and the worker's stale sweep.  Every   *)
(* action is one database transaction.  One month: the plan calls and    *)
(* the credits there are do not change but for what is modelled here.       *)
(***************************************************************************)
EXTENDS Integers, FiniteSets

CONSTANTS
    Tasks,         \* private_tasks of kind "call"
    MaxCalls,      \* bound on calls proposed, first ones and retries
    Means,         \* plan calls a month (0: not entitled) and credits granted or bought before
    MaxCrashes     \* bound on crashes of a dialling process

CALL_CREDITS == 3

ASSUME ConstantsAssumption ==
    /\ IsFiniteSet(Tasks)
    /\ MaxCalls \in Nat \ {0}
    /\ Means \subseteq [quota : Nat, grant : Nat]
    /\ MaxCrashes \in Nat

Calls == Tasks \X (1..MaxCalls)

VARIABLES
    means,        \* the plan calls and credits of this month
    \* private_calls
    status, result, paid_via,
    old,          \* calls with dialled_at before the sweep's cutoff
    \* private_tasks: the task's status, and its number of calls
    task, newest,
    \* credit_ledger: <<call, kind>> for source_ref call:<id>:<kind>
    ledger,
    \* webhook_events: calls whose end-of-call report was recorded
    recorded,
    \* requests and threads
    approving,    \* what approve() decided for the task before its commit
    dialler,      \* the thread inside dial()
    callback,     \* the task status a call-back report read before classify()
    \* Vapi: what became of the POST /call, and how often it was sent
    vapi, posts,
    \* history
    overwritten,  \* calls whose reported end was overwritten by dial()
    crashes

rows == <<status, result, paid_via, old>>
tasks == <<task, newest>>
threads == <<approving, dialler, callback>>
provider == <<vapi, posts>>
history == <<overwritten, crashes>>
vars == <<means, rows, tasks, ledger, recorded, threads, provider, history>>

Final == {"answered", "no_answer", "failed", "declined"}
Running == {"dialling", "unknown", "in_progress"}
Statuses == Final \cup Running \cup {"absent", "proposed", "approved", "scheduled"}
TaskStatuses == {"absent", "awaiting_user", "planned", "in_progress", "done", "awaiting_business", "declined"}
Kinds == {"reserve", "capture", "release"}
Ended == {"answered", "no_answer"}

TypeOK ==
    /\ means \in Means
    /\ status \in [Calls -> Statuses]
    /\ result \in [Calls -> Final \cup {"null"}]
    /\ paid_via \in [Calls -> {"null", "plan", "credits"}]
    /\ old \subseteq Calls
    /\ task \in [Tasks -> TaskStatuses]
    /\ newest \in [Tasks -> 0..MaxCalls]
    /\ ledger \subseteq Calls \X Kinds
    /\ recorded \subseteq Calls
    /\ approving \in [Tasks -> {"no", "plan", "credits"}]
    /\ dialler \in [Calls -> {"none", "started", "posting"}]
    /\ callback \in [Calls -> TaskStatuses \cup {"none"}]
    /\ vapi \in [Calls -> {"none", "sent", "refused", "live"} \cup Ended]
    /\ posts \in [Calls -> Nat]
    /\ overwritten \subseteq Calls
    /\ crashes \in 0..MaxCrashes

Init ==
    /\ means \in Means
    /\ status = [c \in Calls |-> "absent"]
    /\ result = [c \in Calls |-> "null"]
    /\ paid_via = [c \in Calls |-> "null"]
    /\ old = {}
    /\ task = [t \in Tasks |-> "absent"]
    /\ newest = [t \in Tasks |-> 0]
    /\ ledger = {}
    /\ recorded = {}
    /\ approving = [t \in Tasks |-> "no"]
    /\ dialler = [c \in Calls |-> "none"]
    /\ callback = [c \in Calls |-> "none"]
    /\ vapi = [c \in Calls |-> "none"]
    /\ posts = [c \in Calls |-> 0]
    /\ overwritten = {}
    /\ crashes = 0

Newest(t) == <<t, newest[t]>>

\* ledger.add: a source_ref that exists already adds nothing.
Book(c, kind) == ledger' = ledger \cup {<<c, kind>>}

Entries(kind) == {c \in Calls : <<c, kind>> \in ledger}

Balance ==
    means.grant - CALL_CREDITS * Cardinality(Entries("reserve"))
          + CALL_CREDITS * Cardinality(Entries("release"))

\* subscriptions.calls_used: plan calls not lost to no answer or failure.
Counted == {c \in Calls : paid_via[c] = "plan" /\ result[c] \notin {"no_answer", "failed"}}

CallsLeft == IF Cardinality(Counted) < means.quota THEN means.quota - Cardinality(Counted) ELSE 0

-----------------------------------------------------------------------------
(* The user: propose (the chat asks, the user is told), approve, decline, retry. *)

NewCall(t) ==
    /\ Cardinality({c \in Calls : status[c] # "absent"}) < MaxCalls /\ newest[t] < MaxCalls
    /\ newest' = [newest EXCEPT ![t] = @ + 1]
    /\ status' = [status EXCEPT ![<<t, newest[t] + 1>>] = "proposed"]
    /\ task' = [task EXCEPT ![t] = "awaiting_user"]
    /\ UNCHANGED <<means, result, paid_via, old, ledger, recorded, threads, provider, history>>

\* propose(): a task with its first call
Propose(t) == task[t] = "absent" /\ NewCall(t)

ProfileLocked == \E t \in Tasks : approving[t] # "no"

Approvable(t) ==
    /\ approving[t] = "no"
    /\ task[t] = "awaiting_user"
    /\ status[Newest(t)] = "proposed"

Decide(t) ==
    /\ CallsLeft > 0 \/ Balance >= CALL_CREDITS
    /\ approving' = [approving EXCEPT ![t] = IF CallsLeft > 0 THEN "plan" ELSE "credits"]
    /\ UNCHANGED <<means, rows, tasks, ledger, recorded, dialler, callback, provider, history>>

\* Variant: the profile row is not locked.
ApproveCheck_NoLock(t) == Approvable(t) /\ Decide(t)

\* approve() up to the payment decision.  It holds the locks on the task, its newest
\* call and the workspace's profile until the commit.  Neither a plan call nor the
\* credits left: 409 insufficient_credits, nothing changes.
ApproveCheck(t) ==
    /\ Approvable(t)
    /\ ~ProfileLocked
    /\ Decide(t)

Pay(c, how) ==
    /\ paid_via' = [paid_via EXCEPT ![c] = how]
    /\ IF how = "credits" THEN Book(c, "reserve") ELSE UNCHANGED ledger

\* approve(), in calling hours: approved, committed, and this request dials.
ApproveNow(t) ==
    /\ approving[t] # "no"
    /\ status' = [status EXCEPT ![Newest(t)] = "approved"]
    /\ Pay(Newest(t), approving[t])
    /\ task' = [task EXCEPT ![t] = "in_progress"]
    /\ approving' = [approving EXCEPT ![t] = "no"]
    /\ dialler' = [dialler EXCEPT ![Newest(t)] = "started"]
    /\ UNCHANGED <<means, result, old, newest, recorded, callback, provider, history>>

\* approve(at_next_open): scheduled, with a privat.call_due event for the worker.
ApproveLater(t) ==
    /\ approving[t] # "no"
    /\ status' = [status EXCEPT ![Newest(t)] = "scheduled"]
    /\ Pay(Newest(t), approving[t])
    /\ task' = [task EXCEPT ![t] = "planned"]
    /\ approving' = [approving EXCEPT ![t] = "no"]
    /\ UNCHANGED <<means, result, old, newest, recorded, dialler, callback, provider, history>>

\* approve() refuses for another reason (closed, not configured): 409, rolled back.
ApproveRefused(t) ==
    /\ approving[t] # "no"
    /\ approving' = [approving EXCEPT ![t] = "no"]
    /\ UNCHANGED <<means, rows, tasks, ledger, recorded, dialler, callback, provider, history>>

Declinable(c) == status[c] \in {"proposed", "scheduled"}

\* decline(): a proposal, or a planned call, whose credits come back.
Decline(t) ==
    LET c == Newest(t) IN
    /\ approving[t] = "no" /\ task[t] # "absent"
    /\ Declinable(c)
    /\ status' = [status EXCEPT ![c] = "declined"]
    /\ result' = [result EXCEPT ![c] = "declined"]
    /\ task' = [task EXCEPT ![t] = "declined"]
    /\ IF status[c] = "scheduled" /\ paid_via[c] = "credits"
       THEN Book(c, "release") ELSE UNCHANGED ledger
    /\ UNCHANGED <<means, paid_via, old, newest, recorded, threads, provider, history>>

\* retry(): a new proposal for a call that came to nothing.
Retry(t) ==
    /\ approving[t] = "no" /\ task[t] # "absent"
    /\ status[Newest(t)] \in {"no_answer", "failed", "declined"}
    /\ NewCall(t)

-----------------------------------------------------------------------------
(* The worker's privat.call_due event, and dial().                          *)

\* Variant: a redelivered event dials again unless the call is over.
DueNow_Redelivered(c) == status[c] \in {"scheduled", "approved", "dialling"} /\ dialler[c] = "none"

DueNow(c) == status[c] = "scheduled"

\* handle_call_due in calling hours.  Out of hours it is queued again; with the task
\* declined or done it returns; redelivered it finds the status changed.
CallDue(c) ==
    /\ DueNow(c)
    /\ task[c[1]] \notin {"declined", "done"}
    /\ status' = [status EXCEPT ![c] = "approved"]
    /\ task' = [task EXCEPT ![c[1]] = "in_progress"]
    /\ dialler' = [dialler EXCEPT ![c] = "started"]
    /\ UNCHANGED <<means, result, paid_via, old, newest, ledger, recorded, approving, callback, provider, history>>

\* dial(): "dialling" is committed before the request is sent.
DialStart(c) ==
    /\ dialler[c] = "started"
    /\ status[c] = "approved"
    /\ status' = [status EXCEPT ![c] = "dialling"]
    /\ dialler' = [dialler EXCEPT ![c] = "posting"]
    /\ vapi' = [vapi EXCEPT ![c] = "sent"]
    /\ posts' = [posts EXCEPT ![c] = @ + 1]
    /\ UNCHANGED <<means, result, paid_via, old, tasks, ledger, recorded, approving, callback, history>>

\* Writes to a task wait for the lock that approve() holds on it.
TaskFree(c) == approving[c[1]] = "no"

\* Variant: the release is given a result the table does not have.
Release_ReasonAsResult(c, how) ==
    /\ result' = [result EXCEPT ![c] = "no_report"]
    /\ task' = [task EXCEPT ![c[1]] = "awaiting_user"]
    /\ IF paid_via[c] = "plan" THEN UNCHANGED ledger ELSE Book(c, "release")

\* _release: the call came to nothing; reserved credits go back.
Release(c, how) ==
    /\ result' = [result EXCEPT ![c] = how]
    /\ task' = [task EXCEPT ![c[1]] = "awaiting_user"]
    /\ IF paid_via[c] = "plan" THEN UNCHANGED ledger ELSE Book(c, "release")

\* The end of dial(): the row is locked again and its status set, whatever the row says.
DialEnd(c, new) ==
    /\ dialler[c] = "posting"
    /\ dialler' = [dialler EXCEPT ![c] = "none"]
    /\ status' = [status EXCEPT ![c] = new]
    /\ overwritten' = IF status[c] \in Final THEN overwritten \cup {c} ELSE overwritten
    /\ UNCHANGED <<means, paid_via, old, newest, recorded, approving, callback, provider, crashes>>

\* Vapi answered the POST with a call id.
DialAccepted(c) ==
    /\ vapi[c] \in {"live"} \cup Ended
    /\ DialEnd(c, "in_progress")
    /\ UNCHANGED <<result, task, ledger>>

\* No answer within the timeout: the call may exist, so it is only marked unknown.
DialSilent(c) ==
    /\ DialEnd(c, "unknown")
    /\ UNCHANGED <<result, task, ledger>>

\* Vapi refused the call.
DialRejected(c) ==
    /\ TaskFree(c)
    /\ vapi[c] = "refused"
    /\ DialEnd(c, "failed")
    /\ Release(c, "failed")

\* The process that dials dies, or dial() raises before or during the POST; nothing
\* resumes it.
Crash(c) ==
    /\ dialler[c] # "none"
    /\ crashes < MaxCrashes
    /\ dialler' = [dialler EXCEPT ![c] = "none"]
    /\ crashes' = crashes + 1
    /\ UNCHANGED <<means, rows, tasks, ledger, recorded, approving, callback, provider, overwritten>>

-----------------------------------------------------------------------------
(* Vapi (campaigns.create_call's POST).                                      *)

VapiTakes(c) ==
    /\ vapi[c] = "sent"
    /\ \E v \in {"live", "refused"} : vapi' = [vapi EXCEPT ![c] = v]
    /\ UNCHANGED <<means, rows, tasks, ledger, recorded, threads, posts, history>>

CallEnds(c) ==
    /\ vapi[c] = "live"
    /\ \E v \in Ended : vapi' = [vapi EXCEPT ![c] = v]
    /\ UNCHANGED <<means, rows, tasks, ledger, recorded, threads, posts, history>>

-----------------------------------------------------------------------------
(* Reports.  A report may arrive at any time after the call, several times   *)
(* or never.                                                                *)

\* Variant: the report is applied whatever became of the call.
Reportable_Always(c) == TRUE

Reportable(c) == status[c] \notin Final

\* on_report, the business did not answer.
ReportNoAnswer(c) ==
    /\ TaskFree(c)
    /\ vapi[c] = "no_answer"
    /\ c \notin recorded
    /\ Reportable(c)
    /\ status' = [status EXCEPT ![c] = "no_answer"]
    /\ Release(c, "no_answer")
    /\ recorded' = recorded \cup {c}
    /\ UNCHANGED <<means, paid_via, old, newest, threads, provider, history>>

\* on_report, the business answered: the reservation is captured, and the classified
\* outcome (confirmed or info, callback) sets the task.
ReportAnswered(c) ==
    /\ TaskFree(c)
    /\ vapi[c] = "answered"
    /\ c \notin recorded
    /\ Reportable(c)
    /\ status' = [status EXCEPT ![c] = "answered"]
    /\ result' = [result EXCEPT ![c] = "answered"]
    /\ IF paid_via[c] = "plan" THEN UNCHANGED ledger ELSE Book(c, "capture")
    /\ \E s \in {"done", "awaiting_business"} : task' = [task EXCEPT ![c[1]] = s]
    /\ recorded' = recorded \cup {c}
    /\ UNCHANGED <<means, paid_via, old, newest, threads, provider, history>>

\* The business calls back within 14 days of a dialled call: on_callback_report reads
\* the task, then classifies the transcript (a request to the language model).
CallbackRead(c) ==
    /\ posts[c] > 0
    /\ callback[c] = "none"
    /\ callback' = [callback EXCEPT ![c] = task[c[1]]]
    /\ UNCHANGED <<means, rows, tasks, ledger, recorded, approving, dialler, provider, history>>

\* ... and writes the task: done when confirmed, or when it was waiting for this.  A
\* column that keeps the value it was read with is not written.
CallbackWrite(c) ==
    /\ callback[c] # "none"
    /\ TaskFree(c)
    /\ \E confirmed \in BOOLEAN :
        task' = [task EXCEPT ![c[1]] =
            IF callback[c] # "done" /\ (confirmed \/ callback[c] = "awaiting_business")
            THEN "done" ELSE @]
    /\ callback' = [callback EXCEPT ![c] = "none"]
    /\ UNCHANGED <<means, rows, newest, ledger, recorded, approving, dialler, provider, history>>

-----------------------------------------------------------------------------
(* The stale sweep.                                                         *)

\* Thirty minutes after dialled_at.  The POST has a timeout of 20 seconds and a call
\* lasts at most three minutes, so both are over.
GetsOld(c) ==
    /\ status[c] \in Running
    /\ c \notin old
    /\ dialler[c] = "none"
    /\ vapi[c] \notin {"sent", "live"}
    /\ old' = old \cup {c}
    /\ UNCHANGED <<means, status, result, paid_via, tasks, ledger, recorded, threads, provider, history>>

\* Variants: the sweep leaves calls without an answer from Vapi alone; it looks at the
\* age only.
Sweepable_InProgress(c) == status[c] = "in_progress" /\ c \in old
Sweepable_AnyStatus(c) == c \in old

Sweepable(c) == status[c] \in Running /\ c \in old

\* sweep_stale, for one row.
Sweep(c) ==
    /\ TaskFree(c)
    /\ Sweepable(c)
    /\ status' = [status EXCEPT ![c] = "failed"]
    /\ Release(c, "failed")
    /\ UNCHANGED <<means, paid_via, old, newest, recorded, threads, provider, history>>

-----------------------------------------------------------------------------
UserStep(t) ==
    \/ Propose(t)
    \/ ApproveCheck(t)
    \/ Decline(t)
    \/ Retry(t)

CommitStep(t) == ApproveNow(t) \/ ApproveLater(t) \/ ApproveRefused(t)

DialStep(c) ==
    \/ DialStart(c)
    \/ DialAccepted(c)
    \/ DialSilent(c)
    \/ DialRejected(c)

VapiStep(c) == VapiTakes(c) \/ CallEnds(c)

ReportStep(c) ==
    \/ ReportNoAnswer(c)
    \/ ReportAnswered(c)
    \/ CallbackRead(c)
    \/ CallbackWrite(c)

Next ==
    \/ \E t \in Tasks : UserStep(t) \/ CommitStep(t)
    \/ \E c \in Calls :
        \/ CallDue(c)
        \/ DialStep(c)
        \/ Crash(c)
        \/ VapiStep(c)
        \/ ReportStep(c)
        \/ GetsOld(c)
        \/ Sweep(c)

Spec == Init /\ [][Next]_vars

\* Requests and threads run on, the worker handles due events and sweeps, calls end
\* and time passes.  The user need not act, and a report need never arrive.
Fairness ==
    /\ \A t \in Tasks : WF_vars(CommitStep(t))
    /\ \A c \in Calls :
        /\ WF_vars(CallDue(c))
        /\ WF_vars(DialStep(c))
        /\ WF_vars(VapiStep(c))
        /\ WF_vars(GetsOld(c))
        /\ WF_vars(Sweep(c))

FairSpec == Spec /\ Fairness

-----------------------------------------------------------------------------
(* Properties.                                                              *)

Held(c) == <<c, "reserve">> \in ledger

\* Credits are never overdrawn and the month's plan calls never exceeded, however
\* many tasks are approved at once: the profile lock serialises the decisions.
WithinMeans == Balance >= 0 /\ Cardinality(Counted) <= means.quota

\* Vapi is asked at most once per approved call, and never for one that the user
\* declined: redelivered events, crashes and timeouts never dial again.
DialledOnce ==
    \A c \in Calls :
        /\ posts[c] <= 1
        /\ posts[c] = 1 => paid_via[c] # "null"
        /\ status[c] = "declined" => posts[c] = 0

\* A reservation is captured or released, not both, unless dial() overwrote the
\* reported end of the call; nothing is captured or released without one.
SettledOnce ==
    \A c \in Calls :
        /\ {<<c, "capture">>, <<c, "release">>} \subseteq ledger => c \in overwritten
        /\ {<<c, "capture">>, <<c, "release">>} \cap ledger # {} => Held(c)

\* Once no thread is inside dial() for it, a call that is over stays as it is: late
\* and repeated reports, sweeps and retries change nothing.
OverIsOver ==
    [][\A c \in Calls :
        status[c] \in Final /\ dialler[c] = "none" =>
            status'[c] = status[c] /\ result'[c] = result[c]
            /\ \A k \in Kinds : <<c, k>> \in ledger' => <<c, k>> \in ledger]_vars

\* The two ways a reservation is left open: the thread died between the commit of
\* "approved" and the one of "dialling"; a call-back closed the task of a planned call.
Orphaned(c) == status[c] = "approved" /\ dialler[c] = "none"
Parked(c) == status[c] = "scheduled" /\ task[c[1]] \in {"done", "declined"}

Settled(c) == {<<c, "capture">>, <<c, "release">>} \cap ledger # {}

\* Every reservation is captured or released in the end, with or without a report,
\* except in those two cases.
ReservationsSettle ==
    \A c \in Calls : Held(c) ~> (Settled(c) \/ Orphaned(c) \/ Parked(c))

=============================================================================
