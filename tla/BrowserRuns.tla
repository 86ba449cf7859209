----------------------------- MODULE BrowserRuns -----------------------------
(***************************************************************************)
(* Bookings on a business's website: the run's row and the requests of the   *)
(* user (app/modules/browser/service.py), the one worker process that         *)
(* handles their events and sweeps (browser_worker/runner.py), and a thread   *)
(* per run that drives a page, waits for the user's yes and presses confirm   *)
(* (browser_worker/orchestrator.py, session.py).                              *)
(*                                                                         *)
(* A run's proposal is an offer: what the filled-in form says.  Every         *)
(* preparation of the page may come to another offer, or fail.  Runs share    *)
(* nothing but the worker and its browsers, for which a thread waits as long   *)
(* as it takes.  The task's texts and messages are left out.                  *)
(***************************************************************************)
EXTENDS Naturals, FiniteSets

CONSTANTS
    Runs,        \* browser_runs
    Offers,      \* what a filled-in form may say (SAME_AS_APPROVED_KEYS)
    MaxCrashes   \* bound on restarts of the worker process

ASSUME CrashesAssumption == MaxCrashes \in Nat

VARIABLES
    \* browser_runs: status, error_code, mode, before_after, result._confirming, a fresh
    \* result._live_until, and whether the cutoff that counts in this status has passed
    status, code, mode, proposal, confirming, heartbeat, aged,
    ledger,      \* credit_ledger: kinds of the run's entries
    \* the worker: events in the outbox, and the one handled last, which a restart may
    \* find unfinished
    queue, last,
    \* the run's thread: where it is, whether it replays, what its form says, and the end
    \* it is about to write
    thread, replay, form, verdict,
    \* history: the offer of the last yes, confirming clicks, runs where one did not fit the
    \* yes, runs the page committed without one, runs the user called off, restarts
    yes, clicks, misfits, accidents, refused, crashes

state == <<status, code, aged, ledger>>
details == <<mode, proposal, confirming, heartbeat>>
worker == <<queue, last>>
threads == <<thread, replay, form, verdict>>
history == <<yes, clicks, misfits, accidents, refused, crashes>>
vars == <<state, details, worker, threads, history>>

None == "none"
Final == {"done", "failed", "fallback_phone"}
Statuses == Final \cup {"absent", "planned", "running", "awaiting_approval", "approved"}
Kinds == {"reserve", "capture", "release"}
Events == Runs \X {"run", "decision"}

\* How a thread ends a run: the status, the error code, and what becomes of the credit.
Verdicts == {"done", "fallback", "failed", "unconfirmed", "unexpected"}

StatusOf(v) ==
    CASE v = "done" -> "done"
      [] v = "fallback" -> "fallback_phone"
      [] OTHER -> "failed"

CodeOf(v) ==
    CASE v = "done" -> None
      [] v = "unconfirmed" -> "commit_unconfirmed"
      [] v = "unexpected" -> "unexpected_commit"
      [] OTHER -> "other"

\* _settle_credit's argument: a booking, or a click that may have booked.
Spent(v) == v \in {"done", "unconfirmed", "unexpected"}

Codes == {CodeOf(v) : v \in Verdicts} \cup
    {"declined", "approval_expired", "user_switched", "session_expired", "worker_lost"}

TypeOK ==
    /\ status \in [Runs -> Statuses]
    /\ code \in [Runs -> Codes]
    /\ mode \in [Runs -> {None, "playbook", "llm"}]
    /\ proposal \in [Runs -> Offers \cup {None}]
    /\ confirming \in [Runs -> BOOLEAN]
    /\ heartbeat \in [Runs -> BOOLEAN]
    /\ aged \in [Runs -> BOOLEAN]
    /\ ledger \in [Runs -> SUBSET Kinds]
    /\ queue \subseteq Events
    /\ last \subseteq Events /\ Cardinality(last) <= 1
    /\ thread \in [Runs -> {None, "queued", "preparing", "waiting", "taking", "taken",
                           "marked", "clear", "clicked", "writing", "ending"}]
    /\ replay \in [Runs -> BOOLEAN]
    /\ form \in [Runs -> Offers \cup {None}]
    /\ verdict \in [Runs -> Verdicts \cup {None}]
    /\ yes \in [Runs -> Offers \cup {None}]
    /\ clicks \in [Runs -> Nat]
    /\ misfits \subseteq Runs
    /\ accidents \subseteq Runs
    /\ refused \subseteq Runs
    /\ crashes \in 0..MaxCrashes

Init ==
    /\ status = [r \in Runs |-> "absent"]
    /\ code = [r \in Runs |-> None]
    /\ mode = [r \in Runs |-> None]
    /\ proposal = [r \in Runs |-> None]
    /\ confirming = [r \in Runs |-> FALSE]
    /\ heartbeat = [r \in Runs |-> FALSE]
    /\ aged = [r \in Runs |-> FALSE]
    /\ ledger = [r \in Runs |-> {}]
    /\ queue = {}
    /\ last = {}
    /\ thread = [r \in Runs |-> None]
    /\ replay = [r \in Runs |-> FALSE]
    /\ form = [r \in Runs |-> None]
    /\ verdict = [r \in Runs |-> None]
    /\ yes = [r \in Runs |-> None]
    /\ clicks = [r \in Runs |-> 0]
    /\ misfits = {}
    /\ accidents = {}
    /\ refused = {}
    /\ crashes = 0

-----------------------------------------------------------------------------
(* The row.  A change of status starts the clock of the new one.            *)

Move(r, to) ==
    /\ status' = [status EXCEPT ![r] = to]
    /\ aged' = [aged EXCEPT ![r] = FALSE]

\* finish_done, finish_failed, finish_fallback: the end, and the reserved credit spent or
\* released.  A ledger entry that exists already is not added again.
End(r, to, why, spent) ==
    /\ Move(r, to)
    /\ code' = [code EXCEPT ![r] = why]
    /\ ledger' = [ledger EXCEPT ![r] = @ \cup {IF spent THEN "capture" ELSE "release"}]

-----------------------------------------------------------------------------
(* The user.                                                                *)

\* start_run, for a task of its own.
Plan(r) ==
    /\ status[r] = "absent"
    /\ Move(r, "planned")
    /\ ledger' = [ledger EXCEPT ![r] = {"reserve"}]
    /\ queue' = queue \cup {<<r, "run">>}
    /\ UNCHANGED <<code, details, last, threads, history>>

\* approve, with the row locked; a second yes finds the run approved.
Approve(r) ==
    /\ status[r] = "awaiting_approval" /\ ~aged[r]
    /\ Move(r, "approved")
    /\ yes' = [yes EXCEPT ![r] = proposal[r]]
    /\ queue' = queue \cup {<<r, "decision">>}
    /\ UNCHANGED <<code, ledger, details, last, threads, clicks, misfits, accidents, refused, crashes>>

\* A proposal older than APPROVAL_MAX_AGE.
ApproveTooLate(r) ==
    /\ status[r] = "awaiting_approval" /\ aged[r]
    /\ End(r, "failed", "approval_expired", FALSE)
    /\ UNCHANGED <<details, worker, threads, history>>

CallOff(r) ==
    /\ refused' = refused \cup {r}
    /\ UNCHANGED <<details, worker, threads, yes, clicks, misfits, accidents, crashes>>

\* The event that decline enqueues has no effect (handle_decision) and is left out.
Decline(r) ==
    /\ status[r] \in {"awaiting_approval", "approved"}
    /\ End(r, "failed", "declined", FALSE)
    /\ CallOff(r)

\* Variant: the mark of a thread that is about to confirm is not looked at.
Switchable_Unmarked(r) == status[r] \notin Final \cup {"absent"}

Switchable(r) == status[r] \notin Final \cup {"absent"} /\ ~confirming[r]

\* cancel_for_phone ("ring i stedet").
Switch(r) ==
    /\ Switchable(r)
    /\ End(r, "fallback_phone", "user_switched", FALSE)
    /\ CallOff(r)

-----------------------------------------------------------------------------
(* The worker's main loop: events and the sweep.                            *)

\* The run's thread is alive in this process.
Driven(r) == thread[r] # None

Take(e) ==
    /\ e \in queue
    /\ queue' = queue \ {e}
    /\ last' = {e}

\* spawn: nothing when a thread drives the run already.
Spawn(r, again) ==
    /\ IF Driven(r) THEN UNCHANGED <<thread, replay>>
       ELSE /\ thread' = [thread EXCEPT ![r] = "queued"]
            /\ replay' = [replay EXCEPT ![r] = again]
    /\ UNCHANGED <<form, verdict>>

HandleRun(r) ==
    /\ Take(<<r, "run">>)
    /\ Spawn(r, FALSE)
    /\ UNCHANGED <<state, details, history>>

\* Nobody waits for this yes any more.
Resumable(r) == status[r] = "approved" /\ ~heartbeat[r] /\ ~Driven(r)

\* handle_decision: the run is not approved any more, or the live session confirms.
DecisionMoot(r) ==
    /\ Take(<<r, "decision">>)
    /\ ~Resumable(r)
    /\ UNCHANGED <<state, details, threads, history>>

DecisionReplays(r) ==
    /\ Take(<<r, "decision">>)
    /\ Resumable(r) /\ mode[r] = "playbook"
    /\ Spawn(r, TRUE)
    /\ UNCHANGED <<state, details, history>>

\* A run of the language model cannot be replayed.
DecisionGivesUp(r) ==
    /\ Take(<<r, "decision">>)
    /\ Resumable(r) /\ mode[r] # "playbook"
    /\ End(r, "fallback_phone", "session_expired", FALSE)
    /\ UNCHANGED <<details, threads, history>>

\* Variant: only runs that were started are swept.
Lost_Running(r) == status[r] = "running" /\ aged[r] /\ ~Driven(r)

Lost(r) == status[r] \in {"planned", "running"} /\ aged[r] /\ ~Driven(r)

SweepLost(r) ==
    /\ Lost(r)
    /\ End(r, "failed", "worker_lost", FALSE)
    /\ UNCHANGED <<details, worker, threads, history>>

\* An approved run that nobody confirms gets a new event.
SweepApproved(r) ==
    /\ Resumable(r) /\ aged[r]
    /\ <<r, "decision">> \notin queue
    /\ queue' = queue \cup {<<r, "decision">>}
    /\ UNCHANGED <<state, details, last, threads, history>>

\* The process is restarted: its threads and their browsers are gone.
Crash ==
    /\ crashes < MaxCrashes
    /\ crashes' = crashes + 1
    /\ thread' = [r \in Runs |-> None]
    /\ form' = [r \in Runs |-> None]
    /\ verdict' = [r \in Runs |-> None]
    /\ queue' \in {queue, queue \cup last}
    /\ last' = {}
    /\ UNCHANGED <<state, details, replay, yes, clicks, misfits, accidents, refused>>

-----------------------------------------------------------------------------
(* The thread: _drive.                                                      *)

Goto(r, pc) == thread' = [thread EXCEPT ![r] = pc]

\* The compare-and-set with which a thread takes a run.
StartsFrom(r) == IF replay[r] THEN {"approved"} ELSE {"planned"}

\* The thread has waited for one of the MAX_CONCURRENT browsers, for any time.
Start(r) ==
    /\ thread[r] = "queued"
    /\ status[r] \in StartsFrom(r)
    /\ Move(r, "running")
    /\ Goto(r, "preparing")
    /\ UNCHANGED <<code, ledger, details, worker, replay, form, verdict, history>>

\* Somebody else drives it, or it was called off meanwhile.
StartMoot(r) ==
    /\ thread[r] = "queued"
    /\ status[r] \notin StartsFrom(r)
    /\ Goto(r, None)
    /\ UNCHANGED <<state, details, worker, replay, form, verdict, history>>

\* _settle up to its check that the run is still running; the row is not locked.
Conclude(r, v) ==
    /\ IF status[r] = "running"
       THEN Goto(r, "writing") /\ verdict' = [verdict EXCEPT ![r] = v]
       ELSE Goto(r, "ending") /\ UNCHANGED verdict
    /\ UNCHANGED <<state, details, worker, replay, form, yes, clicks, misfits, refused, crashes>>

\* CAPTCHA, login, no free time, budgets, a page nobody understands, a cancelled run.
PrepareFails(r) ==
    /\ thread[r] = "preparing"
    /\ \E v \in {"fallback", "failed"} : Conclude(r, v)
    /\ UNCHANGED accidents

\* An innocent click turned out to commit (unexpected_commit).
Accident(r) ==
    /\ thread[r] = "preparing"
    /\ accidents' = accidents \cup {r}
    /\ Conclude(r, "unexpected")

\* Variant: a replay confirms whatever it finds.
SameOffer_Any(r, o) == replay[r]

\* The replay came to exactly the offer the user said yes to.
SameOffer(r, o) == replay[r] /\ o = proposal[r]

Reconfirm(r) ==
    /\ thread[r] = "preparing"
    /\ \E o \in Offers : SameOffer(r, o) /\ form' = [form EXCEPT ![r] = o]
    /\ Goto(r, "taken")
    /\ UNCHANGED <<state, details, worker, replay, verdict, history>>

\* enter_awaiting: the form is filled in and the session kept alive for the answer.
AskUser(r) ==
    /\ thread[r] = "preparing"
    /\ status[r] = "running"
    /\ \E o \in Offers, m \in {"playbook", "llm"} :
        /\ ~SameOffer(r, o)
        /\ replay[r] => m = "playbook"
        /\ form' = [form EXCEPT ![r] = o]
        /\ proposal' = [proposal EXCEPT ![r] = o]
        /\ mode' = [mode EXCEPT ![r] = m]
    /\ Move(r, "awaiting_approval")
    /\ heartbeat' = [heartbeat EXCEPT ![r] = TRUE]
    /\ Goto(r, "waiting")
    /\ UNCHANGED <<code, ledger, confirming, worker, replay, verdict, history>>

\* _wait_for_decision.
SeeAnswer(r) ==
    /\ thread[r] = "waiting"
    /\ status[r] # "awaiting_approval"
    /\ Goto(r, IF status[r] = "approved" THEN "taking" ELSE "ending")
    /\ UNCHANGED <<state, details, worker, replay, form, verdict, history>>

\* The approval TTL is over: the browser is closed, the run stays as it is.
LetGo(r) ==
    /\ thread[r] = "waiting"
    /\ status[r] # "approved"
    /\ heartbeat' = [heartbeat EXCEPT ![r] = FALSE]
    /\ Goto(r, "ending")
    /\ UNCHANGED <<state, mode, proposal, confirming, worker, replay, form, verdict, history>>

\* The compare-and-set from approved to running.
TakeYes(r) ==
    /\ thread[r] = "taking"
    /\ IF status[r] = "approved"
       THEN Move(r, "running") /\ Goto(r, "taken")
       ELSE Goto(r, "ending") /\ UNCHANGED <<status, aged>>
    /\ UNCHANGED <<code, ledger, details, worker, replay, form, verdict, history>>

\* _mark_confirming: written whatever the status is by now.
Mark(r) ==
    /\ thread[r] = "taken"
    /\ confirming' = [confirming EXCEPT ![r] = TRUE]
    /\ Goto(r, "marked")
    /\ UNCHANGED <<state, mode, proposal, heartbeat, worker, replay, form, verdict, history>>

\* The session's cancel_check before the click.
CheckCancelled(r) ==
    /\ thread[r] = "marked"
    /\ Goto(r, IF status[r] \in {"running", "approved", "awaiting_approval"} THEN "clear" ELSE "ending")
    /\ UNCHANGED <<state, details, worker, replay, form, verdict, history>>

\* The confirming element is not there any more, or the page is gone; one that is disabled
\* counts as pressed.
ConfirmMisses(r) ==
    /\ thread[r] = "clear"
    /\ \E v \in {"fallback", "failed", "unconfirmed"} : Conclude(r, v)
    /\ UNCHANGED accidents

Click(r) ==
    /\ thread[r] = "clear"
    /\ clicks' = [clicks EXCEPT ![r] = @ + 1]
    /\ misfits' = IF form[r] = yes[r] THEN misfits ELSE misfits \cup {r}
    /\ Goto(r, "clicked")
    /\ UNCHANGED <<state, details, worker, replay, form, verdict, yes, accidents, refused, crashes>>

\* Variant: without a receipt the run counts as not booked.
Ends_Unread == {"done", "failed"}

\* With a readable receipt, or without one.
EndsAfterClick == {"done", "unconfirmed"}

AfterClick(r) ==
    /\ thread[r] = "clicked"
    /\ \E v \in EndsAfterClick : Conclude(r, v)
    /\ UNCHANGED accidents

\* The rest of _settle: the end is written by primary key, whatever the row says by now.
Settle(r) ==
    /\ thread[r] = "writing"
    /\ End(r, StatusOf(verdict[r]), CodeOf(verdict[r]), Spent(verdict[r]))
    /\ verdict' = [verdict EXCEPT ![r] = None]
    /\ Goto(r, "ending")
    /\ UNCHANGED <<details, worker, replay, form, history>>

\* The browser is closed and free for another run.
Leave(r) ==
    /\ thread[r] = "ending"
    /\ Goto(r, None)
    /\ form' = [form EXCEPT ![r] = None]
    /\ UNCHANGED <<state, details, worker, replay, verdict, history>>

-----------------------------------------------------------------------------
(* Time.                                                                    *)

\* 24 hours for a proposal (longer than a session is held), 90 seconds for a yes, 15 and 20
\* minutes for a planned and a running run.  While a thread drives it nobody looks.
Age(r) ==
    /\ status[r] \in {"planned", "running", "awaiting_approval", "approved"}
    /\ ~Driven(r) /\ ~aged[r]
    /\ aged' = [aged EXCEPT ![r] = TRUE]
    /\ UNCHANGED <<status, code, ledger, details, worker, threads, history>>

\* 15 seconds after the last poll of a live session.
HeartbeatExpires(r) ==
    /\ heartbeat[r] /\ thread[r] # "waiting"
    /\ heartbeat' = [heartbeat EXCEPT ![r] = FALSE]
    /\ UNCHANGED <<state, mode, proposal, confirming, worker, threads, history>>

-----------------------------------------------------------------------------
UserStep(r) == Plan(r) \/ Approve(r) \/ ApproveTooLate(r) \/ Decline(r) \/ Switch(r)

Handle(r) == HandleRun(r) \/ DecisionMoot(r) \/ DecisionReplays(r) \/ DecisionGivesUp(r)

ThreadStep(r) ==
    \/ PrepareFails(r) \/ Accident(r) \/ Reconfirm(r) \/ AskUser(r)
    \/ SeeAnswer(r) \/ LetGo(r) \/ TakeYes(r)
    \/ Mark(r) \/ CheckCancelled(r) \/ ConfirmMisses(r) \/ Click(r) \/ AfterClick(r)
    \/ Settle(r) \/ Leave(r)

Clock(r) == Age(r) \/ HeartbeatExpires(r)

Next ==
    \/ \E r \in Runs :
        \/ UserStep(r)
        \/ Handle(r) \/ SweepLost(r) \/ SweepApproved(r)
        \/ Start(r) \/ StartMoot(r) \/ ThreadStep(r)
        \/ Clock(r)
    \/ Crash

Spec == Init /\ [][Next]_vars

\* The main loop handles every event and sweeps every 30 seconds, threads run on, one that
\* waits for a browser gets it (a held session ends with the approval TTL), and time passes.
\* Nothing obliges the user to answer or the process to be restarted.
Fairness ==
    \A r \in Runs :
        /\ WF_vars(Handle(r)) /\ WF_vars(SweepLost(r)) /\ WF_vars(SweepApproved(r))
        /\ WF_vars(Start(r) \/ StartMoot(r)) /\ WF_vars(ThreadStep(r))
        /\ WF_vars(Age(r)) /\ WF_vars(HeartbeatExpires(r))

FairSpec == Spec /\ Fairness

-----------------------------------------------------------------------------
(* Properties.                                                              *)

\* The confirming click is made at most once per run, whatever becomes of events, threads
\* and restarts, and only for the offer that the user said yes to.
ClickedAsAgreed == \A r \in Runs : clicks[r] <= 1 /\ r \notin misfits

\* A run that the user declined, or moved to the phone, is never confirmed: the answer and
\* the click exclude each other although they are given in different processes.
CalledOffIsNotClicked == \A r \in refused : clicks[r] = 0

\* The credit is settled once, and not released after a click, except when the process died
\* before the thread could say what came of it (worker_lost), or when the user switched to
\* the phone while the thread was writing about a commit nobody asked for.
CreditFollowsClick ==
    \A r \in Runs : "release" \in ledger[r] =>
        /\ clicks[r] > 0 => code[r] = "worker_lost"
        /\ "capture" \in ledger[r] => r \in accidents \cap refused

\* No run hangs while it is the program's turn: it is over in the end, or waits for the user.
RunsSettle ==
    \A r \in Runs :
        status[r] \in {"planned", "running", "approved"} ~> status[r] \in Final \cup {"awaiting_approval"}

=============================================================================
