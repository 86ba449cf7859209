---------------------------- MODULE Provisioning ----------------------------
(***************************************************************************)
(* The telephone number of one workspace (app/modules/telephony/platform.py):   *)
(* the customer's own number, verified by a code read aloud on it, and the job  *)
(* that makes a Twilio sub-account, buys one number in it and imports it into   *)
(* Vapi.                                                                    *)
(*                                                                         *)
(* The job is run by the request that asks for the connection, by an operator   *)
(* and by the worker.  A run is one transaction, kept open over the calls to    *)
(* Twilio and Vapi; it holds the lock on telephony_setups, and the job's row     *)
(* from its first UPDATE (the worker from its SELECT).  Sessions keep what they  *)
(* have loaded (app/db.py: expire_on_commit=False), so a run goes by the job as  *)
(* it was when it was read, before the wait for the lock.                     *)
(***************************************************************************)
EXTENDS Integers, FiniteSets

CONSTANTS
    Requests,      \* requests that run the job: the customer's and the operator's
    Worker,        \* the worker's pass over due jobs
    Numbers,       \* numbers the customer may give as theirs
    Owned,         \* those at which they answer the telephone
    Sold,          \* numbers Twilio has for sale
    Nothing,       \* no number, no answer
    Reviewer,      \* the operator's request that reviews the documents
    GiveUp,        \* attempts after which an unlisted purchase is given up (6)
    MaxCodes,      \* bound on verification calls
    MaxChanges,    \* bound on changes of number, and on documents handed in and reviewed
    MaxFaults      \* bound on provider calls that fail and runs that die

ASSUME ProvisioningAssumption ==
    /\ Worker \notin Requests /\ Owned \subseteq Numbers
    /\ Nothing \notin Numbers \cup Sold \cup Requests \cup {Worker}
    /\ Reviewer \notin Requests \cup {Worker, Nothing}
    /\ GiveUp \in Nat \ {0} /\ MaxCodes \in Nat /\ MaxChanges \in Nat /\ MaxFaults \in Nat

VARIABLES
    setup,         \* telephony_setups: the customer's number, how it was verified, the code that
                   \*   counts, documents_status, destination
    heard,         \* codes read aloud to the customer
    job,           \* telephony_jobs
    stored,        \* telephony_accounts and phone_numbers: the sub-account, numbers with a row,
                   \*   those with a provider_number_id
    locks,         \* who holds the row of telephony_setups, and that of the job
    run,           \* runners: the run in progress
    twilio,        \* sub-accounts made, numbers bought, those of them its list shows
    imports,       \* Vapi: how often a number was imported
    lost,          \* history: how a purchase lost its mark, or went on beside it
    codes, changes, faults \* history: counts for the bounds

vars == <<setup, heard, job, stored, locks, run, twilio, imports, lost, codes, changes, faults>>

Runners == Requests \cup {Worker}
Statuses == {"pending", "running", "waiting", "succeeded", "failed"}
Progress == {"subaccount_sid", "purchase_started", "number_sid"}
NoJob == [status |-> "none", state |-> {}, attempts |-> 0, due |-> FALSE]
Stages == {"idle", "loaded", "locked", "subaccount", "documents", "number", "buy", "import", "commit"}
Idle == [at |-> "idle", seen |-> NoJob, job |-> NoJob, number |-> Nothing, adds |-> {}]

TypeOK ==
    /\ setup.number \in Numbers \cup {Nothing} /\ setup.code \in 0..MaxCodes
    /\ setup.verified_by \in {"nobody", "code_call", "operator"}
    /\ setup.documents \in {"missing", "submitted", "approved", "rejected"}
    /\ setup.destination \in Sold \cup {Nothing}
    /\ heard \subseteq 1..MaxCodes
    /\ job.status \in {"none"} \cup (Statuses \ {"running"}) /\ job.state \subseteq Progress
    /\ job.attempts \in Nat /\ job.due \in BOOLEAN
    /\ stored.account \in BOOLEAN /\ stored.imported \subseteq stored.rows /\ stored.rows \subseteq Sold
    /\ locks.setup \in Runners \cup {Nothing, Reviewer} /\ locks.job \in Runners \cup {Nothing}
    /\ \A r \in Runners : run[r].at \in Stages /\ run[r].number \in Sold \cup {Nothing}
    /\ twilio.accounts \in Nat /\ twilio.bought \subseteq Sold /\ twilio.listed \subseteq twilio.bought
    /\ imports \in [Sold -> Nat] /\ lost \subseteq {"died", "broken", "overwritten", "stale"}
    /\ codes \in 0..MaxCodes /\ changes \in 0..MaxChanges /\ faults \in 0..MaxFaults

Init ==
    /\ setup = [number |-> Nothing, verified_by |-> "nobody", code |-> 0,
                documents |-> "missing", destination |-> Nothing]
    /\ heard = {}
    /\ job = NoJob
    /\ stored = [account |-> FALSE, rows |-> {}, imported |-> {}]
    /\ locks = [setup |-> Nothing, job |-> Nothing]
    /\ run = [r \in Runners |-> Idle]
    /\ twilio = [accounts |-> 0, bought |-> {}, listed |-> {}]
    /\ imports = [n \in Sold |-> 0] /\ lost = {}
    /\ codes = 0 /\ changes = 0 /\ faults = 0

work == <<job, stored, locks, run, twilio, imports, lost>>
Verified == setup.verified_by # "nobody"

(***************************************************************************)
(* The customer's own number; every request holds the lock on the setup.       *)
(***************************************************************************)
Unlocked == locks.setup = Nothing

\* Variant: a change of number leaves the code that was sent.
GivenNumber_KeepsCode(n) == [setup EXCEPT !.number = n, !.verified_by = "nobody"]

GivenNumber(n) == [setup EXCEPT !.number = n, !.verified_by = "nobody", !.code = 0]

SetBusinessNumber(n) ==
    /\ Unlocked /\ changes < MaxChanges /\ n # setup.number
    /\ setup' = GivenNumber(n)
    /\ changes' = changes + 1
    /\ UNCHANGED <<heard, codes, faults>> /\ UNCHANGED work

\* The call is made under the lock, and a call without an answer stores no code, though it may
\* have been made.  Only who answers that number's telephone hears it.
StartVerification ==
    /\ Unlocked /\ setup.number # Nothing /\ codes < MaxCodes
    /\ codes' = codes + 1
    /\ heard' \in {heard, IF setup.number \in Owned THEN heard \cup {codes + 1} ELSE heard}
    /\ \/ setup' = [setup EXCEPT !.code = codes + 1] /\ UNCHANGED faults
       \/ UNCHANGED setup /\ faults < MaxFaults /\ faults' = faults + 1
    /\ UNCHANGED changes /\ UNCHANGED work

ConfirmVerification(k) ==
    /\ Unlocked /\ setup.code = k
    /\ setup' = [setup EXCEPT !.verified_by = "code_call", !.code = 0]
    /\ UNCHANGED <<heard, codes, changes, faults>> /\ UNCHANGED work

\* An operator verifies by hand; the code stays.
VerifyManually ==
    /\ Unlocked /\ setup.number # Nothing /\ setup.verified_by # "operator"
    /\ setup' = [setup EXCEPT !.verified_by = "operator"]
    /\ UNCHANGED <<heard, codes, changes, faults>> /\ UNCHANGED work

PutDocuments ==
    /\ Unlocked /\ changes < MaxChanges /\ setup.documents # "submitted"
    /\ setup' = [setup EXCEPT !.documents = "submitted"]
    /\ changes' = changes + 1
    /\ UNCHANGED <<heard, codes, faults>> /\ UNCHANGED work

\* An operator reviews what there is, under the lock.
ReviewBegins ==
    /\ Unlocked /\ changes < MaxChanges
    /\ locks' = [locks EXCEPT !.setup = Reviewer]
    /\ changes' = changes + 1
    /\ UNCHANGED <<setup, heard, job, stored, run, twilio, imports, lost, codes, faults>>

ReviewLetsGo ==
    /\ locks' = [locks EXCEPT !.setup = Nothing]
    /\ UNCHANGED <<heard, stored, run, twilio, imports, lost, codes, changes, faults>>

\* A waiting job is due at once; the UPDATE of its row waits for who holds it.
ReviewEnds ==
    /\ locks.setup = Reviewer
    /\ \E verdict \in {"approved", "rejected"} : setup' = [setup EXCEPT !.documents = verdict]
    /\ IF job.status = "waiting"
       THEN locks.job = Nothing /\ job' = [job EXCEPT !.due = TRUE]
       ELSE UNCHANGED job
    /\ ReviewLetsGo

(***************************************************************************)
(* Runs begin: the job is read, and kept as it was.                           *)
(***************************************************************************)
Retried == [job EXCEPT !.status = "pending", !.attempts = 0, !.due = TRUE]
Load(r, row) == run' = [run EXCEPT ![r] = [Idle EXCEPT !.at = "loaded", !.seen = row, !.job = row]]

\* request_connection, committed before the run; a failed job is tried again.
Connect(r) ==
    /\ run[r].at = "idle" /\ Unlocked
    /\ setup.number # Nothing /\ Verified /\ setup.documents # "rejected"
    /\ setup.destination = Nothing
    /\ CASE job = NoJob -> job' = [NoJob EXCEPT !.status = "pending", !.due = TRUE]
         [] job.status = "failed" -> locks.job = Nothing /\ job' = Retried
         [] OTHER -> UNCHANGED job
    /\ Load(r, job')
    /\ UNCHANGED <<setup, heard, stored, locks, twilio, imports, lost, codes, changes, faults>>

\* POST /operator/.../jobs/run: no lock at all, but that on the row of a failed job.
OperatorRun(r) ==
    /\ run[r].at = "idle" /\ job # NoJob
    /\ IF job.status = "failed"
       THEN /\ locks.job = Nothing /\ locks' = [locks EXCEPT !.job = r]
            /\ run' = [run EXCEPT ![r] = [Idle EXCEPT !.at = "loaded", !.seen = job, !.job = Retried]]
       ELSE Load(r, job) /\ UNCHANGED locks
    /\ UNCHANGED <<setup, heard, job, stored, twilio, imports, lost, codes, changes, faults>>

\* Variant: a job that failed for now is forgotten.
Due_Waiting == job.status \in {"waiting", "running"} /\ job.due

Due == job.status \in {"pending", "waiting", "running"} /\ job.due

\* run_due_jobs: FOR UPDATE SKIP LOCKED
WorkerLoads ==
    /\ run[Worker].at = "idle" /\ Due
    /\ locks.job = Nothing /\ locks' = [locks EXCEPT !.job = Worker]
    /\ Load(Worker, job)
    /\ UNCHANGED <<setup, heard, job, stored, twilio, imports, lost, codes, changes, faults>>

\* The commit after the job of another workspace releases every row the pass has read.
WorkerLetsGo ==
    /\ run[Worker].at = "loaded" /\ locks.job = Worker
    /\ locks' = [locks EXCEPT !.job = Nothing]
    /\ UNCHANGED <<setup, heard, job, stored, run, twilio, imports, lost, codes, changes, faults>>

NextAttempt ==
    /\ job.status \in {"pending", "waiting"} /\ ~job.due /\ locks.job = Nothing
    /\ job' = [job EXCEPT !.due = TRUE]
    /\ UNCHANGED <<setup, heard, stored, locks, run, twilio, imports, lost, codes, changes, faults>>

(***************************************************************************)
(* run_job                                                                  *)
(***************************************************************************)
Goto(r, at) == run' = [run EXCEPT ![r].at = at]

\* Variant: the status a run has while it works is left.
Ends_Running(r, status, state) ==
    run' = [run EXCEPT ![r].at = "commit", ![r].job.due = FALSE, ![r].job.state = state]

\* What the run leaves on the job; a provider's refusal is final, the rest is tried again.
Ends(r, status, state) ==
    run' = [run EXCEPT ![r].at = "commit", ![r].job.status = status, ![r].job.due = FALSE,
                       ![r].job.state = state]

Unanswered == faults < MaxFaults /\ faults' = faults + 1
unsold == <<setup, heard, job, stored, codes, changes>>
same == <<unsold, lost>>

\* Only whether there were GiveUp attempts is asked.
TakeSetup(r) ==
    /\ run[r].at = "loaded" /\ Unlocked
    /\ locks' = [locks EXCEPT !.setup = r]
    /\ run' = [run EXCEPT ![r].at = "locked",
                          ![r].job.attempts = IF @ < GiveUp THEN @ + 1 ELSE @]
    /\ UNCHANGED <<twilio, imports, faults>> /\ UNCHANGED same

\* The first query flushes the job, and waits for who holds its row.
TakeJob(r) ==
    /\ run[r].at = "locked" /\ locks.job \in {Nothing, r}
    /\ locks' = [locks EXCEPT !.job = r]
    /\ run' = [run EXCEPT ![r].at = "subaccount", ![r].job.status = "running"]
    /\ UNCHANGED <<twilio, imports, faults>> /\ UNCHANGED same

\* 1. The sub-account is looked up by its name before it is made.
AccountsAfter == IF twilio.accounts = 0 THEN 1 ELSE twilio.accounts

HasAccount(r) ==
    /\ run[r].at = "subaccount"
    /\ twilio' = IF stored.account THEN twilio ELSE [twilio EXCEPT !.accounts = AccountsAfter]
    /\ run' = [run EXCEPT ![r].at = "documents", ![r].adds = @ \cup {"account"},
                          ![r].job.state = @ \cup {"subaccount_sid"}]
    /\ UNCHANGED <<locks, imports, faults>> /\ UNCHANGED same

AccountFails(r) ==
    /\ run[r].at = "subaccount" /\ ~stored.account /\ Unanswered
    /\ \/ \E status \in {"pending", "failed"} : Ends(r, status, run[r].job.state) /\ UNCHANGED twilio
       \/ Ends(r, "pending", run[r].job.state) /\ twilio' = [twilio EXCEPT !.accounts = AccountsAfter]
    /\ UNCHANGED <<locks, imports>> /\ UNCHANGED same

\* 2. The documents
Documents(r) ==
    /\ run[r].at = "documents"
    /\ IF setup.documents = "approved" THEN Goto(r, "number")
       ELSE Ends(r, "waiting", run[r].job.state)
    /\ UNCHANGED <<locks, twilio, imports, faults>> /\ UNCHANGED same

\* 3. The number: what was bought is found by the job's name, once Twilio lists it.
ListNumber(n) ==
    /\ n \in twilio.bought \ twilio.listed
    /\ twilio' = [twilio EXCEPT !.listed = @ \cup {n}]
    /\ UNCHANGED <<locks, run, imports, faults>> /\ UNCHANGED same

Listings == IF twilio.listed = {} THEN {Nothing} ELSE twilio.listed

Has(r, number) ==
    run' = [run EXCEPT ![r].at = "import", ![r].number = number, ![r].adds = @ \cup {"row"},
                       ![r].job.state = @ \cup {"number_sid"}]

AdoptNumber(r) ==
    /\ run[r].at = "number"
    /\ \E n \in Listings \ {Nothing} : Has(r, n)
    /\ UNCHANGED <<locks, twilio, imports, faults>> /\ UNCHANGED same

Reconcile(r) ==
    /\ run[r].at = "number" /\ Nothing \in Listings /\ "purchase_started" \in run[r].job.state
    /\ Ends(r, IF run[r].job.attempts < GiveUp THEN "waiting" ELSE "failed", run[r].job.state)
    /\ UNCHANGED <<locks, twilio, imports, faults>> /\ UNCHANGED same

\* Variant: the mark of an earlier purchase is not asked for.
Unbought_Unasked(r) == run[r].at = "number" /\ Nothing \in Listings

Unbought(r) ==
    run[r].at = "number" /\ Nothing \in Listings /\ "purchase_started" \notin run[r].job.state

\* number_country: the profile's country is not one that numbers are bought in.
NoCountry(r) ==
    /\ Unbought(r)
    /\ Ends(r, "waiting", run[r].job.state)
    /\ UNCHANGED <<locks, twilio, imports, faults>> /\ UNCHANGED same

\* The mark is flushed, so the state is written, whatever becomes of the purchase.  A run with an
\* old copy of the job does not see the mark of another.
StartPurchase(r) ==
    /\ Unbought(r)
    /\ run' = [run EXCEPT ![r].at = "buy", ![r].adds = @ \cup {"state"},
                          ![r].job.state = @ \cup {"purchase_started"}]
    /\ lost' = IF "purchase_started" \in job.state \ run[r].job.state THEN lost \cup {"stale"} ELSE lost
    /\ UNCHANGED <<locks, twilio, imports, faults>> /\ UNCHANGED unsold

Sale(n) == twilio' = [twilio EXCEPT !.bought = @ \cup {n}]

Buy(r) ==
    /\ run[r].at = "buy"
    /\ \E n \in Sold \ twilio.bought : Sale(n) /\ Has(r, n)
    /\ UNCHANGED <<locks, imports, faults>> /\ UNCHANGED same

\* After a timeout the purchase stays started; after a refusal, and after a connection that
\* broke, it does not.  Twilio may have sold the number in the first and the last case.
BuyFails(r) ==
    LET started == run[r].job.state
        refused == run[r].job.state \ {"purchase_started"}
        Sells == \E n \in Sold \ twilio.bought : Sale(n) IN
    /\ run[r].at = "buy" /\ Unanswered
    /\ \/ Ends(r, "pending", started) /\ (Sells \/ UNCHANGED twilio) /\ UNCHANGED lost
       \/ Ends(r, "pending", refused) /\ Sells /\ lost' = lost \cup {"broken"}
       \/ \E status \in {"pending", "failed"} :
                Ends(r, status, refused) /\ UNCHANGED <<twilio, lost>>
    /\ UNCHANGED <<locks, imports>> /\ UNCHANGED unsold

\* 4. The import into Vapi, looked up by the number before it is made.
Imported(n) == IF imports[n] = 0 THEN [imports EXCEPT ![n] = 1] ELSE imports

Import(r) ==
    LET n == run[r].number IN
    /\ run[r].at = "import"
    /\ imports' = IF n \in stored.imported THEN imports ELSE Imported(n)
    /\ run' = [run EXCEPT ![r].at = "commit", ![r].adds = @ \cup {"imported"},
                          ![r].job.status = "succeeded", ![r].job.due = FALSE]
    /\ UNCHANGED <<locks, twilio, faults>> /\ UNCHANGED same

ImportFails(r) ==
    LET n == run[r].number IN
    /\ run[r].at = "import" /\ n \notin stored.imported /\ Unanswered
    /\ \/ \E status \in {"pending", "failed"} : Ends(r, status, run[r].job.state) /\ UNCHANGED imports
       \/ Ends(r, "pending", run[r].job.state) /\ imports' = Imported(n)
    /\ UNCHANGED <<locks, twilio>> /\ UNCHANGED same

\* The lookups themselves, or nothing for sale
LookupFails(r) ==
    /\ run[r].at \in {"subaccount", "number"} /\ Unanswered
    /\ run[r].at = "subaccount" => ~stored.account
    /\ \E status \in {"pending", "failed"} : Ends(r, status, run[r].job.state)
    /\ UNCHANGED <<locks, twilio, imports>> /\ UNCHANGED same

(***************************************************************************)
(* The end of a run                                                         *)
(***************************************************************************)
Released(r) == [l \in DOMAIN locks |-> IF locks[l] = r THEN Nothing ELSE locks[l]]

\* Columns that differ from what was read are written, state as a whole.
WrittenJob(r) ==
    [run[r].job EXCEPT !.state = IF @ = run[r].seen.state /\ "state" \notin run[r].adds THEN job.state ELSE @]

Commit(r) ==
    LET adds == run[r].adds
        n == run[r].number IN
    /\ run[r].at = "commit"
    /\ job' = WrittenJob(r)
    /\ lost' = IF "purchase_started" \in job.state \ WrittenJob(r).state THEN lost \cup {"overwritten"} ELSE lost
    /\ stored' = [account |-> stored.account \/ "account" \in adds,
                  rows |-> stored.rows \cup (IF "row" \in adds THEN {n} ELSE {}),
                  imported |-> stored.imported \cup (IF "imported" \in adds THEN {n} ELSE {})]
    /\ setup' = IF "imported" \in adds THEN [setup EXCEPT !.destination = n] ELSE setup
    /\ locks' = Released(r)
    /\ run' = [run EXCEPT ![r] = Idle]
    /\ UNCHANGED <<heard, twilio, imports, codes, changes, faults>>

\* The transaction is rolled back; what the providers did stays.
Abort(r) ==
    /\ locks' = Released(r)
    /\ run' = [run EXCEPT ![r] = Idle]
    /\ UNCHANGED <<setup, heard, job, stored, twilio, imports, codes, changes>>

\* A run that dies after its purchase takes the mark with it.
Crash(r) ==
    /\ run[r].at # "idle" /\ Unanswered
    /\ Abort(r)
    /\ lost' = IF "state" \in run[r].adds /\ twilio.bought # {} THEN lost \cup {"died"} ELSE lost

\* The request locks the setup and then the job, the worker the job and then the setup:
\* PostgreSQL ends one of them.
Deadlock(r, q) ==
    /\ run[r].at = "locked" /\ run[q].at = "loaded" /\ locks.job = q /\ q # r
    /\ Abort(r) \/ Abort(q)
    /\ UNCHANGED <<lost, faults>>

\* So does the review, which has the setup and waits for the job.
ReviewDeadlock(q) ==
    /\ locks.setup = Reviewer /\ job.status = "waiting"
    /\ run[q].at = "loaded" /\ locks.job = q
    /\ \/ ReviewLetsGo /\ UNCHANGED <<setup, job>>
       \/ Abort(q) /\ UNCHANGED <<lost, faults>>

CustomerStep ==
    \/ \E n \in Numbers : SetBusinessNumber(n)
    \/ StartVerification
    \/ \E k \in heard : ConfirmVerification(k)
    \/ PutDocuments

OperatorStep == VerifyManually \/ ReviewBegins \/ ReviewEnds

Begins == (\E r \in Requests : Connect(r) \/ OperatorRun(r)) \/ WorkerLoads \/ WorkerLetsGo

Proceeds(r) ==
    \/ TakeSetup(r) \/ TakeJob(r) \/ HasAccount(r) \/ Documents(r)
    \/ AdoptNumber(r) \/ Reconcile(r) \/ NoCountry(r) \/ StartPurchase(r) \/ Buy(r) \/ Import(r) \/ Commit(r)

Fails(r) == AccountFails(r) \/ BuyFails(r) \/ ImportFails(r) \/ LookupFails(r) \/ Crash(r)

Next ==
    \/ CustomerStep \/ OperatorStep \/ Begins \/ NextAttempt
    \/ \E r \in Runners : Proceeds(r) \/ Fails(r)
    \/ \E n \in Sold : ListNumber(n)
    \/ \E r, q \in Runners : Deadlock(r, q) \/ ReviewDeadlock(q)

\* Runs go on, who waits for a row is in its queue, PostgreSQL sees a deadlock, the worker
\* passes again and again, and Twilio lists what it has sold.
Fairness ==
    /\ \A r \in Runners : SF_vars(Proceeds(r))
    /\ SF_vars(ReviewEnds)
    /\ WF_vars(\E r, q \in Runners : Deadlock(r, q) \/ ReviewDeadlock(q))
    /\ WF_vars(WorkerLoads) /\ WF_vars(NextAttempt) /\ WF_vars(\E n \in Sold : ListNumber(n))

Spec == Init /\ [][Next]_vars /\ Fairness

(***************************************************************************)
(* Properties                                                               *)
(***************************************************************************)
\* "bought before a timeout but not listed yet: wait, never re-buy" (platform.py): one
\* sub-account, one import of each number, and one number, whoever runs the job, whatever answer
\* is lost and however late Twilio lists what it has sold.  There are exceptions, all of them a
\* mark (purchase_started) that is gone or not seen: the run dies after its purchase, which takes
\* the flushed mark with it; the connection breaks and the sale is taken for a refusal; a run with
\* an old copy of the job writes its state over the mark, or buys beside it.
BuysOnce ==
    /\ twilio.accounts <= 1 /\ \A n \in Sold : imports[n] <= 1
    /\ Cardinality(twilio.bought) <= 1 \/ lost # {}

\* A number counts as verified by a code only where the customer answers the telephone, also
\* when it is changed between the call and the code.
VerifiedIsAnswered == setup.verified_by = "code_call" => setup.number \in Owned

\* A number that was bought becomes the workspace's, whatever was lost on the way, unless the job
\* failed for good or the documents were handed in anew.
NumberIsUsed ==
    twilio.bought # {} ~>
        (setup.destination # Nothing \/ job.status = "failed" \/ setup.documents # "approved")

=============================================================================
