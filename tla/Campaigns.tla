----------------------------- MODULE Campaigns -----------------------------
(***************************************************************************)
(* Outbound calling campaigns: the worker's dispatch pass, which dials       *)
(* inside its transaction and commits at its end, the end-of-call report,    *)
(* and the requests of the staff (app/modules/campaigns/service.py and       *)
(* router.py).                                                              *)
(*                                                                         *)
(* One workspace.  A contact is <<campaign, phone>>, as the unique index      *)
(* has it; a call is <<contact, n>>, the n-th that Vapi took for it.  A pass  *)
(* keeps what it writes in its own draft until it commits.  Calling hours,    *)
(* the state of the caller's number and the order of the contacts are left   *)
(* open: a pass may dial any contact that is due, or none.                   *)
(***************************************************************************)
EXTENDS Naturals, FiniteSets

CONSTANTS
    Contacts,      \* the campaign_contacts that may be imported
    Dispatchers,   \* worker processes that run dispatch
    MaxAttempts,   \* Campaign.max_attempts
    MaxCalls,      \* bound on calls Vapi takes per contact
    MaxFaults,     \* bound on requests without a use and on passes that fail
    MaxRequests    \* bound on the staff's requests that read before they write

Campaigns == {x[1] : x \in Contacts}
Phones == {x[2] : x \in Contacts}
Calls == Contacts \X (1..MaxCalls)

ASSUME ConstantsAssumption ==
    /\ MaxAttempts \in Nat \ {0}
    /\ MaxCalls \in Nat \ {0}
    /\ MaxFaults \in Nat
    /\ MaxRequests \in Nat

VARIABLES
    campaign,      \* campaigns: status
    row,           \* campaign_contacts
    old,           \* contacts whose last_attempt_at is past STALE_CALL
    billed,        \* campaign_calls
    blocked,       \* do_not_call: "no", or the source of the phone's entry
    passing,       \* dispatchers inside a pass
    \* per dispatcher: the campaigns it locked, those still to visit, the contact whose
    \* POST is out with the numbers it read as blocked, and what it wrote
    locked, todo, dialling, draft, completing, placed,
    reporting,     \* contacts whose row a report has locked
    unlocked,      \* contacts whose report has lost its lock and goes on
    request,       \* the staff request between its reads and its writes
    vapi,          \* calls: "none", "live", or how they ended
    reported,      \* calls: the stored reports (unique provider_call_id)
    \* history: calls Vapi took of which no row is kept; calls to a blocked number; the
    \* number of faults and of requests
    lost, intrusions, faults, requests

tables == <<campaign, row, old, billed, blocked>>
passes == <<passing, locked, todo, dialling, draft, completing, placed>>
reports == <<reporting, unlocked>>
history == <<lost, intrusions, faults, requests>>
vars == <<tables, passes, reports, request, vapi, reported, history>>

Open == {"pending", "calling"}
Statuses == Open \cup {"absent", "deleted", "done", "no_answer", "failed", "opted_out", "skipped", "unknown"}
RowsUpTo(n) == [status : Statuses, attempts : 0..n, call : 0..MaxCalls, waiting : BOOLEAN]
Rows == RowsUpTo(MaxAttempts)
NoRow == [status |-> "absent", attempts |-> 0, call |-> 0, waiting |-> FALSE]
NewRow == [NoRow EXCEPT !.status = "pending"]
NoRequest == [kind |-> "none", of |-> {}, at |-> "none"]
NoDraft == [x \in {} |-> NoRow]

\* The rows of f, and those of g that f leaves out.
Over(f, g) == [x \in DOMAIN f \cup DOMAIN g |-> IF x \in DOMAIN f THEN f[x] ELSE g[x]]

Ends == {"silent", "talked", "opted_out"}

\* Every variable has its type, with the rows in R.
TypesWith(R) ==
    /\ campaign \in [Campaigns -> {"draft", "running", "paused", "completed", "stopped"}]
    /\ row \in [Contacts -> R]
    /\ old \subseteq Contacts
    /\ billed \subseteq Calls
    /\ blocked \in [Phones -> {"no", "manual", "call"}]
    /\ passing \subseteq Dispatchers
    /\ \A d \in Dispatchers :
        /\ todo[d] \cup completing[d] \cup locked[d] \subseteq Campaigns
        /\ dialling[d] \subseteq Contacts /\ Cardinality(dialling[d]) <= 1
        /\ DOMAIN draft[d] \subseteq Contacts
        /\ \A x \in DOMAIN draft[d] : draft[d][x] \in R
        /\ placed[d] \subseteq Calls
    /\ reporting \subseteq Contacts /\ unlocked \subseteq Contacts
    /\ request.kind \in {"none", "import", "block", "delete", "pause", "stop"}
    /\ vapi \in [Calls -> {"none", "live"} \cup Ends]
    /\ reported \subseteq Calls
    /\ lost \subseteq Calls
    /\ intrusions \in [Contacts -> 0..MaxCalls]
    /\ faults \in 0..MaxFaults
    /\ requests \in 0..MaxRequests

TypeOK == TypesWith(Rows)

Init ==
    /\ campaign = [c \in Campaigns |-> "draft"]
    /\ row \in [Contacts -> {NoRow, NewRow}]
    /\ old = {}
    /\ billed = {}
    /\ blocked = [p \in Phones |-> "no"]
    /\ passing = {}
    /\ locked = [d \in Dispatchers |-> {}]
    /\ todo = [d \in Dispatchers |-> {}]
    /\ dialling = [d \in Dispatchers |-> {}]
    /\ draft = [d \in Dispatchers |-> NoDraft]
    /\ completing = [d \in Dispatchers |-> {}]
    /\ placed = [d \in Dispatchers |-> {}]
    /\ reporting = {}
    /\ unlocked = {}
    /\ request = NoRequest
    /\ vapi = [k \in Calls |-> "none"]
    /\ reported = {}
    /\ lost = {}
    /\ intrusions = [x \in Contacts |-> 0]
    /\ faults = 0
    /\ requests = 0

ContactsOf(c) == {x \in Contacts : x[1] = c}
Taken(x) == {k \in Calls : k[1] = x /\ vapi[k] # "none"}
CallsOf(x, set) == {k \in set : k[1] = x}

\* Rows a pass has flushed: other writers of them wait for its end.
Drafted == UNION {DOMAIN draft[d] : d \in Dispatchers}
Locked == UNION {locked[d] : d \in Dispatchers}

-----------------------------------------------------------------------------
(* What becomes of a contact after an attempt.                              *)

\* Variant: one attempt more.
AfterAttempt_OneMore(r) ==
    IF r.attempts <= MaxAttempts
    THEN [r EXCEPT !.status = "pending", !.waiting = TRUE]
    ELSE [r EXCEPT !.status = "no_answer"]

\* Variant: the attempt is counted once more at its end.
AfterAttempt_Counted(r) ==
    [r EXCEPT !.status = IF r.attempts < MaxAttempts THEN "pending" ELSE "no_answer", !.attempts = @ + 1]

\* _after_attempt, not answered: again after RETRY_AFTER, or given up.
AfterAttempt(r) ==
    IF r.attempts < MaxAttempts
    THEN [r EXCEPT !.status = "pending", !.waiting = TRUE]
    ELSE [r EXCEPT !.status = "no_answer"]

-----------------------------------------------------------------------------
(* The dispatch pass.                                                       *)

Working(d) == d \in passing /\ DOMAIN draft[d] \cap reporting = {}

\* Variant: plain SELECT, no row locks.
PassBegin_NoLock(d) ==
    /\ d \notin passing /\ passing' = passing \cup {d}
    /\ locked' = [locked EXCEPT ![d] = {c \in Campaigns : campaign[c] = "running"}]
    /\ todo' = [todo EXCEPT ![d] = locked'[d]]
    /\ UNCHANGED <<tables, dialling, draft, completing, placed, reports, request, vapi, reported, history>>

\* The running campaigns, FOR UPDATE SKIP LOCKED.
PassBegin(d) ==
    LET free == {c \in Campaigns : campaign[c] = "running"} \ Locked IN
    /\ d \notin passing /\ passing' = passing \cup {d}
    /\ free # {}
    /\ locked' = [locked EXCEPT ![d] = free]
    /\ todo' = [todo EXCEPT ![d] = free]
    /\ UNCHANGED <<tables, dialling, draft, completing, placed, reports, request, vapi, reported, history>>

\* Variants: any call without a report is swept, or none is.
Stale_All(c) == {x \in ContactsOf(c) : row[x].status = "calling"}
Stale_None(c) == {}

\* Calls without a report for STALE_CALL count as attempts that were not answered.
Stale(c) == {x \in ContactsOf(c) : row[x].status = "calling" /\ x \in old}
Swept(c) == [x \in Stale(c) |-> AfterAttempt(row[x])]

InFlight(c) == {x \in ContactsOf(c) : row[x].status = "calling"} \ Stale(c)

\* The contacts that are pending for this pass; those of them that are due; and among
\* these the ones on the do-not-call list.
Pending(c) == {x \in ContactsOf(c) : Over(Swept(c), row)[x].status = "pending"}
Due(c) == {x \in Pending(c) \ Stale(c) : ~row[x].waiting}
OnList(c) == {x \in Due(c) : blocked[x[2]] # "no"}

Callable(c) == Due(c) \ OnList(c)

Skipped(S) == [x \in S |-> [row[x] EXCEPT !.status = "skipped"]]

Visit(d, c, write) ==
    /\ Working(d) /\ dialling[d] = {}
    /\ c \in todo[d]
    /\ todo' = [todo EXCEPT ![d] = @ \ {c}]
    /\ draft' = [draft EXCEPT ![d] = Over(write, Over(Swept(c), @))]
    /\ UNCHANGED <<tables, passing, locked, placed, reports, request, vapi, reported, history>>

\* A call is in flight, or it is not the time to call, or nobody is due.
VisitIdle(d, c) ==
    /\ InFlight(c) # {} \/ Pending(c) # {}
    /\ Visit(d, c, NoDraft)
    /\ UNCHANGED <<dialling, completing>>

\* All who are due are blocked.
VisitSkip(d, c) ==
    /\ InFlight(c) = {}
    /\ Callable(c) = {} /\ OnList(c) # {}
    /\ Visit(d, c, Skipped(OnList(c)))
    /\ UNCHANGED <<dialling, completing>>

\* Nothing in flight and nobody left.
VisitComplete(d, c) ==
    /\ InFlight(c) = {}
    /\ Pending(c) = {}
    /\ Visit(d, c, NoDraft)
    /\ completing' = [completing EXCEPT ![d] = @ \cup {c}]
    /\ UNCHANGED dialling

\* The next contact is dialled; blocked ones met before it are skipped.
VisitDial(d, c, x) ==
    /\ InFlight(c) = {}
    /\ x \in Callable(c)
    /\ \E S \in SUBSET (OnList(c) \ {x}) : Visit(d, c, Skipped(S))
    /\ dialling' = [dialling EXCEPT ![d] = {x}]
    /\ UNCHANGED completing

\* dial(): the POST is answered.  The row read before it is written afterwards.
PostEnds(d, x, r) ==
    /\ dialling[d] = {x}
    /\ dialling' = [dialling EXCEPT ![d] = {}]
    /\ draft' = [draft EXCEPT ![d] = Over([y \in {x} |-> r], @)]
    /\ UNCHANGED <<tables, passing, locked, todo, completing, reports, request, reported, requests>>

\* Vapi takes the call; who does not want it is called all the same.
Take(x, unwanted) ==
    LET k == <<x, Cardinality(Taken(x)) + 1>> IN
    /\ k \in Calls
    /\ vapi' = [vapi EXCEPT ![k] = "live"]
    /\ intrusions' = [intrusions EXCEPT ![x] = IF unwanted THEN @ + 1 ELSE @]

OnTheList(x) == blocked[x[2]] # "no"
Fault == faults < MaxFaults /\ faults' = faults + 1
Asked == requests < MaxRequests /\ requests' = requests + 1

\* The contact had read attempts when the pass loaded it.
Accepted(d, x, read) ==
    LET n == Cardinality(Taken(x)) + 1 IN
    /\ Take(x, OnTheList(x))
    /\ PostEnds(d, x, [row[x] EXCEPT !.attempts = read + 1, !.status = "calling", !.call = n])
    /\ placed' = [placed EXCEPT ![d] = @ \cup {<<x, n>>}]
    /\ UNCHANGED <<lost, faults>>

\* The campaign is locked since the visit: the count has not changed.
PostAccepted(d, x) == Accepted(d, x, row[x].attempts)

\* 4xx: the contact is given up.
PostRejected(d, x) ==
    /\ PostEnds(d, x, [row[x] EXCEPT !.status = "failed"])
    /\ UNCHANGED <<placed, vapi, lost, intrusions, faults>>

\* 5xx, 429 or no answer at all, in which case Vapi may have taken the call: again in
\* half an hour, and not counted as an attempt.
PostWithoutUse(d, x) ==
    /\ PostEnds(d, x, [row[x] EXCEPT !.status = "pending", !.waiting = TRUE])
    /\ Fault
    /\ \/ Take(x, OnTheList(x)) /\ lost' = lost \cup {<<x, Cardinality(Taken(x)) + 1>>}
       \/ UNCHANGED <<vapi, lost, intrusions>>
    /\ UNCHANGED placed

Deleted(d) == {x \in DOMAIN draft[d] : row[x].status = "deleted"}

PassEnds(d) ==
    /\ passing' = passing \ {d}
    /\ locked' = [locked EXCEPT ![d] = {}]
    /\ todo' = [todo EXCEPT ![d] = {}]
    /\ dialling' = [dialling EXCEPT ![d] = {}]
    /\ draft' = [draft EXCEPT ![d] = NoDraft]
    /\ completing' = [completing EXCEPT ![d] = {}]
    /\ placed' = [placed EXCEPT ![d] = {}]
    /\ UNCHANGED <<blocked, reports, request, vapi, reported, intrusions, requests>>

\* The commit at the end of the pass.
PassCommit(d) ==
    /\ Working(d) /\ todo[d] = {} /\ dialling[d] = {} /\ Deleted(d) = {}
    /\ row' = Over(draft[d], row)
    /\ old' = old \ {k[1] : k \in placed[d]}
    /\ campaign' = [c \in Campaigns |-> IF c \in completing[d] THEN "completed" ELSE campaign[c]]
    /\ billed' = billed \cup placed[d]
    /\ PassEnds(d)
    /\ UNCHANGED <<lost, faults>>

\* The pass is rolled back: the process dies, a campaign's prompt cannot be built any
\* more, or one of its rows was deleted meanwhile.  The calls it placed go on.
PassRollback(d) ==
    /\ d \in passing
    /\ IF Deleted(d) # {} THEN UNCHANGED faults ELSE Fault
    /\ lost' = lost \cup placed[d]
    /\ PassEnds(d)
    /\ UNCHANGED <<campaign, row, old, billed>>

-----------------------------------------------------------------------------
(* Vapi and its end-of-call report.                                         *)

CallEnds(k) ==
    /\ vapi[k] = "live"
    /\ \E e \in Ends : vapi' = [vapi EXCEPT ![k] = e]
    /\ UNCHANGED <<tables, passes, reports, request, reported, history>>

\* The report finds its contact by provider_call_id and locks it: it waits for row locks,
\* and for no request that has only read.  The outcome is then classified by the language
\* model.  Bound: it overtakes no earlier report of the contact that has lost its lock.
ReportBegins(k) ==
    LET x == k[1] IN
    /\ vapi[k] \in Ends
    /\ k \notin reported
    /\ row[x].call = k[2] /\ row[x].status # "deleted"
    /\ x \notin Drafted \cup reporting \cup unlocked
    /\ reporting' = reporting \cup {x}
    /\ UNCHANGED <<tables, passes, unlocked, request, vapi, reported, history>>

\* It finds none: the contact was dialled again or deleted, or the pass that dialled
\* has not committed.  The call is stored as an ordinary one.
ReportStray(k) ==
    LET x == k[1] IN
    /\ vapi[k] \in Ends
    /\ k \notin reported
    /\ row[x].call # k[2] \/ row[x].status = "deleted"
    /\ reported' = reported \cup {k}
    /\ UNCHANGED <<tables, passes, reports, request, vapi, history>>

AfterCall(r, end) ==
    IF end = "silent" THEN AfterAttempt(r)
    ELSE [r EXCEPT !.status = IF end = "opted_out" THEN "opted_out" ELSE "done"]

ListAfter(p, end) ==
    IF end = "opted_out" /\ blocked[p] = "no" THEN [blocked EXCEPT ![p] = "call"] ELSE blocked

\* on_report's commit.
ReportEnds(x) ==
    LET k == <<x, row[x].call>> IN
    /\ x \in reporting
    /\ row' = [row EXCEPT ![x] = AfterCall(@, vapi[k])]
    /\ blocked' = ListAfter(x[2], vapi[k])
    /\ reporting' = reporting \ {x}
    /\ reported' = reported \cup {k}
    /\ UNCHANGED <<campaign, old, billed, passes, unlocked, request, vapi, history>>

\* The language model fails.  Its usage row is committed at once, with what the report has
\* stored so far, and that commit releases the contact.
ReportUnlocks(x) ==
    /\ x \in reporting
    /\ vapi[<<x, row[x].call>>] # "silent"
    /\ reporting' = reporting \ {x}
    /\ unlocked' = unlocked \cup {x}
    /\ reported' = reported \cup {<<x, row[x].call>>}
    /\ Fault
    /\ UNCHANGED <<tables, passes, request, vapi, lost, intrusions, requests>>

\* The rest of the report: without an outcome whoever answered wants to be called back.
\* It fails when the contact was deleted meanwhile.
UnlockedEnds(x) ==
    /\ x \in unlocked \ Drafted
    /\ row' = IF row[x].status = "deleted" THEN row ELSE [row EXCEPT ![x].status = "done"]
    /\ unlocked' = unlocked \ {x}
    /\ UNCHANGED <<campaign, old, billed, blocked, passes, reporting, request, vapi, reported, history>>

-----------------------------------------------------------------------------
(* The staff's requests.  Bounds: one at a time is between its reads and its  *)
(* writes, there are at most MaxRequests of these, and a contact is imported  *)
(* once.                                                                    *)

\* The contacts a request is about, and its phone or campaign.
Begin(kind, of, at) ==
    /\ request = NoRequest
    /\ request' = [kind |-> kind, of |-> of, at |-> at]
    /\ Asked
    /\ UNCHANGED <<tables, passes, reports, vapi, reported, lost, intrusions, faults>>

\* import_contacts: not into a completed campaign, and not a number on the list.
ImportReads(x) ==
    /\ campaign[x[1]] # "completed"
    /\ row[x].status = "absent"
    /\ blocked[x[2]] = "no"
    /\ Begin("import", {x}, x[1])

\* add_dnc: the pending contacts with this number.
BlockReads(p) == Begin("block", {x \in Contacts : x[2] = p /\ row[x].status = "pending"}, p)

\* delete_contact: not while it is being called (charged_at is never set any more).
DeleteReads(x) ==
    /\ row[x].status \notin {"absent", "deleted", "calling"}
    /\ Begin("delete", {x}, x[1])

PauseReads(c) ==
    /\ campaign[c] = "running"
    /\ Begin("pause", {}, c)

\* The writes wait for row locks of passes and reports.
Finish(kind) ==
    /\ request.kind = kind
    /\ request.of \cap (Drafted \cup reporting) = {}
    /\ request' = NoRequest
    /\ UNCHANGED <<passes, reports, vapi, reported, history>>

ImportWrites ==
    /\ Finish("import")
    /\ row' = [x \in Contacts |-> IF x \in request.of THEN NewRow ELSE row[x]]
    /\ UNCHANGED <<campaign, old, billed, blocked>>

\* The entry and the skipped contacts.
BlockWrites ==
    /\ Finish("block")
    /\ blocked' = [p \in Phones |-> IF p = request.at /\ blocked[p] = "no" THEN "manual" ELSE blocked[p]]
    /\ row' = [x \in Contacts |-> IF x \in request.of THEN [row[x] EXCEPT !.status = "skipped"] ELSE row[x]]
    /\ UNCHANGED <<campaign, old, billed>>

\* The contact's campaign_calls go with it (ON DELETE CASCADE).
DeleteWrites ==
    /\ Finish("delete")
    /\ row' = [x \in Contacts |-> IF x \in request.of THEN [row[x] EXCEPT !.status = "deleted"] ELSE row[x]]
    /\ billed' = {k \in billed : k[1] \notin request.of}
    /\ UNCHANGED <<campaign, old, blocked>>

PauseWrites ==
    /\ request.at \notin Locked
    /\ Finish("pause")
    /\ campaign' = [c \in Campaigns |-> IF c = request.at THEN "paused" ELSE campaign[c]]
    /\ UNCHANGED <<row, old, billed, blocked>>

\* start_campaign, with the campaign's row locked.
Start(c) ==
    /\ campaign[c] \in {"draft", "paused"}
    /\ c \notin Locked
    /\ \E x \in ContactsOf(c) : row[x].status = "pending"
    /\ campaign' = [campaign EXCEPT ![c] = "running"]
    /\ UNCHANGED <<row, old, billed, blocked, passes, reports, request, vapi, reported, history>>

\* delete_dnc: not an entry the callee asked for.  It needs no bound: it undoes a block.
Unblock(p) ==
    /\ blocked[p] = "manual"
    /\ blocked' = [blocked EXCEPT ![p] = "no"]
    /\ intrusions' = [x \in Contacts |-> IF x[2] = p THEN 0 ELSE intrusions[x]]
    /\ UNCHANGED <<campaign, row, old, billed, passes, reports, request, vapi, reported, lost, faults, requests>>

-----------------------------------------------------------------------------
(* Time.                                                                    *)

\* next_attempt_at is reached: half an hour or more, and no POST takes that long, nor what
\* is left of a report.
RetryDue(x) ==
    /\ row[x].status = "pending" /\ row[x].waiting
    /\ x \notin Drafted \cup unlocked /\ \A d \in Dispatchers : x \notin dialling[d]
    /\ row' = [row EXCEPT ![x].waiting = FALSE]
    /\ UNCHANGED <<campaign, old, billed, blocked, passes, reports, request, vapi, reported, history>>

\* STALE_CALL after the dial; a call lasts three minutes at most.
GetsOld(x) ==
    /\ row[x].status = "calling"
    /\ x \notin old
    /\ vapi[<<x, row[x].call>>] \in Ends
    /\ old' = old \cup {x}
    /\ UNCHANGED <<campaign, row, billed, blocked, passes, reports, request, vapi, reported, history>>

-----------------------------------------------------------------------------
PassStep(d) ==
    \/ PassBegin(d)
    \/ \E c \in Campaigns : VisitIdle(d, c) \/ VisitSkip(d, c) \/ VisitComplete(d, c)
    \/ \E x \in Contacts :
        \/ VisitDial(d, x[1], x)
        \/ PostAccepted(d, x)
        \/ PostRejected(d, x)
        \/ PostWithoutUse(d, x)
    \/ PassCommit(d)

Report(k) == ReportBegins(k) \/ ReportStray(k)
ReportGoesOn(x) == ReportEnds(x) \/ ReportUnlocks(x) \/ UnlockedEnds(x)

RequestReads ==
    \/ \E x \in Contacts : ImportReads(x) \/ DeleteReads(x)
    \/ \E p \in Phones : BlockReads(p)
    \/ \E c \in Campaigns : PauseReads(c)

RequestWrites == ImportWrites \/ BlockWrites \/ DeleteWrites \/ PauseWrites

Next ==
    \/ \E d \in Dispatchers : PassStep(d) \/ PassRollback(d)
    \/ \E k \in Calls : CallEnds(k) \/ Report(k)
    \/ \E x \in Contacts : ReportGoesOn(x) \/ RetryDue(x) \/ GetsOld(x)
    \/ RequestReads
    \/ RequestWrites
    \/ \E c \in Campaigns : Start(c)
    \/ \E p \in Phones : Unblock(p)

Spec == Init /\ [][Next]_vars

\* Workers loop, requests and reports that have begun end, calls end, time passes, and
\* the calling window keeps opening: a pass that could dial in it does so in the end.
\* Nothing obliges the staff to act or a report to arrive.
Fairness ==
    /\ \A d \in Dispatchers :
        /\ WF_vars(PassStep(d))
        /\ WF_vars(Deleted(d) # {} /\ PassRollback(d))
        /\ \A x \in Contacts : SF_vars(VisitDial(d, x[1], x))
        /\ \A c \in Campaigns : SF_vars(VisitSkip(d, c))
    /\ \A k \in Calls : WF_vars(CallEnds(k))
    /\ \A x \in Contacts : WF_vars(ReportGoesOn(x)) /\ WF_vars(RetryDue(x)) /\ WF_vars(GetsOld(x))
    /\ WF_vars(RequestWrites)

FairSpec == Spec /\ Fairness

-----------------------------------------------------------------------------
(* Properties.                                                              *)

\* The bound on the cost of a campaign: Vapi takes at most max_attempts calls for a
\* contact, plus those whose pass was rolled back or whose answer was lost.
CallBudget ==
    \A x \in Contacts : Cardinality(Taken(x)) <= MaxAttempts + Cardinality(CallsOf(x, lost))

\* Attempts and charges go together: a contact has one campaign_calls row per counted
\* attempt, whatever passes and requests run at the same time.
BilledPerAttempt ==
    \A x \in Contacts : row[x].status # "deleted" =>
        Cardinality(CallsOf(x, billed)) = row[x].attempts

\* One call in flight per campaign, however many workers run dispatch.
OneInFlight ==
    \A x, y \in Contacts :
        x[1] = y[1] /\ row[x].status = "calling" /\ row[y].status = "calling" => x = y

\* Once a number is on the list, a campaign calls it at most once more: only a pass that
\* had read the list before may still dial it.
ListHeeded == \A x \in Contacts : intrusions[x] <= 1

\* A request that read the contact as pending skips it.
Skips(x) == request.kind = "block" /\ x \in request.of /\ row'[x].status = "skipped"

\* A contact that answered is never called again, unless the report came so late that the
\* call had been given up, and the contact is on the line again or about to be: no pass or
\* request reopens it.  What a request may do is write skipped over the answer: add_dnc
\* reads the contact as pending, a pass dials it, the report is stored, add_dnc writes.
AnsweredIsFinal ==
    [][\A x \in Contacts :
        row[x].status \in {"done", "opted_out"} /\ x \notin old /\ <<x, row[x].call>> \in reported =>
            row'[x].status \in {row[x].status, "deleted"} \/ Skips(x)]_vars

\* A running campaign does not run for ever: every contact is called, given up or
\* skipped in the end, whatever faults there are.
CampaignEnds == \A c \in Campaigns : campaign[c] = "running" ~> campaign[c] # "running"

=============================================================================
