--------------------------- MODULE SalesCampaigns ---------------------------
(***************************************************************************)
(* Dialogbot's own sales calls (app/modules/sales/outbound.py, policy.py):    *)
(* campaigns of the kind internal_sales, which go through the same dispatch   *)
(* pass as the customers' (Campaigns) and are dialled in another way.  The     *)
(* contact policy is asked right before the call, and the contact is committed *)
(* as calling, with its dispatch key, before the POST.  That commit is the      *)
(* pass's own: it releases every campaign the pass has locked, and the pass     *)
(* goes on to the campaigns that are left.                                   *)
(*                                                                         *)
(* The policy's other grounds (basis, company, script, mode, budget) are one   *)
(* set of numbers that may be called.  A number belongs to one workspace.     *)
(***************************************************************************)
EXTENDS Campaigns, Functions

CONSTANTS
    InternalSets,  \* which campaigns may be of the kind internal_sales
    MaxConcurrent, \* SALES_MAX_CONCURRENT_CALLS
    MaxPerContact  \* SALES_MAX_ATTEMPTS_PER_CONTACT, over all internal campaigns

ASSUME SalesAssumption ==
    /\ InternalSets \subseteq SUBSET Campaigns
    /\ MaxConcurrent \in Nat \ {0}
    /\ MaxPerContact \in Nat \ {0}

VARIABLES
    internal,      \* the campaigns of the kind internal_sales
    basis,         \* numbers the policy allows, apart from the lists and the attempts
    sale           \* dispatchers: the attempts of the contact they dial, as the pass read them,
                   \*   and whether it has committed the contact as calling

salesVars == <<internal, basis, sale>>
allVars == <<vars, salesVars>>

NoSale == [read |-> 0, marked |-> FALSE]

\* MaxAttempts is no bound here: a late report can reopen a contact while it is dialled
\* again.  The calls taken are.
SalesTypeOK ==
    /\ TypesWith(RowsUpTo(MaxCalls))
    /\ internal \subseteq Campaigns
    /\ basis \subseteq Phones
    /\ sale \in [Dispatchers -> [read : 0..MaxCalls, marked : BOOLEAN]]

Internal(x) == x[1] \in internal
SalesPhones == {x[2] : x \in {y \in Contacts : Internal(y)}}

SalesInit ==
    /\ Init
    /\ internal \in InternalSets
    /\ basis = SalesPhones
    /\ sale = [d \in Dispatchers |-> NoSale]

Keep == UNCHANGED salesVars

-----------------------------------------------------------------------------
(* The visit of an internal campaign, and gate.                              *)

\* concurrency_full
Full == Cardinality({x \in Contacts : Internal(x) /\ row[x].status = "calling"}) >= MaxConcurrent

\* attempts_across: all internal campaigns that have the number.
Attempts(p) == SumFunction([x \in {y \in Contacts : Internal(y) /\ y[2] = p} |-> row[x].attempts])

\* Variant: the decision of the plan stage stands.
Allowed_AsPlanned(x) == TRUE

\* policy.evaluate at the stage "dispatch": ALLOW
Allowed(x) == x[2] \in basis /\ Attempts(x[2]) < MaxPerContact

Refused(c) == {x \in Callable(c) : ~Allowed(x)}

\* The pass has loaded the contact it dials.
Loads(d, x) ==
    /\ sale' = [sale EXCEPT ![d] = [read |-> row[x].attempts, marked |-> FALSE]]
    /\ UNCHANGED <<internal, basis>>

SalesVisit(d, c, x) ==
    /\ c \in internal /\ ~Full
    /\ InFlight(c) = {}
    /\ x \in Callable(c) /\ Allowed(x)
    /\ \E S \in SUBSET ((OnList(c) \cup Refused(c)) \ {x}) : Visit(d, c, Skipped(S))
    /\ dialling' = [dialling EXCEPT ![d] = {x}]
    /\ Loads(d, x)
    /\ UNCHANGED completing

\* Nobody who is due may be called.
SalesVisitSkip(d, c) ==
    /\ c \in internal /\ ~Full
    /\ InFlight(c) = {}
    /\ Callable(c) = Refused(c) /\ OnList(c) \cup Refused(c) # {}
    /\ Visit(d, c, Skipped(OnList(c) \cup Refused(c)))
    /\ UNCHANGED <<dialling, completing>> /\ Keep

-----------------------------------------------------------------------------
(* dial                                                                     *)

\* What the other passes have flushed: with its locks released a pass may meet it.
OthersDraft(d) == UNION {DOMAIN draft[e] : e \in Dispatchers \ {d}}

Dials(d, x) ==
    /\ Internal(x) /\ Working(d) /\ dialling[d] = {x}
    /\ x \notin reporting \cup OthersDraft(d)

\* Variant: the contact is committed with the answer only.
Marked_Later(x) == row[x]

Marked(x) == [row[x] EXCEPT !.status = "calling"]

\* The commit before the POST: of the contact, of all the pass has written, and the end of
\* its locks.
SalesMark(d, x) ==
    /\ Dials(d, x) /\ ~sale[d].marked /\ Deleted(d) = {}
    /\ row' = [Over(draft[d], row) EXCEPT ![x] = Marked(x)]
    /\ old' = old \ ({x} \cup {k[1] : k \in placed[d]})
    /\ campaign' = [c \in Campaigns |-> IF c \in completing[d] THEN "completed" ELSE campaign[c]]
    /\ billed' = billed \cup placed[d]
    /\ locked' = [locked EXCEPT ![d] = {}]
    /\ draft' = [draft EXCEPT ![d] = NoDraft]
    /\ completing' = [completing EXCEPT ![d] = {}]
    /\ placed' = [placed EXCEPT ![d] = {}]
    /\ sale' = [sale EXCEPT ![d].marked = TRUE]
    /\ UNCHANGED <<blocked, passing, todo, dialling, reports, request, vapi, reported, history,
                   internal, basis>>

\* The POST arrives: the call is the pass's until its answer is stored.
SalesTaken(d, x) ==
    /\ Internal(x) /\ dialling[d] = {x} /\ sale[d].marked /\ placed[d] = {}
    /\ Take(x, OnTheList(x) \/ x[2] \notin basis)
    /\ placed' = [placed EXCEPT ![d] = {<<x, Cardinality(Taken(x)) + 1>>}]
    /\ UNCHANGED <<tables, passing, locked, todo, dialling, draft, completing, reports, request,
                   reported, lost, faults, requests>> /\ Keep

\* The answer is stored; a column that has not changed since it was read is not written.
Answered(d, x, r) ==
    /\ Dials(d, x) /\ sale[d].marked
    /\ row' = [row EXCEPT ![x] = r]
    /\ dialling' = [dialling EXCEPT ![d] = {}]
    /\ placed' = [placed EXCEPT ![d] = {}]
    /\ sale' = [sale EXCEPT ![d] = NoSale]
    /\ UNCHANGED <<campaign, old, blocked, passing, locked, todo, draft, completing, reports,
                   request, vapi, reported, intrusions, requests, internal, basis>>

SalesAccepted(d, x) ==
    /\ placed[d] # {}
    /\ \E k \in placed[d] :
        Answered(d, x, [row[x] EXCEPT !.attempts = sale[d].read + 1, !.call = k[2]])
    /\ billed' = billed \cup placed[d]
    /\ UNCHANGED <<lost, faults>>

\* No answer at all: the call may exist.
SalesUnknown(d, x) ==
    /\ Answered(d, x, [row[x] EXCEPT !.status = "unknown"])
    /\ Fault
    /\ lost' = lost \cup placed[d]
    /\ UNCHANGED billed

SalesRejected(d, x) ==
    /\ placed[d] = {}
    /\ Answered(d, x, [row[x] EXCEPT !.status = "failed"])
    /\ UNCHANGED <<billed, lost, faults>>

\* 5xx and 429: again in half an hour
SalesLater(d, x) ==
    /\ placed[d] = {}
    /\ Answered(d, x, [row[x] EXCEPT !.status = "pending", !.waiting = TRUE])
    /\ Fault
    /\ UNCHANGED <<billed, lost>>

\* The pass dies; a call whose answer was not stored is lost.
SalesRollback(d) ==
    /\ PassRollback(d)
    /\ sale' = [sale EXCEPT ![d] = NoSale]
    /\ UNCHANGED <<internal, basis>>

-----------------------------------------------------------------------------
(* on_report, and time.                                                     *)

\* block: a number that opted out is not tried in the other internal campaigns either.
Elsewhere(x) == {y \in Contacts \ {x} : Internal(y) /\ y[2] = x[2] /\ row[y].status = "pending"}

SalesReportEnds(x) ==
    LET k == <<x, row[x].call>>
        skip == IF vapi[k] = "opted_out" THEN Elsewhere(x) ELSE {} IN
    /\ Internal(x) /\ x \in reporting
    /\ skip \cap (Drafted \cup reporting) = {}
    /\ row' = [Over(Skipped(skip), row) EXCEPT ![x] = AfterCall(row[x], vapi[k])]
    /\ blocked' = ListAfter(x[2], vapi[k])
    /\ reporting' = reporting \ {x}
    /\ reported' = reported \cup {k}
    /\ UNCHANGED <<campaign, old, billed, passes, unlocked, request, vapi, history>> /\ Keep

\* The pass that dialled may be gone, and the call unknown to the row.
SalesGetsOld(x) ==
    /\ Internal(x) /\ row[x].status = "calling" /\ x \notin old
    /\ \A d \in Dispatchers : dialling[d] # {x}
    /\ \A k \in Taken(x) : vapi[k] \in Ends
    /\ old' = old \cup {x}
    /\ UNCHANGED <<campaign, row, billed, blocked, passes, reports, request, vapi, reported, history>>
    /\ Keep

-----------------------------------------------------------------------------
(* The operators' requests (app/modules/sales/channel_router.py).            *)

\* add_members: before the start or in a pause, and whatever the policy says of the contact.
MemberReads(x) ==
    /\ Internal(x) /\ campaign[x[1]] \in {"draft", "paused"}
    /\ row[x].status = "absent"
    /\ Begin("import", {x}, x[1]) /\ Keep

\* record_basis and withdraw_basis
RecordBasis(p) ==
    /\ p \notin basis /\ Asked
    /\ basis' = basis \cup {p}
    /\ intrusions' = [x \in Contacts |-> IF x[2] = p /\ blocked[p] = "no" THEN 0 ELSE intrusions[x]]
    /\ UNCHANGED <<tables, passes, reports, request, vapi, reported, lost, faults, internal, sale>>

WithdrawBasis(p) ==
    /\ p \in basis /\ Asked
    /\ basis' = basis \ {p}
    /\ UNCHANGED <<tables, passes, reports, request, vapi, reported, lost, intrusions, faults,
                   internal, sale>>

\* start: somebody in the preview may be called.
SalesStart(c) ==
    /\ c \in internal /\ campaign[c] \in {"draft", "paused"} /\ c \notin Locked
    /\ \E x \in ContactsOf(c) : row[x].status = "pending" /\ Allowed(x) /\ ~OnTheList(x)
    /\ campaign' = [campaign EXCEPT ![c] = "running"]
    /\ UNCHANGED <<row, old, billed, blocked, passes, reports, request, vapi, reported, history>>
    /\ Keep

StopReads(c) ==
    /\ c \in internal /\ campaign[c] \notin {"stopped", "completed"}
    /\ Begin("stop", {x \in ContactsOf(c) : row[x].status = "pending"}, c) /\ Keep

StopWrites ==
    /\ Finish("stop") /\ request.at \notin Locked
    /\ campaign' = [campaign EXCEPT ![request.at] = "stopped"]
    /\ row' = Over(Skipped(request.of), row)
    /\ UNCHANGED <<old, billed, blocked>> /\ Keep

-----------------------------------------------------------------------------
CustomerPass(d) ==
    \/ (PassBegin(d) \/ PassCommit(d)) /\ Keep
    \/ \E c \in Campaigns : (VisitIdle(d, c) \/ VisitComplete(d, c)) /\ Keep
    \/ \E c \in Campaigns \ internal : VisitSkip(d, c) /\ Keep
    \/ \E x \in {y \in Contacts : ~Internal(y)} :
        \/ VisitDial(d, x[1], x) /\ Loads(d, x)
        \/ (Accepted(d, x, sale[d].read) \/ PostRejected(d, x) \/ PostWithoutUse(d, x)) /\ Keep

SalesPass(d) ==
    \/ \E x \in Contacts :
        \/ SalesVisit(d, x[1], x) \/ SalesMark(d, x) \/ SalesTaken(d, x)
        \/ SalesAccepted(d, x) \/ SalesUnknown(d, x) \/ SalesRejected(d, x) \/ SalesLater(d, x)
    \/ \E c \in Campaigns : SalesVisitSkip(d, c)

\* Requests both kinds have: pause is the same, and a number is blocked in its workspace.
Customers ==
    \/ \E x \in Contacts : ~Internal(x) /\ (ImportReads(x) \/ DeleteReads(x) \/ ReportEnds(x) \/ GetsOld(x))
    \/ \E c \in Campaigns : (c \notin internal /\ Start(c)) \/ PauseReads(c)
    \/ \E p \in Phones : BlockReads(p) \/ (p \notin SalesPhones /\ Unblock(p))

Operators ==
    \/ \E x \in Contacts : MemberReads(x)
    \/ \E p \in SalesPhones : RecordBasis(p) \/ WithdrawBasis(p)
    \/ \E c \in Campaigns : SalesStart(c) \/ StopReads(c)
    \/ StopWrites

SalesNext ==
    \/ \E d \in Dispatchers :
        \/ (CustomerPass(d) \/ SalesPass(d)) /\ DOMAIN draft'[d] \cap OthersDraft(d) = {}
        \/ SalesRollback(d)
    \/ (\E k \in Calls : CallEnds(k) \/ Report(k)) /\ Keep
    \/ (\E x \in Contacts : ReportUnlocks(x) \/ UnlockedEnds(x) \/ RetryDue(x)) /\ Keep
    \/ \E x \in Contacts : SalesReportEnds(x) \/ SalesGetsOld(x)
    \/ Customers /\ Keep
    \/ RequestWrites /\ Keep
    \/ Operators

SalesSpec == SalesInit /\ [][SalesNext]_allVars

-----------------------------------------------------------------------------
(* Properties, besides those of Campaigns.                                  *)

\* "At most one call in flight per campaign" (dispatch), at the telephone: of the calls of a
\* campaign whose answers were stored, one is on the line.
OneOnTheLine ==
    \A c \in Campaigns : Cardinality({k \in Calls : k[1][1] = c /\ vapi[k] = "live" /\ k \in billed}) <= 1

=============================================================================
