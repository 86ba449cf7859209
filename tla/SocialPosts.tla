----------------------------- MODULE SocialPosts -----------------------------
(***************************************************************************)
(* Dialogbot's own posts on one platform for one day                        *)
(* (app/modules/social/service.py, publishers.py, router.py): the workers   *)
(* plan, rebuild, publish and give up posts every minute, and an operator    *)
(* approves, cancels, plans and publishes.                                   *)
(*                                                                         *)
(* A thread is a worker in run_due or a request of an operator.  What it has   *)
(* read it writes back later, by primary key, and a column that has not        *)
(* changed since it was read is not written.  Each tick of a worker starts      *)
(* with a new session.  Captions, images, reminders, topics and extra posts      *)
(* (which sit outside the rule of one a day) are left out; drafts must be        *)
(* approved (SOCIAL_REQUIRE_APPROVAL).                                       *)
(***************************************************************************)
EXTENDS Naturals, FiniteSets

CONSTANTS
    Posts,         \* rows the plan may make for the day
    Workers,       \* worker processes
    Operators,     \* requests at a time
    MAX_ATTEMPTS,  \* 3 in the code
    MaxRequests,   \* bound on the operators' requests
    MaxFaults      \* bound on threads that die, connections that break, rebuilds and models that fail

Threads == Workers \cup Operators

ASSUME ConstantsAssumption ==
    /\ Workers \cap Operators = {} /\ IsFiniteSet(Threads)
    /\ MAX_ATTEMPTS \in Nat \ {0} /\ MaxRequests \in Nat
    /\ MaxFaults \in Nat

VARIABLES
    post,          \* social_posts
    passed,        \* the day's slot has come
    doing,         \* threads: what they are about, and what they have read
    public,        \* the platform: how often a post was made
    \* history: how often an operator approved a post and asked to publish it at once; how
    \* often it was made and then reported as an error that may be retried; plans an operator
    \* asked for; plans that lost their lock; the number of requests and faults
    approvals, nows, broken, replans, unlocks, requests, faults

counters == <<approvals, nows, broken, replans, unlocks, requests, faults>>
asked == <<approvals, nows, broken, replans, unlocks, requests>>
vars == <<post, passed, doing, public, counters>>

ACTIVE == {"draft", "scheduled", "publishing", "published", "failed"}
Statuses == ACTIVE \cup {"absent", "skipped", "cancelled"}
Times == {"ahead", "due", "late"}
Rows == [status : Statuses, when : Times, attempts : Nat, waiting : BOOLEAN, old : BOOLEAN,
         design : {"old", "new"}]
NoRow == [status |-> "absent", when |-> "ahead", attempts |-> 0, waiting |-> FALSE, old |-> FALSE,
          design |-> "new"]

Jobs == {"idle", "refresh", "plan", "replan", "unlocked", "stale", "expire", "approve", "cancel", "now", "marks",
         "post", "made"}
Idle == [what |-> "idle", of |-> {}, holds |-> {}, read |-> [p \in {} |-> NoRow]]

\* What a thread goes by later, of what it has read.
Copy(S) == [p \in S |-> [status |-> post[p].status, tried |-> post[p].attempts # 0, waiting |-> post[p].waiting]]

TypeOK ==
    /\ post \in [Posts -> Rows]
    /\ passed \in BOOLEAN
    /\ \A t \in Threads :
        /\ doing[t].what \in Jobs
        /\ doing[t].holds \subseteq doing[t].of /\ doing[t].of \subseteq Posts
        /\ doing[t].what \in {"refresh", "now", "marks"} =>
            doing[t].read \in [doing[t].of -> [status : Statuses, tried : BOOLEAN, waiting : BOOLEAN]]
    /\ \A h \in {public, approvals, nows, broken} : h \in [Posts -> Nat]
    /\ replans \in 0..MaxRequests /\ requests \in 0..MaxRequests
    /\ faults \in 0..MaxFaults /\ unlocks \in 0..MaxFaults

\* The day was planned, maybe with an older design, or is not yet.
Init ==
    /\ \E first \in Posts, d \in {"old", "new"}, s \in {"absent", "draft", "scheduled"} :
        /\ post = [p \in Posts |-> IF p = first THEN [NoRow EXCEPT !.status = s, !.design = d] ELSE NoRow]
        /\ approvals = [p \in Posts |-> IF p = first /\ s = "scheduled" THEN 1 ELSE 0]
    /\ passed = FALSE
    /\ doing = [t \in Threads |-> Idle]
    /\ public = [p \in Posts |-> 0]
    /\ nows = [p \in Posts |-> 0]
    /\ broken = [p \in Posts |-> 0]
    /\ replans = 0 /\ unlocks = 0 /\ requests = 0 /\ faults = 0

-----------------------------------------------------------------------------
(* Rows and threads.                                                        *)

\* Rows a refresh has locked: others skip them or wait.
Held(t) == UNION {doing[u].holds : u \in Threads \ {t}}

\* uq_social_posts_platform_slot
OnePerSlot(rows) ==
    \A p, q \in Posts :
        {rows[p].status, rows[q].status} \cap {"absent", "cancelled", "skipped"} = {} => p = q

Become(t, what, S) ==
    doing' = [doing EXCEPT ![t] = [what |-> what, of |-> S, holds |-> {},
                                   read |-> Copy(IF what = "now" THEN S ELSE {})]]

Done(t) == doing' = [doing EXCEPT ![t] = Idle]

\* A commit of rows, refused when the unique index is violated.
Fits(p, r) == OnePerSlot([post EXCEPT ![p] = r])

StoreAll(rows) ==
    post' = IF OnePerSlot(rows)
            THEN [p \in Posts |-> IF rows[p] = post[p] THEN post[p] ELSE [rows[p] EXCEPT !.old = FALSE]]
            ELSE post

Store(t, p, r) == p \notin Held(t) /\ StoreAll([post EXCEPT ![p] = r])

IsIdle(t) == doing[t] = Idle
Does(t, what) == doing[t].what = what
Fault == faults < MaxFaults /\ faults' = faults + 1

-----------------------------------------------------------------------------
(* refresh_stale_drafts: the rows of all days and platforms are read and         *)
(* locked together; each is rebuilt with the language model and committed.      *)
(* The first commit releases them all.                                       *)

RefreshBegin(w) ==
    LET S == {p \in Posts : post[p].status \in {"draft", "scheduled"} /\ post[p].design = "old"} \ Held(w) IN
    /\ IsIdle(w) /\ S # {}
    /\ doing' = [doing EXCEPT ![w] = [what |-> "refresh", of |-> S, holds |-> S, read |-> Copy(S)]]
    /\ UNCHANGED <<post, passed, public, counters>>

\* A row of another day or platform is committed first, or the language model fails, which
\* log_call commits: this day's rows are still to be rebuilt, and no longer locked.
RefreshLetsGo(w) ==
    /\ Does(w, "refresh") /\ doing[w].holds # {}
    /\ doing' = [doing EXCEPT ![w].holds = {}]
    /\ UNCHANGED <<post, passed, public, counters>>

Rebuilt(p, read, when) ==
    [post[p] EXCEPT !.design = "new", !.when = when,
                    !.status = IF read.status = "scheduled" THEN "draft" ELSE @]

\* A slot that has passed is moved, unless the day is over.
RefreshOne(w, p) ==
    LET rest == doing[w].of \ {p} IN
    /\ Does(w, "refresh") /\ p \in doing[w].of
    /\ \E when \in {post[p].when, "ahead"} : Store(w, p, Rebuilt(p, doing[w].read[p], when))
    /\ doing' = [doing EXCEPT ![w] =
                    IF rest = {} THEN Idle
                    ELSE [@ EXCEPT !.of = rest, !.holds = {}, !.read = [q \in rest |-> doing[w].read[q]]]]
    /\ UNCHANGED <<passed, public, counters>>

\* The images fail, or those of another row: rolled back, the next pass tries again.
RefreshFails(w) ==
    /\ Does(w, "refresh") /\ Fault
    /\ Done(w)
    /\ UNCHANGED <<post, passed, public, asked>>

-----------------------------------------------------------------------------
(* plan_day: one planner per day (advisory lock), the language model in        *)
(* between.  The lock is the transaction's: when the model fails, log_call's     *)
(* commit ends it, and the plan goes on with the text written by hand.  The      *)
(* rolling plan respects a cancelled post; an operator's plan does not.          *)

New(p) == post[p].status = "absent"

Planning == \E t \in Threads : doing[t].what \in {"plan", "replan"}

\* Variant: a cancelled post is planned again.
Taken_Live(what) == {p \in Posts : post[p].status \in ACTIVE}

Taken(what) ==
    {p \in Posts : post[p].status \in IF what = "plan" THEN ACTIVE \cup {"cancelled"} ELSE ACTIVE}

PlanReads(t, what) ==
    /\ IsIdle(t) /\ ~Planning
    /\ ~passed /\ Taken(what) = {}
    /\ \E p \in Posts : New(p)
    /\ Become(t, what, {})

PlanBegin(w) == PlanReads(w, "plan") /\ UNCHANGED <<post, passed, public, counters>>

PlanUnlocks(t) ==
    /\ doing[t].what \in {"plan", "replan"} /\ Fault
    /\ doing' = [doing EXCEPT ![t].what = "unlocked"]
    /\ unlocks' = unlocks + 1
    /\ UNCHANGED <<post, passed, public, approvals, nows, broken, replans, requests>>

PlanEnds(t) ==
    /\ doing[t].what \in {"plan", "replan", "unlocked"}
    /\ \E p \in Posts :
        /\ New(p) /\ Store(t, p, [NoRow EXCEPT !.status = "draft"])
    /\ Done(t)
    /\ UNCHANGED <<passed, public, counters>>

-----------------------------------------------------------------------------
(* publish_due                                                              *)

\* Variants: nothing is stale, and a stale post is scheduled again.
Stale_None == {}
Uncertain_Again(r) == [r EXCEPT !.status = "scheduled"]

\* publishing, and nothing written for STALE_PUBLISHING
Stale == {p \in Posts : post[p].status = "publishing" /\ post[p].old}
Expired == {p \in Posts : post[p].status = "draft" /\ post[p].when = "late"}

Uncertain(r) == [r EXCEPT !.status = "failed"]
Skipped(r) == [r EXCEPT !.status = "skipped"]

SweepReads(w) ==
    /\ IsIdle(w)
    /\ \/ Stale # {} /\ Become(w, "stale", Stale)
       \/ Expired # {} /\ Become(w, "expire", Expired)
    /\ UNCHANGED <<post, passed, public, counters>>

SweepWrites(w) ==
    /\ doing[w].what \in {"stale", "expire"}
    /\ doing[w].of \cap Held(w) = {}
    /\ StoreAll([p \in Posts |->
                    IF p \notin doing[w].of THEN post[p]
                    ELSE IF Does(w, "stale") THEN Uncertain(post[p]) ELSE Skipped(post[p])])
    /\ Done(w)
    /\ UNCHANGED <<passed, public, counters>>

\* _claim: FOR UPDATE SKIP LOCKED
Claimable(w, p) ==
    /\ IsIdle(w) /\ p \notin Held(w)
    /\ post[p].status = "scheduled" /\ ~post[p].waiting
    /\ post[p].when # "ahead"

\* Too late: the row is skipped.
ClaimLate(w, p) ==
    /\ Claimable(w, p) /\ post[p].when = "late"
    /\ post' = [post EXCEPT ![p] = Skipped(@)]
    /\ UNCHANGED <<passed, doing, public, counters>>

Publishing(r) == [r EXCEPT !.status = "publishing", !.waiting = FALSE, !.old = FALSE]

\* publish_one up to the commit before the platform is called.
Claim(w, p) ==
    /\ Claimable(w, p) /\ post[p].when = "due"
    /\ post' = [post EXCEPT ![p] = [Publishing(post[p]) EXCEPT !.attempts = post[p].attempts + 1]]
    /\ Become(w, "post", {p})
    /\ UNCHANGED <<passed, public, counters>>

-----------------------------------------------------------------------------
(* publisher.publish, and the commit after it.                               *)

Made(t, p) ==
    /\ Does(t, "post") /\ p \in doing[t].of
    /\ public' = [public EXCEPT ![p] = @ + 1]
    /\ doing' = [doing EXCEPT ![t].what = "made"]
    /\ UNCHANGED <<post, passed, counters>>

Ends(t, p, what, r) ==
    /\ Does(t, what) /\ p \in doing[t].of
    /\ Store(t, p, r)
    /\ Done(t)
    /\ UNCHANGED <<passed, public>>

Posted(t, p) ==
    /\ Ends(t, p, "made", [post[p] EXCEPT !.status = "published"])
    /\ UNCHANGED counters

\* Variant: a status the table does not know.
Again_Retry(p) == [post[p] EXCEPT !.status = "retry", !.waiting = TRUE]

\* A retryable error; the row is read again.
Again(p) ==
    IF post[p].attempts < MAX_ATTEMPTS
    THEN [post[p] EXCEPT !.status = "scheduled", !.waiting = TRUE]
    ELSE Uncertain(post[p])

\* The platform refuses, for good or for now.
Refused(t, p) ==
    /\ \E r \in {Again(p), Uncertain(post[p])} : Ends(t, p, "post", r)
    /\ UNCHANGED counters

\* No answer to the call that makes the post, or an unknown error: it may be out.
NoAnswer(t, p) ==
    /\ \E what \in {"post", "made"} : Ends(t, p, what, Uncertain(post[p]))
    /\ UNCHANGED counters

\* The post is out, and the connection breaks or the question for its state fails: an error
\* that is taken for retryable.
Breaks(t, p) ==
    /\ Ends(t, p, "made", Again(p))
    /\ broken' = [broken EXCEPT ![p] = @ + 1]
    /\ Fault
    /\ UNCHANGED <<approvals, nows, replans, unlocks, requests>>

-----------------------------------------------------------------------------
(* The operators' requests: they read without a lock and write back.          *)

Reads(o, kind, p) ==
    /\ IsIdle(o)
    /\ requests < MaxRequests /\ requests' = requests + 1
    /\ Become(o, kind, {p})
    /\ UNCHANGED <<post, passed, public, approvals, nows, broken, replans, unlocks, faults>>

ApproveReads(o, p) == post[p].status = "draft" /\ post[p].design = "new" /\ Reads(o, "approve", p)
CancelReads(o, p) == post[p].status \in {"draft", "scheduled", "failed"} /\ Reads(o, "cancel", p)

NowReads(o, p) ==
    /\ \/ post[p].status = "failed"
       \/ post[p].status \in {"draft", "scheduled"} /\ post[p].design = "new"
    /\ Reads(o, "now", p)

ApproveWrites(o, p) ==
    /\ Ends(o, p, "approve", [post[p] EXCEPT !.status = "scheduled"])
    /\ approvals' = [approvals EXCEPT ![p] = @ + 1]
    /\ UNCHANGED <<nows, broken, replans, unlocks, requests, faults>>

CancelWrites(o, p) ==
    /\ Ends(o, p, "cancel", [post[p] EXCEPT !.status = "cancelled"])
    /\ UNCHANGED counters

\* publish_now: scheduled, committed, and only then publish_one.
NowWrites(o, p) ==
    LET read == doing[o].read[p]
        r == [post[p] EXCEPT !.status = IF read.status = "scheduled" THEN @ ELSE "scheduled",
                             !.attempts = IF read.tried THEN 0 ELSE @] IN
    /\ Does(o, "now") /\ p \in doing[o].of
    /\ Store(o, p, r)
    /\ IF Fits(p, r) THEN doing' = [doing EXCEPT ![o].what = "marks"] ELSE Done(o)
    /\ nows' = [nows EXCEPT ![p] = @ + 1]
    /\ UNCHANGED <<passed, public, approvals, broken, replans, unlocks, requests, faults>>

NowMarks(o, p) ==
    LET r == [Publishing(post[p]) EXCEPT !.attempts = 1, !.waiting = post[p].waiting /\ ~doing[o].read[p].waiting] IN
    /\ Does(o, "marks") /\ p \in doing[o].of
    /\ Store(o, p, r)
    /\ IF Fits(p, r) THEN Become(o, "post", {p}) ELSE Done(o)
    /\ UNCHANGED <<passed, public, counters>>

\* The images are gone, or the platform is not connected: 409.
NowRefused(o) == Does(o, "marks") /\ Done(o) /\ UNCHANGED <<post, passed, public, counters>>

\* plan_now for the day
Replan(o) ==
    /\ PlanReads(o, "replan")
    /\ requests < MaxRequests /\ requests' = requests + 1
    /\ replans' = replans + 1
    /\ UNCHANGED <<post, passed, public, approvals, nows, broken, unlocks, faults>>

-----------------------------------------------------------------------------
(* Time, and the end of a thread.                                            *)

DayPasses ==
    /\ ~passed /\ passed' = TRUE
    /\ UNCHANGED <<post, doing, public, counters>>

\* scheduled_for, and scheduled_for and SOCIAL_MAX_LATE_MINUTES, while it matters
ComesDue(p) ==
    /\ post[p].status \in {"draft", "scheduled"} /\ post[p].when # "late"
    /\ passed
    /\ post' = [post EXCEPT ![p].when = IF @ = "ahead" THEN "due" ELSE "late"]
    /\ UNCHANGED <<passed, doing, public, counters>>

\* next_attempt_at
RetryDue(p) ==
    /\ post[p].waiting
    /\ post' = [post EXCEPT ![p].waiting = FALSE]
    /\ UNCHANGED <<passed, doing, public, counters>>

GetsOld(p) ==
    /\ post[p].status = "publishing" /\ ~post[p].old
    /\ post' = [post EXCEPT ![p].old = TRUE]
    /\ UNCHANGED <<passed, doing, public, counters>>

Dies(t) ==
    /\ ~IsIdle(t) /\ Fault
    /\ Done(t)
    /\ UNCHANGED <<post, passed, public, asked>>

-----------------------------------------------------------------------------
WorkerStep(w) ==
    \/ RefreshBegin(w) \/ PlanBegin(w) \/ SweepReads(w) \/ SweepWrites(w)
    \/ \E p \in Posts : RefreshOne(w, p) \/ ClaimLate(w, p) \/ Claim(w, p)

\* The platform answers, or httpx gives up; a commit waits for nobody for ever.
PlatformStep(t) ==
    \E p \in Posts : Made(t, p) \/ Posted(t, p) \/ Refused(t, p) \/ NoAnswer(t, p) \/ Breaks(t, p)

OperatorReads(o) ==
    \/ \E p \in Posts : ApproveReads(o, p) \/ CancelReads(o, p) \/ NowReads(o, p)
    \/ Replan(o)

OperatorStep(o) ==
    \/ \E p \in Posts : ApproveWrites(o, p) \/ CancelWrites(o, p) \/ NowWrites(o, p) \/ NowMarks(o, p)
    \/ NowRefused(o)

TimeStep(p) == ComesDue(p) \/ RetryDue(p) \/ GetsOld(p)

Next ==
    \/ \E w \in Workers : WorkerStep(w) \/ RefreshLetsGo(w) \/ RefreshFails(w)
    \/ \E t \in Threads : PlatformStep(t) \/ PlanUnlocks(t) \/ PlanEnds(t) \/ Dies(t)
    \/ \E o \in Operators : OperatorReads(o) \/ OperatorStep(o)
    \/ \E p \in Posts : TimeStep(p)
    \/ DayPasses

Spec == Init /\ [][Next]_vars

\* Workers run every minute and take up what there is in turn; requests that have begun end;
\* the platform answers or times out; time passes.  Nothing obliges an operator to act.
Fairness ==
    /\ \A w \in Workers : WF_vars(WorkerStep(w))
    /\ \A w \in Workers : SF_vars(SweepReads(w))
    /\ \A w \in Workers, p \in Posts : SF_vars(ClaimLate(w, p) \/ Claim(w, p))
    /\ \A t \in Threads : WF_vars(PlatformStep(t)) /\ WF_vars(PlanEnds(t))
    /\ \A o \in Operators : WF_vars(OperatorStep(o))
    /\ \A p \in Posts : WF_vars(ComesDue(p)) /\ WF_vars(RetryDue(p)) /\ WF_vars(GetsOld(p))
    /\ WF_vars(DayPasses)

FairSpec == Spec /\ Fairness

-----------------------------------------------------------------------------
(* Properties.                                                              *)

\* "A duplicate public post is worse than a missed one": a post is made at most once per
\* approval and twice per request to publish it at once (which a worker may take up too),
\* besides those a broken connection hid, whatever threads die and whatever is stale.
PostedAsAsked ==
    \A p \in Posts : public[p] <= approvals[p] + 2 * nows[p] + broken[p]

\* The rolling plan makes one post for the day and does not undo a cancel: there is a second
\* row only when an operator has asked for another plan, whatever stale writes bring back, or
\* when a plan went on without its lock: the one begun meanwhile may write its post after the
\* first one's was cancelled.
OnePerDay == Cardinality({p \in Posts : ~New(p)}) <= 1 + replans + unlocks

\* Every post that is to go out goes out, is skipped, fails or goes back to a draft; none is left
\* as publishing by a thread that died.
PostsSettle ==
    \A p \in Posts : post[p].status \in {"scheduled", "publishing"} ~> post[p].status \notin {"scheduled", "publishing"}

=============================================================================
