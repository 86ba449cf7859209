--------------------------- MODULE CampaignsProofs ---------------------------
(***************************************************************************)
(* Theorems about Campaigns for every set of contacts, any number of workers, *)
(* attempts, calls, faults and requests.  The calls a pass has placed ring     *)
(* before it commits, so the invariant speaks of the rows as they are, as a    *)
(* pass has drafted them, and as it will when Vapi answers: PassInv says what   *)
(* a pass may write, FlightInv that one contact of a campaign is being called   *)
(* in all of these, AttemptInv and CallInv how attempts and calls go together,   *)
(* ListInv what a pass has read of the list, AnswerInv what a late report may    *)
(* find.  At the end, SalesInv is about SalesCampaigns, where a pass releases its  *)
(* locks before it dials: there a row counts no more attempts than calls taken.  *)
(***************************************************************************)
EXTENDS SalesCampaigns, FiniteSetTheorems, TLAPS

Drafts == Open \cup {"no_answer", "failed", "skipped"}

PassInv ==
    /\ locked \in [Dispatchers -> SUBSET Campaigns]
    /\ todo \in [Dispatchers -> SUBSET Campaigns]
    /\ dialling \in [Dispatchers -> SUBSET Contacts]
    /\ placed \in [Dispatchers -> SUBSET Calls]
    /\ draft = [d \in Dispatchers |-> draft[d]]
    /\ \A d, e \in Dispatchers : d # e => locked[d] \cap locked[e] = {}
    /\ \A d \in Dispatchers :
        /\ d \notin passing => locked[d] = {}
        /\ todo[d] \subseteq locked[d]
        /\ DOMAIN draft[d] \cap dialling[d] = {}
        /\ \A x \in DOMAIN draft[d] :
            x \in Contacts /\ draft[d][x] \in Rows /\ draft[d][x].status \in Drafts
        /\ \A x \in DOMAIN draft[d] \cup dialling[d] : x[1] \in locked[d] \ todo[d]
        /\ \A k \in placed[d] : k[1] \in DOMAIN draft[d] /\ draft[d][k[1]].status = "calling"

\* A contact's row as the pass has it.
Seen(d, x) == IF x \in DOMAIN draft[d] THEN draft[d][x] ELSE row[x]

FlightInv ==
    /\ OneInFlight
    /\ \A d \in Dispatchers : \A x, y \in Contacts : x # y /\ x[1] = y[1] =>
        /\ x \in DOMAIN draft[d] /\ draft[d][x].status = "calling" => Seen(d, y).status # "calling"
        /\ x \in dialling[d] => Seen(d, y).status # "calling"

Out(x) == \E d \in Dispatchers : \E k \in placed[d] : k[1] = x

AttemptInv ==
    /\ row \in [Contacts -> Rows]
    /\ \A x \in Contacts :
        /\ row[x].status = "absent" => row[x] = NoRow
        /\ row[x].status = "pending" => row[x].attempts < MaxAttempts
    /\ \A d \in Dispatchers :
        /\ \A x \in dialling[d] \cup DOMAIN draft[d] : row[x].status # "absent"
        /\ \A x \in dialling[d] : row[x].attempts < MaxAttempts
        /\ \A k, l \in placed[d] : k[1] = l[1] => k = l
        /\ \A x \in DOMAIN draft[d] :
            /\ draft[d][x].status = "pending" => draft[d][x].attempts < MaxAttempts
            /\ draft[d][x].attempts = row[x].attempts + (IF \E k \in placed[d] : k[1] = x THEN 1 ELSE 0)

CallInv ==
    /\ billed \subseteq Calls /\ lost \subseteq Calls
    /\ vapi \in [Calls -> {"none", "live"} \cup Ends]
    /\ \A k \in billed \cup lost \cup UNION {placed[d] : d \in Dispatchers} : vapi[k] # "none"
    /\ \A d \in Dispatchers : placed[d] \cap (billed \cup lost) = {}
    /\ \A x \in Contacts :
        /\ \A n \in 1..MaxCalls : vapi[<<x, n>>] # "none" <=> n <= Cardinality(Taken(x))
        /\ Cardinality(Taken(x)) =
            row[x].attempts + Cardinality(CallsOf(x, lost)) + (IF Out(x) THEN 1 ELSE 0)
    /\ BilledPerAttempt

ListInv ==
    /\ blocked = [p \in Phones |-> blocked[p]]
    /\ intrusions \in [Contacts -> Nat]
    /\ \A x \in Contacts :
        /\ intrusions[x] <= 1
        /\ ~OnTheList(x) => intrusions[x] = 0
    /\ \A d \in Dispatchers : \A x \in dialling[d] : intrusions[x] = 0

RequestInv ==
    /\ request.of \subseteq Contacts
    /\ request.kind = "import" => \A x \in request.of : row[x].status = "absent"
    /\ request.kind \in {"block", "delete"} =>
        \A x \in request.of : row[x].status \notin {"absent", "deleted"}

Call(x) == <<x, row[x].call>>

\* A pass may write over the contact's row.
AtStake(x) == \E d \in Dispatchers : x \in DOMAIN draft[d] \cup dialling[d]

\* The answer is that of its last call.
HasAnswered(x) == row[x].status \in {"done", "opted_out"} /\ Call(x) \in reported

AnswerInv ==
    /\ \A x \in reporting :
        /\ x \in Contacts /\ row[x].status \notin {"absent", "deleted"}
        /\ Call(x) \in Calls /\ Call(x) \notin reported
    /\ \A x \in Contacts :
        /\ row[x].status = "opted_out" => Call(x) \in reported
        /\ row[x].status = "pending" \/ (\E d \in Dispatchers : x \in dialling[d]) =>
            row[x].call = 0 \/ Call(x) \in reported \/ x \in old
        /\ AtStake(x) /\ (HasAnswered(x) \/ x \in reporting) => x \in old
    /\ \A d \in Dispatchers : \A x \in DOMAIN draft[d] : draft[d][x].status = "pending" =>
        draft[d][x].call = 0 \/ <<x, draft[d][x].call>> \in reported \/ x \in old

IInv == PassInv /\ FlightInv /\ AttemptInv /\ CallInv /\ ListInv /\ RequestInv /\ AnswerInv

\* A contact whose report has lost its lock is not dialled anew.
UnlockedInv ==
    /\ \A x \in unlocked :
        /\ x \in Contacts \ reporting
        /\ row[x].status \notin {"absent", "opted_out"}
        /\ (row[x].status = "pending" /\ ~row[x].waiting) \/ AtStake(x) => x \in old
    /\ \A d \in Dispatchers : \A x \in DOMAIN draft[d] :
        draft[d][x].status = "pending" => draft[d][x].waiting

USE DEF reports

-----------------------------------------------------------------------------
(* Sets of calls and of rows.                                               *)

LEMMA CallsFinite ==
    ASSUME NEW x, NEW S \in SUBSET Calls
    PROVE  IsFiniteSet(CallsOf(x, S)) /\ Cardinality(CallsOf(x, S)) \in Nat
<1>1. IsFiniteSet(1..MaxCalls)
  BY ConstantsAssumption, FS_Interval
<1>2. IsFiniteSet({x} \X (1..MaxCalls))
  BY <1>1, FS_Singleton, FS_Product
<1>3. CallsOf(x, S) \in SUBSET ({x} \X (1..MaxCalls))
  BY DEF CallsOf, Calls
<1>4. IsFiniteSet(CallsOf(x, S))
  BY <1>2, <1>3, FS_Subset
<1> QED BY <1>4, FS_CardinalityType

\* A set with one call more.
LEMMA OneCallMore ==
    ASSUME NEW x, NEW S \in SUBSET Calls, NEW k \in Calls \ S, k[1] = x,
           NEW T, CallsOf(x, T) = CallsOf(x, S) \cup {k}
    PROVE  Cardinality(CallsOf(x, T)) = Cardinality(CallsOf(x, S)) + 1
<1>1. IsFiniteSet(CallsOf(x, S)) /\ k \notin CallsOf(x, S)
  BY CallsFinite DEF CallsOf
<1> QED BY <1>1, FS_AddElement

LEMMA TakenFinite ==
    ASSUME NEW x \in Contacts
    PROVE  Taken(x) \in SUBSET Calls /\ IsFiniteSet(Taken(x)) /\ Cardinality(Taken(x)) \in Nat
<1>1. Taken(x) = CallsOf(x, {k \in Calls : vapi[k] # "none"})
  BY DEF Taken, CallsOf
<1>2. {k \in Calls : vapi[k] # "none"} \in SUBSET Calls
  OBVIOUS
<1>3. IsFiniteSet(Taken(x)) /\ Cardinality(Taken(x)) \in Nat
  BY <1>1, <1>2, CallsFinite
<1> QED BY <1>3 DEF Taken

LEMMA AfterAttemptRow ==
    ASSUME NEW r \in Rows
    PROVE  LET q == AfterAttempt(r) IN
           /\ q \in Rows /\ q.status \in {"pending", "no_answer"}
           /\ q.attempts = r.attempts /\ q.call = r.call
           /\ q.status = "pending" => q.attempts < MaxAttempts
BY ConstantsAssumption DEF AfterAttempt, Rows, RowsUpTo, Statuses, Open

\* The row of a contact that Vapi has taken a call for.
LEMMA DialledRow ==
    ASSUME NEW r \in Rows, r.attempts < MaxAttempts, NEW n \in 1..MaxCalls
    PROVE  LET q == [r EXCEPT !.attempts = r.attempts + 1, !.status = "calling", !.call = n] IN
           q \in Rows /\ q.status = "calling" /\ q.attempts = r.attempts + 1
<1>1. PICK a \in 0..MaxAttempts : a = r.attempts + 1
  BY ConstantsAssumption DEF Rows, RowsUpTo, Statuses
<1>2. n \in 0..MaxCalls
  BY ConstantsAssumption
<1> QED BY <1>1, <1>2 DEF Rows, RowsUpTo, Statuses, Open

LEMMA NewRows ==
    /\ NoRow \in Rows /\ NoRow.status = "absent" /\ NoRow.attempts = 0 /\ NoRow.call = 0
    /\ NewRow \in Rows /\ NewRow.status = "pending" /\ NewRow.attempts = 0 /\ NewRow.call = 0
<1>1. 0 \in 0..MaxAttempts /\ 0 \in 0..MaxCalls
  BY ConstantsAssumption
<1> QED BY <1>1 DEF NoRow, NewRow, Rows, RowsUpTo, Statuses, Open

\* Who is due is pending.
LEMMA DueRow ==
    ASSUME row \in [Contacts -> Rows], NEW c, NEW x \in Due(c)
    PROVE  x \in Contacts /\ x[1] = c /\ row[x].status = "pending" /\ x \notin Stale(c)
BY DEF Due, Pending, ContactsOf, Over, Swept, Stale

\* What a contact's calls are called does not depend on who else is called.
LEMMA CallRow ==
    ASSUME NEW x, row[x] \in Rows, Call(x) \in Calls
    PROVE  row[x].call # 0
BY ConstantsAssumption DEF Call, Calls, Rows, RowsUpTo, Statuses

LEMMA InitIInv == Init => IInv
<1> SUFFICES ASSUME Init PROVE IInv
  OBVIOUS
<1>1. PassInv
  BY DEF Init, PassInv, NoDraft
<1>2. /\ row \in [Contacts -> Rows]
      /\ \A x \in Contacts :
            row[x].status \in {"absent", "pending"} /\ row[x].attempts = 0 /\ row[x].call = 0
  <2>1. \A r \in {NoRow, NewRow} :
            r \in Rows /\ r.status \in {"absent", "pending"} /\ r.attempts = 0 /\ r.call = 0
    BY NewRows
  <2>2. row \in [Contacts -> {NoRow, NewRow}]
    BY DEF Init
  <2> QED BY <2>1, <2>2
<1>3. FlightInv
  BY <1>2 DEF Init, FlightInv, OneInFlight, NoDraft, Seen
<1>4. AttemptInv
  BY <1>2, ConstantsAssumption DEF Init, AttemptInv, NoDraft, NoRow, NewRow
<1>5. \A x \in Contacts : Taken(x) = {} /\ CallsOf(x, lost) = {} /\ CallsOf(x, billed) = {} /\ ~Out(x)
  BY DEF Init, Taken, CallsOf, Out
<1>6. CallInv
  <2>1. \A x \in Contacts :
            /\ Cardinality(Taken(x)) = 0 /\ Cardinality(CallsOf(x, lost)) = 0
            /\ Cardinality(CallsOf(x, billed)) = 0
    BY <1>5, FS_EmptySet
  <2>2. ASSUME NEW x \in Contacts, NEW n \in 1..MaxCalls
        PROVE  vapi[<<x, n>>] # "none" <=> n <= Cardinality(Taken(x))
    <3>1. <<x, n>> \in Calls /\ vapi = [k \in Calls |-> "none"]
      BY DEF Init, Calls
    <3>2. n \in Nat /\ n > 0
      BY ConstantsAssumption
    <3> QED BY <2>1, <3>1, <3>2
  <2> QED BY <1>2, <1>5, <2>1, <2>2 DEF Init, CallInv, BilledPerAttempt
<1>7. ListInv /\ RequestInv
  BY DEF Init, ListInv, RequestInv, OnTheList, Phones, NoRequest
<1>8. AnswerInv
  BY <1>2 DEF Init, AnswerInv, HasAnswered, AtStake, NoDraft
<1> QED BY <1>1, <1>3, <1>4, <1>6, <1>7, <1>8 DEF IInv

-----------------------------------------------------------------------------
(* The dispatch pass.                                                       *)

LEMMA PassBeginInv ==
    ASSUME IInv, NEW d \in Dispatchers, PassBegin(d)
    PROVE  IInv'
<1> USE DEF PassBegin, tables, history
<1>1. PassInv /\ FlightInv /\ AttemptInv /\ CallInv /\ ListInv /\ RequestInv /\ AnswerInv
  BY DEF IInv
<1>2. PassInv'
  <2>1. PICK free \in SUBSET Campaigns : /\ free \cap Locked = {}
                                         /\ locked' = [locked EXCEPT ![d] = free]
                                         /\ todo' = [todo EXCEPT ![d] = free]
    OBVIOUS
  <2>2. \A e \in Dispatchers : locked[e] \cap free = {}
    BY <2>1 DEF Locked
  <2>3. DOMAIN draft[d] = {} /\ dialling[d] = {} /\ locked[d] = {}
    BY <1>1 DEF PassInv
  <2> QED BY <1>1, <2>1, <2>2, <2>3 DEF PassInv
<1>3. FlightInv' /\ AttemptInv' /\ ListInv' /\ RequestInv'
  BY <1>1 DEF FlightInv, AttemptInv, ListInv, RequestInv, OneInFlight, Seen, OnTheList
<1>4. CallInv'
  BY <1>1 DEF CallInv, BilledPerAttempt, Taken, Out
<1>5. AnswerInv'
  BY <1>1 DEF AnswerInv, HasAnswered, AtStake, Call
<1> QED BY <1>2, <1>3, <1>4, <1>5 DEF IInv

\* A visit skips the contacts S of the campaign and dials X, one or nobody.
LEMMA VisitInv ==
    ASSUME IInv, NEW d \in Dispatchers, NEW c \in Campaigns, NEW S \in SUBSET Due(c), NEW w,
           DOMAIN w = S, \A x \in S : w[x] = [row[x] EXCEPT !.status = "skipped"],
           Visit(d, c, w),
           NEW X, dialling' = [dialling EXCEPT ![d] = X],
           X # {} => /\ InFlight(c) = {}
                     /\ \E x \in Due(c) \ S : X = {x} /\ ~OnTheList(x)
    PROVE  IInv'
<1> USE DEF Visit, tables, history
<1>1. PassInv /\ FlightInv /\ AttemptInv /\ CallInv /\ ListInv /\ RequestInv /\ AnswerInv
  BY DEF IInv
<1>2. row \in [Contacts -> Rows]
  BY <1>1 DEF AttemptInv
<1>3. \A x \in S \cup X : x \in Contacts /\ x[1] = c /\ row[x].status = "pending" /\ x \notin Stale(c)
  BY <1>2, DueRow
<1>4. \A x \in Stale(c) : x \in Contacts /\ x[1] = c /\ row[x].status = "calling" /\ x \in old
  BY DEF Stale, ContactsOf
<1>5. \A x \in DOMAIN draft[d] : x \in Contacts /\ x[1] # c
  BY <1>1 DEF PassInv
<1>6. /\ draft' = [e \in Dispatchers |-> draft'[e]]
      /\ \A e \in Dispatchers : e # d => draft'[e] = draft[e]
      /\ draft'[d] = Over(w, Over(Swept(c), draft[d]))
  BY <1>1 DEF PassInv
<1>7. /\ DOMAIN draft'[d] = S \cup Stale(c) \cup DOMAIN draft[d]
      /\ \A x \in S : draft'[d][x] = [row[x] EXCEPT !.status = "skipped"]
      /\ \A x \in Stale(c) : draft'[d][x] = AfterAttempt(row[x])
      /\ \A x \in DOMAIN draft[d] : draft'[d][x] = draft[d][x]
  BY <1>3, <1>4, <1>5, <1>6 DEF Over, Swept
<1>8. /\ \A e \in Dispatchers : e # d => dialling'[e] = dialling[e]
      /\ dialling'[d] = X
      /\ dialling[d] = {}
      /\ \A x, y \in X : x = y
  BY <1>1 DEF PassInv
<1>9. \A x \in S \cup Stale(c) :
        /\ draft'[d][x] \in Rows /\ draft'[d][x].status \in {"pending", "no_answer", "skipped"}
        /\ draft'[d][x].attempts = row[x].attempts /\ draft'[d][x].call = row[x].call
        /\ draft'[d][x].status = "pending" => x \in Stale(c) /\ draft'[d][x].attempts < MaxAttempts
  <2>1. ASSUME NEW x \in S
        PROVE  /\ draft'[d][x] \in Rows /\ draft'[d][x].status = "skipped"
               /\ draft'[d][x].attempts = row[x].attempts /\ draft'[d][x].call = row[x].call
    <3>1. row[x] \in Rows
      BY <1>2, <1>3
    <3> QED BY <1>7, <3>1 DEF Rows, RowsUpTo, Statuses
  <2>2. ASSUME NEW x \in Stale(c)
        PROVE  draft'[d][x] = AfterAttempt(row[x]) /\ row[x] \in Rows
    BY <1>2, <1>4, <1>7
  <2> QED BY <2>1, <2>2, AfterAttemptRow
<1>10. \A k \in placed[d] : k[1] \in DOMAIN draft[d] /\ k[1] \notin S \cup Stale(c) \cup X
  BY <1>1, <1>3, <1>4, <1>5 DEF PassInv
<1> HIDE DEF Visit
<1>11. /\ c \in todo[d] /\ todo' = [todo EXCEPT ![d] = todo[d] \ {c}]
       /\ UNCHANGED <<tables, passing, locked, placed, reports, request, vapi, reported, history>>
  BY DEF Visit
<1>12. PassInv'
  BY <1>1, <1>3, <1>4, <1>5, <1>6, <1>7, <1>8, <1>9, <1>10, <1>11 DEF PassInv, Drafts, Open
<1>13. FlightInv'
  <2>1. ASSUME NEW x \in Contacts, NEW y \in Contacts, x # y, x[1] = y[1]
        PROVE  /\ x \in DOMAIN draft'[d] /\ draft'[d][x].status = "calling" => Seen(d, y)'.status # "calling"
               /\ x \in dialling'[d] => Seen(d, y)'.status # "calling"
    <3>1. CASE x \in DOMAIN draft'[d] /\ draft'[d][x].status = "calling"
      BY <1>1, <1>3, <1>4, <1>5, <1>7, <1>8, <1>9, <1>11, <2>1, <3>1 DEF FlightInv, Seen
    <3>2. CASE x \in X
      <4>1. row[y].status = "calling" => y \in Stale(c)
        BY <1>3, <2>1, <3>2 DEF InFlight, ContactsOf
      <4> QED BY <1>3, <1>4, <1>5, <1>7, <1>9, <1>11, <2>1, <3>2, <4>1 DEF Seen
    <3> QED BY <1>8, <3>1, <3>2
  <2>2. \A e \in Dispatchers, y \in Contacts : e # d => Seen(e, y)' = Seen(e, y)
    BY <1>6, <1>11 DEF Seen
  <2> QED BY <1>1, <1>6, <1>8, <1>11, <2>1, <2>2 DEF FlightInv, OneInFlight
<1>14. AttemptInv'
  <2>1. \A x \in X : row[x].attempts < MaxAttempts
    BY <1>1, <1>3 DEF AttemptInv
  <2>2. \A x \in X \cup S \cup Stale(c) : row[x].status # "absent"
    BY <1>3, <1>4
  <2>3. \A x \in S \cup Stale(c) : draft'[d][x].attempts = row[x].attempts + (IF \E k \in placed[d] : k[1] = x THEN 1 ELSE 0)
    BY <1>2, <1>3, <1>4, <1>9, <1>10 DEF Rows, RowsUpTo, Statuses
  <2> QED BY <1>1, <1>5, <1>6, <1>7, <1>8, <1>9, <1>11, <2>1, <2>2, <2>3 DEF AttemptInv
<1>15. CallInv'
  BY <1>1, <1>11 DEF CallInv, BilledPerAttempt, Taken, Out
<1>16. ListInv'
  BY <1>1, <1>3, <1>8, <1>11 DEF ListInv, OnTheList
<1>17. RequestInv'
  BY <1>1, <1>11 DEF RequestInv
<1>18. AnswerInv'
  <2>1. \A x \in X \cup S : /\ row[x].call = 0 \/ Call(x) \in reported \/ x \in old
                            /\ ~HasAnswered(x)
                            /\ x \in reporting => x \in old
    BY <1>1, <1>2, <1>3, CallRow DEF AnswerInv, HasAnswered
  <2>2. \A x \in Contacts : AtStake(x)' => AtStake(x) \/ x \in X \cup S \cup Stale(c)
    BY <1>6, <1>7, <1>8, <1>11 DEF AtStake
  <2>3. \A x \in Contacts : Call(x)' = Call(x) /\ row'[x] = row[x]
    BY <1>11 DEF Call
  <2>4. old' = old /\ reporting' = reporting /\ reported' = reported
    BY <1>11
  <2>5. \A x \in reporting : /\ x \in Contacts /\ row[x].status \notin {"absent", "deleted"}
                             /\ Call(x) \in Calls /\ Call(x) \notin reported
    BY <1>1 DEF AnswerInv, HasAnswered
  <2>6. ASSUME NEW x \in Contacts
        PROVE  /\ row[x].status = "opted_out" => Call(x) \in reported
               /\ row[x].status = "pending" \/ (\E e \in Dispatchers : x \in dialling'[e]) =>
                    row[x].call = 0 \/ Call(x) \in reported \/ x \in old
               /\ AtStake(x)' /\ (HasAnswered(x) \/ x \in reporting) => x \in old
    BY <1>1, <1>4, <1>8, <2>1, <2>2 DEF AnswerInv, HasAnswered
  <2>7. ASSUME NEW e \in Dispatchers, NEW x \in DOMAIN draft'[e], draft'[e][x].status = "pending"
        PROVE  draft'[e][x].call = 0 \/ <<x, draft'[e][x].call>> \in reported \/ x \in old
    BY <1>1, <1>4, <1>6, <1>7, <1>9, <2>7 DEF AnswerInv, HasAnswered
  <2> QED BY <2>3, <2>4, <2>5, <2>6, <2>7 DEF AnswerInv, HasAnswered
<1> QED BY <1>12, <1>13, <1>14, <1>15, <1>16, <1>17, <1>18 DEF IInv

LEMMA NobodyDialled == ASSUME PassInv, NEW d \in Dispatchers, dialling[d] = {}, UNCHANGED dialling
                       PROVE  dialling' = [dialling EXCEPT ![d] = {}]
BY DEF PassInv

LEMMA SkippedRows ==
    ASSUME NEW S
    PROVE  DOMAIN Skipped(S) = S /\ \A x \in S : Skipped(S)[x] = [row[x] EXCEPT !.status = "skipped"]
BY DEF Skipped

\* The four ways a visit ends.
LEMMA VisitsInv ==
    ASSUME IInv, NEW d \in Dispatchers, NEW c \in Campaigns,
           \/ VisitIdle(d, c) \/ VisitSkip(d, c) \/ VisitComplete(d, c)
           \/ \E x \in Contacts : x[1] = c /\ VisitDial(d, c, x)
    PROVE  IInv'
<1>1. CASE VisitIdle(d, c) \/ VisitComplete(d, c)
  <2>1. Visit(d, c, NoDraft) /\ dialling[d] = {} /\ UNCHANGED dialling
    BY <1>1 DEF VisitIdle, VisitComplete, Visit
  <2>2. dialling' = [dialling EXCEPT ![d] = {}]
    BY <2>1, NobodyDialled DEF IInv
  <2>3. DOMAIN NoDraft = {}
    BY DEF NoDraft
  <2> QED BY <2>1, <2>2, <2>3, VisitInv
<1>2. CASE VisitSkip(d, c)
  <2>1. PICK S \in SUBSET Due(c) : S = OnList(c)
    BY DEF OnList
  <2>2. Visit(d, c, Skipped(S)) /\ dialling[d] = {} /\ UNCHANGED dialling
    BY <1>2, <2>1 DEF VisitSkip, Visit
  <2>3. PICK X : X = {} /\ dialling' = [dialling EXCEPT ![d] = X]
    BY <2>2, NobodyDialled DEF IInv
  <2>4. DOMAIN Skipped(S) = S /\ \A x \in S : Skipped(S)[x] = [row[x] EXCEPT !.status = "skipped"]
    BY SkippedRows
  <2>5. PICK w : w = Skipped(S)
    OBVIOUS
  <2>6. Visit(d, c, w) /\ DOMAIN w = S /\ \A x \in S : w[x] = [row[x] EXCEPT !.status = "skipped"]
    BY <2>2, <2>4, <2>5
  <2>7. IInv /\ S \in SUBSET Due(c)
    OBVIOUS
  <2> QED BY <2>3, <2>6, <2>7, VisitInv
<1>3. ASSUME NEW x \in Contacts, VisitDial(d, c, x)
      PROVE  IInv'
  <2>1. PICK S \in SUBSET (OnList(c) \ {x}) : Visit(d, c, Skipped(S))
    BY <1>3 DEF VisitDial
  <2>2. S \in SUBSET Due(c) /\ x \in Due(c) \ S /\ ~OnTheList(x)
    BY <1>3, <2>1 DEF VisitDial, Callable, OnList, OnTheList
  <2>3. InFlight(c) = {} /\ dialling' = [dialling EXCEPT ![d] = {x}]
    BY <1>3 DEF VisitDial
  <2>4. InFlight(c) = {} /\ \E y \in Due(c) \ S : {x} = {y} /\ ~OnTheList(y)
    BY <2>2, <2>3
  <2> HIDE DEF Due
  <2> QED BY <2>1, <2>2, <2>3, <2>4, SkippedRows, VisitInv
<1> QED BY <1>1, <1>2, <1>3

\* What an answer of Vapi leaves as it is, whatever it is.
LEMMA PostRowsInv ==
    ASSUME IInv, NEW d \in Dispatchers, NEW x \in Contacts, NEW r, PostEnds(d, x, r),
           r \in Rows, r.status \in {"pending", "calling", "failed"}, r.call = row[x].call \/ r.status = "calling"
    PROVE  /\ x \in dialling[d] /\ x \notin DOMAIN draft[d]
           /\ \A e \in Dispatchers : e # d => x[1] \notin locked[e]
           /\ \A e \in Dispatchers : \A k \in placed[e] : k[1] # x
           /\ \A e \in Dispatchers : e # d => draft'[e] = draft[e] /\ dialling'[e] = dialling[e]
           /\ dialling' \in [Dispatchers -> SUBSET Contacts] /\ dialling'[d] = {}
           /\ draft' = [e \in Dispatchers |-> draft'[e]]
           /\ DOMAIN draft'[d] = DOMAIN draft[d] \cup {x}
           /\ draft'[d][x] = r /\ \A y \in DOMAIN draft[d] : draft'[d][y] = draft[d][y]
           /\ UNCHANGED <<row, old, billed, blocked, passing, locked, todo, reports, request, reported>>
           /\ FlightInv' /\ RequestInv' /\ AnswerInv'
<1> USE DEF PostEnds, tables
<1>1. PassInv /\ FlightInv /\ AttemptInv /\ RequestInv /\ AnswerInv
  BY DEF IInv
<1>2. /\ x \in dialling[d] /\ x \notin DOMAIN draft[d]
      /\ \A e \in Dispatchers : e # d => x[1] \notin locked[e]
  BY <1>1 DEF PassInv
<1>3. \A e \in Dispatchers : \A k \in placed[e] : k[1] # x
  BY <1>1, <1>2 DEF PassInv
<1>4. \A e \in Dispatchers : e # d => draft'[e] = draft[e] /\ dialling'[e] = dialling[e]
  BY <1>1 DEF PassInv
<1>5. dialling' \in [Dispatchers -> SUBSET Contacts] /\ dialling'[d] = {}
  BY <1>1 DEF PassInv
<1>6. /\ draft' = [e \in Dispatchers |-> draft'[e]]
      /\ draft'[d] = Over([y \in {x} |-> r], draft[d])
  BY <1>1 DEF PassInv
<1>7. /\ DOMAIN draft'[d] = DOMAIN draft[d] \cup {x}
      /\ draft'[d][x] = r
      /\ \A y \in DOMAIN draft[d] : draft'[d][y] = draft[d][y]
  BY <1>2, <1>6 DEF Over
<1>8. UNCHANGED <<row, old, billed, blocked, passing, locked, todo, reports, request, reported>>
  OBVIOUS
<1> HIDE DEF PostEnds
<1>9. FlightInv'
  <2>1. ASSUME NEW y \in Contacts, NEW z \in Contacts, y # z, y[1] = z[1], y \in DOMAIN draft'[d],
               draft'[d][y].status = "calling"
        PROVE  Seen(d, z)'.status # "calling"
    <3>1. CASE y = x
      BY <1>1, <1>2, <1>7, <1>8, <2>1, <3>1 DEF FlightInv, Seen
    <3>2. CASE y # x /\ z = x
      <4>1. y \in DOMAIN draft[d] /\ Seen(d, y).status = "calling"
        BY <1>7, <2>1, <3>2 DEF Seen
      <4> QED BY <1>1, <1>2, <2>1, <3>2, <4>1 DEF FlightInv
    <3>3. CASE y # x /\ z # x
      BY <1>1, <1>7, <1>8, <2>1, <3>3 DEF FlightInv, Seen
    <3> QED BY <3>1, <3>2, <3>3
  <2>2. \A e \in Dispatchers, z \in Contacts : e # d => Seen(e, z)' = Seen(e, z)
    BY <1>4, <1>8 DEF Seen
  <2> QED BY <1>1, <1>4, <1>5, <1>8, <2>1, <2>2 DEF FlightInv, OneInFlight
<1>10. RequestInv'
  BY <1>1, <1>8 DEF RequestInv
<1>11. AnswerInv'
  <2>1. \A y \in Contacts : AtStake(y)' => AtStake(y)
    BY <1>2, <1>4, <1>5, <1>7, <1>8 DEF AtStake
  <2>2. \A y \in Contacts : Call(y)' = Call(y) /\ row'[y] = row[y]
    BY <1>8 DEF Call
  <2>3. row[x].call = 0 \/ Call(x) \in reported \/ x \in old
    BY <1>1, <1>2 DEF AnswerInv, HasAnswered
  <2>4. ASSUME NEW e \in Dispatchers, NEW y \in DOMAIN draft'[e], draft'[e][y].status = "pending"
        PROVE  draft'[e][y].call = 0 \/ <<y, draft'[e][y].call>> \in reported \/ y \in old
    BY <1>1, <1>4, <1>7, <2>3, <2>4 DEF AnswerInv, HasAnswered, Call
  <2>5. \A y \in Contacts : (\E e \in Dispatchers : y \in dialling'[e]) => \E e \in Dispatchers : y \in dialling[e]
    BY <1>4, <1>5
  <2>6. ASSUME NEW y \in Contacts
        PROVE  /\ row[y].status = "opted_out" => Call(y) \in reported
               /\ row[y].status = "pending" \/ (\E e \in Dispatchers : y \in dialling'[e]) =>
                    row[y].call = 0 \/ Call(y) \in reported \/ y \in old
               /\ AtStake(y)' /\ (HasAnswered(y) \/ y \in reporting) => y \in old
    BY <1>1, <2>1, <2>5 DEF AnswerInv, HasAnswered
  <2>7. \A y \in reporting : /\ y \in Contacts /\ row[y].status \notin {"absent", "deleted"}
                             /\ Call(y) \in Calls /\ Call(y) \notin reported
    BY <1>1 DEF AnswerInv, HasAnswered
  <2>8. old' = old /\ reporting' = reporting /\ reported' = reported
    BY <1>8
  <2>9. \A y \in reporting' : /\ y \in Contacts /\ row'[y].status \notin {"absent", "deleted"}
                              /\ Call(y)' \in Calls /\ Call(y)' \notin reported'
    BY <2>2, <2>7, <2>8
  <2> QED BY <2>2, <2>4, <2>6, <2>8, <2>9 DEF AnswerInv, HasAnswered
<1> QED BY <1>2, <1>3, <1>4, <1>5, <1>6, <1>7, <1>8, <1>9, <1>10, <1>11

\* Where no call is known of, the rest stays as well.
LEMMA PostWithoutCallInv ==
    ASSUME IInv, NEW d \in Dispatchers, NEW x \in Contacts, NEW r, PostEnds(d, x, r),
           r \in Rows, r.status \in {"pending", "failed"}, r.call = row[x].call, r.attempts = row[x].attempts,
           placed' = placed
    PROVE  PassInv' /\ AttemptInv'
<1>1. /\ x \in dialling[d] /\ x \notin DOMAIN draft[d]
      /\ \A e \in Dispatchers : \A k \in placed[e] : k[1] # x
      /\ \A e \in Dispatchers : e # d => draft'[e] = draft[e] /\ dialling'[e] = dialling[e]
      /\ dialling' \in [Dispatchers -> SUBSET Contacts] /\ dialling'[d] = {}
      /\ draft' = [e \in Dispatchers |-> draft'[e]]
      /\ DOMAIN draft'[d] = DOMAIN draft[d] \cup {x}
      /\ draft'[d][x] = r /\ \A y \in DOMAIN draft[d] : draft'[d][y] = draft[d][y]
      /\ UNCHANGED <<row, passing, locked, todo>>
  BY PostRowsInv
<1>2. PassInv /\ AttemptInv
  BY DEF IInv
<1>3. PassInv'
  BY <1>1, <1>2 DEF PassInv, Drafts, Open
<1>4. AttemptInv'
  <2>1. row[x].attempts < MaxAttempts /\ row[x].status # "absent" /\ row[x].attempts \in Nat
    BY <1>1, <1>2 DEF AttemptInv, Rows, RowsUpTo, Statuses
  <2>2. r.attempts = row[x].attempts + (IF \E k \in placed[d] : k[1] = x THEN 1 ELSE 0)
    BY <1>1, <2>1
  <2> QED BY <1>1, <1>2, <2>1, <2>2 DEF AttemptInv
<1> QED BY <1>3, <1>4

\* A call that Vapi takes is a new one.
LEMMA TakeInv ==
    ASSUME CallInv, NEW x \in Contacts, NEW k \in Calls, k = <<x, Cardinality(Taken(x)) + 1>>,
           vapi' = [vapi EXCEPT ![k] = "live"]
    PROVE  /\ vapi[k] = "none" /\ vapi' \in [Calls -> {"none", "live"} \cup Ends]
           /\ k \notin billed \cup lost \cup UNION {placed[d] : d \in Dispatchers}
           /\ \A j \in Calls : vapi'[j] # "none" <=> vapi[j] # "none" \/ j = k
           /\ Cardinality(Taken(x)') = Cardinality(Taken(x)) + 1
           /\ \A y \in Contacts : y # x => Taken(y)' = Taken(y)
           /\ \A y \in Contacts, n \in 1..MaxCalls : vapi'[<<y, n>>] # "none" <=> n <= Cardinality(Taken(y)')
<1>1. IsFiniteSet(Taken(x)) /\ Cardinality(Taken(x)) \in Nat
  BY TakenFinite
<1>2. Cardinality(Taken(x)) + 1 \in 1..MaxCalls
  BY DEF Calls
<1>3. vapi[k] = "none"
  BY <1>1, <1>2 DEF CallInv
<1>4. /\ vapi' \in [Calls -> {"none", "live"} \cup Ends]
      /\ \A j \in Calls : vapi'[j] # "none" <=> vapi[j] # "none" \/ j = k
  BY DEF CallInv
<1>5. k \notin billed \cup lost \cup UNION {placed[d] : d \in Dispatchers}
  BY <1>3 DEF CallInv
<1>6. k \notin Taken(x) /\ Taken(x)' = Taken(x) \cup {k}
  BY <1>3, <1>4 DEF Taken
<1>7. Cardinality(Taken(x)') = Cardinality(Taken(x)) + 1
  BY <1>1, <1>6, FS_AddElement
<1>8. \A y \in Contacts : y # x => Taken(y)' = Taken(y)
  BY <1>4 DEF Taken
<1>9. ASSUME NEW y \in Contacts, NEW n \in 1..MaxCalls
      PROVE  vapi'[<<y, n>>] # "none" <=> n <= Cardinality(Taken(y)')
  <2>1. <<y, n>> \in Calls /\ n \in Nat
    BY ConstantsAssumption DEF Calls
  <2>2. vapi[<<y, n>>] # "none" <=> n <= Cardinality(Taken(y))
    BY DEF CallInv
  <2>3. CASE y = x
    BY <1>1, <1>4, <1>7, <2>1, <2>2, <2>3
  <2>4. CASE y # x
    BY <1>4, <1>8, <2>1, <2>2, <2>4
  <2> QED BY <2>3, <2>4
<1> QED BY <1>3, <1>4, <1>5, <1>7, <1>8, <1>9

LEMMA PostAcceptedInv ==
    ASSUME IInv, NEW d \in Dispatchers, NEW x \in Contacts, PostAccepted(d, x)
    PROVE  IInv'
<1>1. PassInv /\ FlightInv /\ AttemptInv /\ CallInv /\ ListInv /\ RequestInv /\ AnswerInv
  BY DEF IInv
<1> DEFINE n == Cardinality(Taken(x)) + 1
           r == [row[x] EXCEPT !.attempts = row[x].attempts + 1, !.status = "calling", !.call = n]
<1>2. PICK k \in Calls : /\ k = <<x, n>> /\ vapi' = [vapi EXCEPT ![k] = "live"]
                         /\ placed' = [placed EXCEPT ![d] = placed[d] \cup {k}]
                         /\ intrusions' = [intrusions EXCEPT ![x] = IF OnTheList(x) THEN @ + 1 ELSE @]
                         /\ lost' = lost
  BY DEF PostAccepted, Accepted, Take
<1>3. PostEnds(d, x, r)
  BY DEF PostAccepted, Accepted
<1>4. n \in 1..MaxCalls
  BY <1>2 DEF Calls
<1>5. row[x] \in Rows /\ row[x].attempts < MaxAttempts /\ row[x].status # "absent"
  BY <1>1, <1>3 DEF AttemptInv, PostEnds
<1>6. r \in Rows /\ r.status = "calling" /\ r.attempts = row[x].attempts + 1
  BY <1>4, <1>5, DialledRow
<1> HIDE DEF n, r
<1>7. /\ x \in dialling[d] /\ x \notin DOMAIN draft[d]
      /\ \A e \in Dispatchers : e # d => x[1] \notin locked[e]
      /\ \A e \in Dispatchers : \A j \in placed[e] : j[1] # x
      /\ \A e \in Dispatchers : e # d => draft'[e] = draft[e] /\ dialling'[e] = dialling[e]
      /\ dialling' \in [Dispatchers -> SUBSET Contacts] /\ dialling'[d] = {}
      /\ draft' = [e \in Dispatchers |-> draft'[e]]
      /\ DOMAIN draft'[d] = DOMAIN draft[d] \cup {x}
      /\ draft'[d][x] = r /\ \A y \in DOMAIN draft[d] : draft'[d][y] = draft[d][y]
      /\ UNCHANGED <<row, old, billed, blocked, passing, locked, todo, reports, request, reported>>
      /\ FlightInv' /\ RequestInv' /\ AnswerInv'
  BY <1>3, <1>6, PostRowsInv
<1>8. /\ placed' \in [Dispatchers -> SUBSET Calls]
      /\ placed'[d] = placed[d] \cup {k}
      /\ \A e \in Dispatchers : e # d => placed'[e] = placed[e]
      /\ k[1] = x
  BY <1>1, <1>2 DEF PassInv
<1>9. PassInv'
  <2>1. \A e \in Dispatchers : \A j \in placed'[e] : j[1] \in DOMAIN draft'[e] /\ draft'[e][j[1]].status = "calling"
    BY <1>1, <1>6, <1>7, <1>8 DEF PassInv
  <2>2. \A y \in DOMAIN draft'[d] :
            /\ y \in Contacts /\ draft'[d][y] \in Rows /\ draft'[d][y].status \in Drafts
            /\ y[1] \in locked[d] \ todo[d]
    BY <1>1, <1>6, <1>7 DEF PassInv, Drafts, Open
  <2> QED BY <1>1, <1>7, <1>8, <2>1, <2>2 DEF PassInv
<1>10. AttemptInv'
  <2>1. \A y \in DOMAIN draft'[d] : (\E j \in placed'[d] : j[1] = y) <=> y = x \/ \E j \in placed[d] : j[1] = y
    BY <1>8
  <2>2. r.attempts = row[x].attempts + (IF \E j \in placed'[d] : j[1] = x THEN 1 ELSE 0)
    BY <1>6, <1>8
  <2> QED BY <1>1, <1>5, <1>6, <1>7, <1>8, <2>1, <2>2 DEF AttemptInv
<1>11. CallInv'
  <2>1. /\ vapi[k] = "none" /\ vapi' \in [Calls -> {"none", "live"} \cup Ends]
        /\ k \notin billed \cup lost \cup UNION {placed[e] : e \in Dispatchers}
        /\ \A j \in Calls : vapi'[j] # "none" <=> vapi[j] # "none" \/ j = k
        /\ Cardinality(Taken(x)') = Cardinality(Taken(x)) + 1
        /\ \A y \in Contacts : y # x => Taken(y)' = Taken(y)
        /\ \A y \in Contacts, m \in 1..MaxCalls : vapi'[<<y, m>>] # "none" <=> m <= Cardinality(Taken(y)')
    BY <1>1, <1>2, TakeInv DEF n
  <2>2. billed' = billed /\ lost' = lost /\ row' = row
    BY <1>2, <1>7
  <2>3. \A j \in billed' \cup lost' \cup UNION {placed'[e] : e \in Dispatchers} : vapi'[j] # "none"
    BY <1>1, <1>8, <2>1, <2>2 DEF CallInv
  <2>4. \A e \in Dispatchers : placed'[e] \cap (billed' \cup lost') = {}
    BY <1>1, <1>8, <2>1, <2>2 DEF CallInv
  <2>5. Out(x)' /\ ~Out(x) /\ \A y \in Contacts : y # x => (Out(y)' <=> Out(y))
    BY <1>7, <1>8 DEF Out
  <2>6. ASSUME NEW y \in Contacts
        PROVE  Cardinality(Taken(y)') =
                 row[y].attempts + Cardinality(CallsOf(y, lost)) + (IF Out(y)' THEN 1 ELSE 0)
    <3>1. /\ Cardinality(Taken(y)) = row[y].attempts + Cardinality(CallsOf(y, lost)) + (IF Out(y) THEN 1 ELSE 0)
          /\ row[y].attempts \in Nat /\ Cardinality(CallsOf(y, lost)) \in Nat
      BY <1>1, CallsFinite DEF CallInv, AttemptInv, Rows, RowsUpTo, Statuses
    <3> QED BY <2>1, <2>5, <3>1
  <2>7. BilledPerAttempt'
    BY <1>1, <2>2 DEF CallInv, BilledPerAttempt
  <2> QED BY <1>1, <2>1, <2>2, <2>3, <2>4, <2>6, <2>7 DEF CallInv
<1>12. ListInv'
  <2>1. \A e \in Dispatchers : dialling'[e] \subseteq dialling[e] /\ x \notin dialling'[e]
    BY <1>1, <1>7 DEF PassInv
  <2>2. blocked' = blocked
    BY <1>7
  <2> QED BY <1>1, <1>2, <1>7, <2>1, <2>2 DEF ListInv, OnTheList
<1> QED BY <1>7, <1>9, <1>10, <1>11, <1>12 DEF IInv

LEMMA PostRejectedInv ==
    ASSUME IInv, NEW d \in Dispatchers, NEW x \in Contacts, PostRejected(d, x)
    PROVE  IInv'
<1>1. CallInv /\ ListInv /\ AttemptInv
  BY DEF IInv
<1> DEFINE r == [row[x] EXCEPT !.status = "failed"]
<1>2. PostEnds(d, x, r) /\ placed' = placed /\ UNCHANGED <<vapi, lost, intrusions>>
  BY DEF PostRejected
<1>3. r \in Rows /\ r.status = "failed" /\ r.call = row[x].call /\ r.attempts = row[x].attempts
  BY <1>1 DEF AttemptInv, Rows, RowsUpTo, Statuses
<1> HIDE DEF r
<1>4. /\ \A e \in Dispatchers : dialling'[e] \subseteq dialling[e]
      /\ UNCHANGED <<row, billed, blocked>>
      /\ FlightInv' /\ RequestInv' /\ AnswerInv'
  BY <1>2, <1>3, PostRowsInv
<1>5. PassInv' /\ AttemptInv'
  BY <1>2, <1>3, PostWithoutCallInv
<1>6. CallInv'
  BY <1>1, <1>2, <1>4 DEF CallInv, BilledPerAttempt, Taken, Out
<1>7. ListInv'
  BY <1>1, <1>2, <1>4 DEF ListInv, OnTheList
<1> QED BY <1>4, <1>5, <1>6, <1>7 DEF IInv

LEMMA PostWithoutUseInv ==
    ASSUME IInv, NEW d \in Dispatchers, NEW x \in Contacts, PostWithoutUse(d, x)
    PROVE  IInv'
<1>1. CallInv /\ ListInv /\ AttemptInv
  BY DEF IInv
<1> DEFINE r == [row[x] EXCEPT !.status = "pending", !.waiting = TRUE]
           n == Cardinality(Taken(x)) + 1
<1>2. PostEnds(d, x, r) /\ placed' = placed
  BY DEF PostWithoutUse
<1>3. r \in Rows /\ r.status = "pending" /\ r.call = row[x].call /\ r.attempts = row[x].attempts
  BY <1>1 DEF AttemptInv, Rows, RowsUpTo, Statuses, Open
<1>4. CASE UNCHANGED <<vapi, lost, intrusions>>
  <2> HIDE DEF r, n
  <2>1. /\ \A e \in Dispatchers : dialling'[e] \subseteq dialling[e]
        /\ UNCHANGED <<row, billed, blocked>>
        /\ FlightInv' /\ RequestInv' /\ AnswerInv'
    BY <1>2, <1>3, PostRowsInv
  <2>2. PassInv' /\ AttemptInv'
    BY <1>2, <1>3, PostWithoutCallInv
  <2>3. CallInv'
    BY <1>1, <1>2, <1>4, <2>1 DEF CallInv, BilledPerAttempt, Taken, Out
  <2>4. ListInv'
    BY <1>1, <1>4, <2>1 DEF ListInv, OnTheList
  <2> QED BY <2>1, <2>2, <2>3, <2>4 DEF IInv
<1>5. CASE ~UNCHANGED <<vapi, lost, intrusions>>
  <2>1. PICK k \in Calls : /\ k = <<x, n>> /\ vapi' = [vapi EXCEPT ![k] = "live"]
                           /\ lost' = lost \cup {k}
                           /\ intrusions' = [intrusions EXCEPT ![x] = IF OnTheList(x) THEN @ + 1 ELSE @]
    BY <1>5 DEF PostWithoutUse, Take
  <2> HIDE DEF r, n
  <2>2. /\ x \in dialling[d]
        /\ \A e \in Dispatchers : e # d => x[1] \notin locked[e]
        /\ \A e \in Dispatchers : dialling'[e] \subseteq dialling[e] /\ x \notin dialling'[e]
        /\ row' = row /\ billed' = billed /\ blocked' = blocked
        /\ FlightInv' /\ RequestInv' /\ AnswerInv'
    <3>1. \A e \in Dispatchers : e # d => x[1] \notin locked[e] /\ dialling'[e] = dialling[e]
      BY <1>2, <1>3, PostRowsInv
    <3>2. \A e \in Dispatchers : e # d => x \notin dialling[e]
      BY <3>1 DEF IInv, PassInv
    <3> QED BY <1>2, <1>3, <3>1, <3>2, PostRowsInv
  <2>3. PassInv' /\ AttemptInv'
    BY <1>2, <1>3, PostWithoutCallInv
  <2>4. /\ vapi[k] = "none" /\ vapi' \in [Calls -> {"none", "live"} \cup Ends]
        /\ k \notin billed \cup lost \cup UNION {placed[e] : e \in Dispatchers}
        /\ \A j \in Calls : vapi'[j] # "none" <=> vapi[j] # "none" \/ j = k
        /\ Cardinality(Taken(x)') = Cardinality(Taken(x)) + 1
        /\ \A y \in Contacts : y # x => Taken(y)' = Taken(y)
        /\ \A y \in Contacts, m \in 1..MaxCalls : vapi'[<<y, m>>] # "none" <=> m <= Cardinality(Taken(y)')
    BY <1>1, <2>1, TakeInv DEF n
  <2>5. Cardinality(CallsOf(x, lost')) = Cardinality(CallsOf(x, lost)) + 1
    <3>1. CallsOf(x, lost') = CallsOf(x, lost) \cup {k} /\ k \notin lost /\ k[1] = x /\ lost \in SUBSET Calls
      BY <1>1, <2>1, <2>4 DEF CallsOf, CallInv
    <3> QED BY <3>1, OneCallMore
  <2>6. \A y \in Contacts : y # x => CallsOf(y, lost') = CallsOf(y, lost)
    BY <2>1 DEF CallsOf
  <2>7. ASSUME NEW y \in Contacts
        PROVE  Cardinality(Taken(y)') =
                 row[y].attempts + Cardinality(CallsOf(y, lost')) + (IF Out(y) THEN 1 ELSE 0)
    <3>1. /\ Cardinality(Taken(y)) = row[y].attempts + Cardinality(CallsOf(y, lost)) + (IF Out(y) THEN 1 ELSE 0)
          /\ row[y].attempts \in Nat /\ Cardinality(CallsOf(y, lost)) \in Nat
      BY <1>1, CallsFinite DEF CallInv, AttemptInv, Rows, RowsUpTo, Statuses
    <3> QED BY <2>4, <2>5, <2>6, <3>1
  <2>8. CallInv'
    <3>1. \A y \in Contacts : Out(y)' <=> Out(y)
      BY <1>2 DEF Out
    <3>2. BilledPerAttempt'
      BY <1>1, <2>2 DEF CallInv, BilledPerAttempt
    <3>3. \A j \in billed' \cup lost' \cup UNION {placed'[e] : e \in Dispatchers} : vapi'[j] # "none"
      BY <1>1, <1>2, <2>1, <2>2, <2>4 DEF CallInv
    <3>4. \A e \in Dispatchers : placed'[e] \cap (billed' \cup lost') = {}
      BY <1>1, <1>2, <2>1, <2>2, <2>4 DEF CallInv
    <3> QED BY <1>1, <2>1, <2>2, <2>4, <2>7, <3>1, <3>2, <3>3, <3>4 DEF CallInv
  <2>9. ListInv'
    BY <1>1, <2>1, <2>2 DEF ListInv, OnTheList
  <2> QED BY <2>2, <2>3, <2>8, <2>9 DEF IInv
<1> QED BY <1>4, <1>5

\* A pass that ends leaves the others, which hold other campaigns, as they are.
LEMMA PassEndsInv ==
    ASSUME PassInv, NEW d \in Dispatchers, PassEnds(d)
    PROVE  /\ PassInv'
           /\ draft'[d] = NoDraft /\ DOMAIN draft'[d] = {} /\ dialling'[d] = {} /\ placed'[d] = {}
           /\ \A e \in Dispatchers : e # d =>
                draft'[e] = draft[e] /\ dialling'[e] = dialling[e] /\ placed'[e] = placed[e]
           /\ \A e \in Dispatchers : e # d =>
                (DOMAIN draft[e] \cup dialling[e]) \cap DOMAIN draft[d] = {}
           /\ \A e \in Dispatchers : e # d => \A x \in DOMAIN draft[e] \cup dialling[e] : \A y \in DOMAIN draft[d] :
                x[1] # y[1]
<1>1. /\ draft'[d] = NoDraft /\ DOMAIN draft'[d] = {} /\ dialling'[d] = {} /\ placed'[d] = {}
      /\ \A e \in Dispatchers : e # d =>
                draft'[e] = draft[e] /\ dialling'[e] = dialling[e] /\ placed'[e] = placed[e]
  BY DEF PassInv, PassEnds, NoDraft
<1>2. \A e \in Dispatchers : e # d => \A x \in DOMAIN draft[e] \cup dialling[e] : \A y \in DOMAIN draft[d] :
                x[1] # y[1]
  BY DEF PassInv
<1>3. /\ locked' \in [Dispatchers -> SUBSET Campaigns]
      /\ todo' \in [Dispatchers -> SUBSET Campaigns]
      /\ dialling' \in [Dispatchers -> SUBSET Contacts]
      /\ placed' \in [Dispatchers -> SUBSET Calls]
      /\ draft' = [e \in Dispatchers |-> draft'[e]]
  BY DEF PassInv, PassEnds
<1>4. /\ locked'[d] = {} /\ todo'[d] = {}
      /\ \A e \in Dispatchers : e # d => locked'[e] = locked[e] /\ todo'[e] = todo[e]
      /\ passing' = passing \ {d}
  BY DEF PassInv, PassEnds
<1>5. \A e, f \in Dispatchers : e # f => locked'[e] \cap locked'[f] = {}
  BY <1>4 DEF PassInv
<1>6. PassInv'
  BY <1>1, <1>3, <1>4, <1>5 DEF PassInv
<1> QED BY <1>1, <1>2, <1>6

LEMMA PassRollbackInv ==
    ASSUME IInv, NEW d \in Dispatchers, PassRollback(d)
    PROVE  IInv'
<1>1. PassInv /\ FlightInv /\ AttemptInv /\ CallInv /\ ListInv /\ RequestInv /\ AnswerInv
  BY DEF IInv
<1>2. PassEnds(d) /\ lost' = lost \cup placed[d]
  BY DEF PassRollback
<1>3. /\ PassInv' /\ DOMAIN draft'[d] = {} /\ dialling'[d] = {} /\ placed'[d] = {}
      /\ \A e \in Dispatchers : e # d =>
            draft'[e] = draft[e] /\ dialling'[e] = dialling[e] /\ placed'[e] = placed[e]
      /\ \A e \in Dispatchers : e # d => (DOMAIN draft[e] \cup dialling[e]) \cap DOMAIN draft[d] = {}
  BY <1>1, <1>2, PassEndsInv
<1>4. UNCHANGED <<row, old, billed, blocked, reports, request, vapi, reported, intrusions>>
  BY DEF PassRollback, PassEnds
<1>5. FlightInv' /\ AttemptInv' /\ ListInv' /\ RequestInv'
  BY <1>1, <1>3, <1>4 DEF FlightInv, AttemptInv, ListInv, RequestInv, OneInFlight, Seen, OnTheList
<1>6. CallInv'
  <2>1. \A e \in Dispatchers : e # d => placed[e] \cap placed[d] = {}
    BY <1>1, <1>3 DEF PassInv
  <2>2. /\ lost' \subseteq Calls
        /\ \A k \in billed' \cup lost' \cup UNION {placed'[e] : e \in Dispatchers} : vapi'[k] # "none"
        /\ \A e \in Dispatchers : placed'[e] \cap (billed' \cup lost') = {}
    <3>1. billed' \cup lost' = billed \cup lost \cup placed[d]
      BY <1>2, <1>4
    <3>2. \A e \in Dispatchers : placed'[e] = {} \/ (e # d /\ placed'[e] = placed[e])
      BY <1>3
    <3>3. \A e \in Dispatchers : placed'[e] \cap (billed' \cup lost') = {}
      BY <1>1, <2>1, <3>1, <3>2 DEF CallInv
    <3>4. \A k \in billed' \cup lost' \cup UNION {placed'[e] : e \in Dispatchers} :
            k \in billed \cup lost \cup UNION {placed[e] : e \in Dispatchers}
      BY <3>1, <3>2
    <3>5. lost' \subseteq Calls
      BY <1>1, <1>2 DEF CallInv, PassInv
    <3> QED BY <1>1, <1>4, <3>3, <3>4, <3>5 DEF CallInv
  <2>3. ASSUME NEW x \in Contacts
        PROVE  Cardinality(Taken(x)) =
                 row[x].attempts + Cardinality(CallsOf(x, lost')) + (IF Out(x)' THEN 1 ELSE 0)
    <3>1. /\ Cardinality(Taken(x)) = row[x].attempts + Cardinality(CallsOf(x, lost)) + (IF Out(x) THEN 1 ELSE 0)
          /\ row[x].attempts \in Nat /\ Cardinality(CallsOf(x, lost)) \in Nat
      BY <1>1, CallsFinite DEF CallInv, AttemptInv, Rows, RowsUpTo, Statuses
    <3>2. CASE \E k \in placed[d] : k[1] = x
      <4>1. PICK k \in placed[d] : k[1] = x
        BY <3>2
      <4>2. \A e \in Dispatchers : \A j \in placed'[e] : j[1] # x
        BY <1>1, <1>3, <4>1 DEF PassInv
      <4>3. CallsOf(x, lost') = CallsOf(x, lost) \cup {k}
        BY <1>1, <1>2, <4>1 DEF CallsOf, AttemptInv
      <4>4. k \in Calls \ lost /\ lost \in SUBSET Calls
        BY <1>1, <4>1 DEF CallInv, PassInv
      <4>5. Cardinality(CallsOf(x, lost')) = Cardinality(CallsOf(x, lost)) + 1
        BY <4>1, <4>3, <4>4, OneCallMore
      <4>6. Out(x) /\ ~Out(x)'
        BY <4>1, <4>2 DEF Out
      <4> QED BY <3>1, <4>5, <4>6
    <3>3. CASE ~ \E k \in placed[d] : k[1] = x
      <4>1. CallsOf(x, lost') = CallsOf(x, lost)
        BY <1>2, <3>3 DEF CallsOf
      <4>2. Out(x)' <=> Out(x)
        BY <1>3, <3>3 DEF Out
      <4> QED BY <3>1, <4>1, <4>2
    <3> QED BY <3>2, <3>3
  <2>4. \A x \in Contacts : Taken(x)' = Taken(x)
    BY <1>4 DEF Taken
  <2>5. BilledPerAttempt'
    BY <1>1, <1>4 DEF CallInv, BilledPerAttempt
  <2>6. vapi' = vapi /\ billed' = billed /\ row' = row
    BY <1>4
  <2> QED BY <1>1, <2>2, <2>3, <2>4, <2>5, <2>6 DEF CallInv
<1>7. AnswerInv'
  <2>1. \A x \in Contacts : AtStake(x)' => AtStake(x)
    BY <1>3, <1>4 DEF AtStake
  <2>2. \A x \in Contacts : Call(x)' = Call(x)
    BY <1>4 DEF Call
  <2>3. \A x \in reporting : x \in Contacts
    BY <1>1 DEF AnswerInv, HasAnswered
  <2> QED BY <1>1, <1>3, <1>4, <2>1, <2>2, <2>3 DEF AnswerInv, HasAnswered
<1> QED BY <1>3, <1>5, <1>6, <1>7 DEF IInv

LEMMA PassCommitInv ==
    ASSUME IInv, NEW d \in Dispatchers, PassCommit(d)
    PROVE  IInv'
<1>1. PassInv /\ FlightInv /\ AttemptInv /\ CallInv /\ ListInv /\ RequestInv /\ AnswerInv
  BY DEF IInv
<1>2. /\ PassEnds(d) /\ lost' = lost /\ billed' = billed \cup placed[d]
      /\ row' = Over(draft[d], row) /\ old' = old \ {k[1] : k \in placed[d]}
      /\ Deleted(d) = {} /\ DOMAIN draft[d] \cap reporting = {}
  BY DEF PassCommit, Working
<1>3. /\ PassInv' /\ DOMAIN draft'[d] = {} /\ dialling'[d] = {} /\ placed'[d] = {}
      /\ \A e \in Dispatchers : e # d =>
            draft'[e] = draft[e] /\ dialling'[e] = dialling[e] /\ placed'[e] = placed[e]
      /\ \A e \in Dispatchers : e # d => (DOMAIN draft[e] \cup dialling[e]) \cap DOMAIN draft[d] = {}
      /\ \A e \in Dispatchers : e # d => \A x \in DOMAIN draft[e] \cup dialling[e] : \A y \in DOMAIN draft[d] :
            x[1] # y[1]
  BY <1>1, <1>2, PassEndsInv
<1>4. UNCHANGED <<blocked, reports, request, vapi, reported, intrusions>>
  BY <1>2 DEF PassEnds
<1>5. /\ DOMAIN draft[d] \subseteq Contacts
      /\ \A x \in DOMAIN draft[d] : /\ draft[d][x] \in Rows /\ draft[d][x].status \in Drafts
                                    /\ row[x].status \notin {"absent", "deleted"}
      /\ \A k \in placed[d] : k[1] \in DOMAIN draft[d] /\ draft[d][k[1]].status = "calling"
  BY <1>1, <1>2 DEF PassInv, AttemptInv, Deleted
<1>6. /\ row' \in [Contacts -> Rows]
      /\ \A x \in DOMAIN draft[d] : row'[x] = draft[d][x]
      /\ \A x \in Contacts \ DOMAIN draft[d] : row'[x] = row[x]
  <2>1. row \in [Contacts -> Rows]
    BY <1>1 DEF AttemptInv
  <2>2. row' = [x \in Contacts |-> IF x \in DOMAIN draft[d] THEN draft[d][x] ELSE row[x]]
    BY <1>2, <1>5, <2>1 DEF Over
  <2> QED BY <1>5, <2>1, <2>2
<1>7. FlightInv'
  <2>1. OneInFlight'
    <3>1. SUFFICES ASSUME NEW x \in Contacts, NEW y \in Contacts, x[1] = y[1], x # y,
                          row'[x].status = "calling", row'[y].status = "calling"
                   PROVE  FALSE
      BY DEF OneInFlight
    <3>2. Seen(d, x).status = "calling" /\ Seen(d, y).status = "calling"
      BY <1>6, <3>1 DEF Seen
    <3> QED BY <1>1, <3>1, <3>2 DEF FlightInv, OneInFlight, Seen
  <2>2. ASSUME NEW e \in Dispatchers, e # d, NEW x \in Contacts, NEW y \in Contacts, x[1] = y[1],
               x \in DOMAIN draft[e] \cup dialling[e]
        PROVE  Seen(e, y)' = Seen(e, y)
    <3>1. y \notin DOMAIN draft[d]
      BY <1>3, <2>2
    <3> QED BY <1>3, <1>6, <2>2, <3>1 DEF Seen
  <2> QED BY <1>1, <1>3, <2>1, <2>2 DEF FlightInv
<1>8. AttemptInv'
  <2>1. ASSUME NEW x \in Contacts
        PROVE  /\ row'[x].status = "absent" => row'[x] = NoRow
               /\ row'[x].status = "pending" => row'[x].attempts < MaxAttempts
    BY <1>1, <1>5, <1>6 DEF AttemptInv, Drafts, Open
  <2>2. ASSUME NEW e \in Dispatchers, e # d, NEW x \in DOMAIN draft[e] \cup dialling[e]
        PROVE  row'[x] = row[x]
    BY <1>1, <1>3, <1>6, <2>2 DEF PassInv
  <2> QED BY <1>1, <1>3, <1>6, <2>1, <2>2 DEF AttemptInv
<1>9. CallInv'
  <2>1. \A e \in Dispatchers : e # d => placed[e] \cap placed[d] = {}
    BY <1>1, <1>3 DEF PassInv
  <2>2. /\ billed' \subseteq Calls
        /\ \A k \in billed' \cup lost' \cup UNION {placed'[e] : e \in Dispatchers} : vapi'[k] # "none"
        /\ \A e \in Dispatchers : placed'[e] \cap (billed' \cup lost') = {}
    <3>1. billed' \cup lost' = billed \cup lost \cup placed[d]
      BY <1>2, <1>4
    <3>2. \A e \in Dispatchers : placed'[e] = {} \/ (e # d /\ placed'[e] = placed[e])
      BY <1>3
    <3>3. \A e \in Dispatchers : placed'[e] \cap (billed' \cup lost') = {}
      BY <1>1, <2>1, <3>1, <3>2 DEF CallInv
    <3>4. \A k \in billed' \cup lost' \cup UNION {placed'[e] : e \in Dispatchers} :
            k \in billed \cup lost \cup UNION {placed[e] : e \in Dispatchers}
      BY <3>1, <3>2
    <3>5. billed' \subseteq Calls
      BY <1>1, <1>2 DEF CallInv, PassInv
    <3> QED BY <1>1, <1>4, <3>3, <3>4, <3>5 DEF CallInv
  <2>3. ASSUME NEW x \in Contacts
        PROVE  /\ Cardinality(Taken(x)) =
                    row'[x].attempts + Cardinality(CallsOf(x, lost)) + (IF Out(x)' THEN 1 ELSE 0)
               /\ row'[x].status # "deleted" => Cardinality(CallsOf(x, billed')) = row'[x].attempts
    <3>1. /\ Cardinality(Taken(x)) = row[x].attempts + Cardinality(CallsOf(x, lost)) + (IF Out(x) THEN 1 ELSE 0)
          /\ row[x].attempts \in Nat /\ Cardinality(CallsOf(x, lost)) \in Nat
          /\ row[x].status # "deleted" => Cardinality(CallsOf(x, billed)) = row[x].attempts
      BY <1>1, CallsFinite DEF CallInv, AttemptInv, Rows, RowsUpTo, Statuses, BilledPerAttempt
    <3>2. row'[x].status # "deleted" => row[x].status # "deleted"
      BY <1>5, <1>6
    <3>3. CASE \E k \in placed[d] : k[1] = x
      <4>1. PICK k \in placed[d] : k[1] = x
        BY <3>3
      <4>2. \A e \in Dispatchers : \A j \in placed'[e] : j[1] # x
        BY <1>1, <1>3, <4>1 DEF PassInv
      <4>3. row'[x].attempts = row[x].attempts + 1
        BY <1>1, <1>5, <1>6, <4>1 DEF AttemptInv
      <4>4. CallsOf(x, billed') = CallsOf(x, billed) \cup {k}
        BY <1>1, <1>2, <4>1 DEF CallsOf, AttemptInv
      <4>5. k \in Calls \ billed /\ billed \in SUBSET Calls
        BY <1>1, <4>1 DEF CallInv, PassInv
      <4>6. Cardinality(CallsOf(x, billed')) = Cardinality(CallsOf(x, billed)) + 1
        BY <4>1, <4>4, <4>5, OneCallMore
      <4>7. Out(x) /\ ~Out(x)'
        BY <4>1, <4>2 DEF Out
      <4> QED BY <3>1, <3>2, <4>3, <4>6, <4>7
    <3>4. CASE ~ \E k \in placed[d] : k[1] = x
      <4>1. CallsOf(x, billed') = CallsOf(x, billed)
        BY <1>2, <3>4 DEF CallsOf
      <4>2. Out(x)' <=> Out(x)
        BY <1>3, <3>4 DEF Out
      <4>3. row'[x].attempts = row[x].attempts
        BY <1>1, <1>6, <3>1, <3>4 DEF AttemptInv
      <4> QED BY <3>1, <3>2, <4>1, <4>2, <4>3
    <3> QED BY <3>3, <3>4
  <2>4. \A x \in Contacts : Taken(x)' = Taken(x)
    BY <1>4 DEF Taken
  <2>5. BilledPerAttempt'
    BY <2>3 DEF BilledPerAttempt
  <2>6. vapi' = vapi /\ lost' = lost
    BY <1>2, <1>4
  <2> QED BY <1>1, <2>2, <2>3, <2>4, <2>5, <2>6 DEF CallInv
<1>10. ListInv'
  BY <1>1, <1>3, <1>4 DEF ListInv, OnTheList
<1>11. RequestInv'
  <2>1. \A x \in Contacts : /\ row[x].status = "absent" => row'[x].status = "absent"
                            /\ row[x].status \notin {"absent", "deleted"} => row'[x].status \notin {"absent", "deleted"}
    BY <1>5, <1>6 DEF Drafts, Open
  <2> QED BY <1>1, <1>4, <2>1 DEF RequestInv
<1>12. AnswerInv'
  <2>1. \A x \in Contacts : AtStake(x)' => AtStake(x)
    BY <1>3, <1>4 DEF AtStake
  <2>2. \A x \in Contacts \ DOMAIN draft[d] : /\ row'[x] = row[x] /\ Call(x)' = Call(x)
                                              /\ x \in old => x \in old'
    BY <1>2, <1>5, <1>6 DEF Call
  <2>3. \A x \in reporting : x \in Contacts \ DOMAIN draft[d]
    BY <1>1, <1>2 DEF AnswerInv, HasAnswered
  <2>4. \A x \in DOMAIN draft[d] : /\ row'[x].status # "opted_out" /\ ~HasAnswered(x)'
                                   /\ row'[x].status # "calling" /\ x \in old => x \in old'
                                   /\ Call(x)' = <<x, draft[d][x].call>> /\ row'[x] = draft[d][x]
    BY <1>2, <1>5, <1>6 DEF Call, Drafts, Open, HasAnswered
  <2>5. ASSUME NEW e \in Dispatchers, NEW x \in DOMAIN draft'[e] \cup dialling'[e]
        PROVE  e # d /\ x \in (DOMAIN draft[e] \cup dialling[e]) \ DOMAIN draft[d] /\ x \in Contacts
    BY <1>1, <1>3 DEF PassInv
  <2>6. ASSUME NEW x \in Contacts
        PROVE  /\ row'[x].status = "opted_out" => Call(x)' \in reported
               /\ row'[x].status = "pending" \/ (\E e \in Dispatchers : x \in dialling'[e]) =>
                    row'[x].call = 0 \/ Call(x)' \in reported \/ x \in old'
               /\ AtStake(x)' /\ (HasAnswered(x)' \/ x \in reporting) => x \in old'
    <3>1. CASE x \in DOMAIN draft[d]
      <4>1. row'[x].status = "pending" => row'[x].call = 0 \/ Call(x)' \in reported \/ x \in old'
        BY <1>1, <2>4, <3>1 DEF AnswerInv, HasAnswered
      <4>2. \A e \in Dispatchers : x \notin dialling'[e]
        BY <2>5, <3>1
      <4> QED BY <2>3, <2>4, <3>1, <4>1, <4>2
    <3>2. CASE x \notin DOMAIN draft[d]
      <4>1. (\E e \in Dispatchers : x \in dialling'[e]) => \E e \in Dispatchers : x \in dialling[e]
        BY <1>3
      <4>2. HasAnswered(x)' <=> HasAnswered(x)
        BY <1>4, <2>2, <3>2 DEF HasAnswered
      <4> QED BY <1>1, <2>1, <2>2, <3>2, <4>1, <4>2 DEF AnswerInv
    <3> QED BY <3>1, <3>2
  <2>7. ASSUME NEW e \in Dispatchers, NEW x \in DOMAIN draft'[e], draft'[e][x].status = "pending"
        PROVE  draft'[e][x].call = 0 \/ <<x, draft'[e][x].call>> \in reported \/ x \in old'
    BY <1>1, <1>3, <2>2, <2>5, <2>7 DEF AnswerInv, HasAnswered
  <2>8. \A x \in reporting : /\ x \in Contacts /\ row'[x].status \notin {"absent", "deleted"}
                             /\ Call(x)' \in Calls /\ Call(x)' \notin reported
    BY <1>1, <2>2, <2>3 DEF AnswerInv, HasAnswered
  <2>9. reporting' = reporting /\ reported' = reported
    BY <1>4
  <2> QED BY <2>6, <2>7, <2>8, <2>9 DEF AnswerInv, HasAnswered
<1> QED BY <1>3, <1>7, <1>8, <1>9, <1>10, <1>11, <1>12 DEF IInv

-----------------------------------------------------------------------------
(* Reports, requests and time: a row changes, no call is placed.             *)

LEMMA RowStep ==
    ASSUME IInv, UNCHANGED <<passes, vapi, lost>>, row' \in [Contacts -> Rows], billed' \subseteq billed,
           \A x \in Contacts :
              /\ row'[x].attempts = row[x].attempts
              /\ row'[x].status = "calling" => row[x].status = "calling"
              /\ row'[x].status = "pending" => row'[x].attempts < MaxAttempts
              /\ row'[x].status = "absent" => row'[x] = row[x]
              /\ row'[x].status # "deleted" =>
                    row[x].status # "deleted" /\ CallsOf(x, billed') = CallsOf(x, billed)
    PROVE  PassInv' /\ FlightInv' /\ AttemptInv' /\ CallInv'
<1> USE DEF passes
<1>1. PassInv /\ FlightInv /\ AttemptInv /\ CallInv
  BY DEF IInv
<1>2. PassInv'
  BY <1>1 DEF PassInv
<1>3. FlightInv'
  BY <1>1 DEF FlightInv, OneInFlight, Seen
<1>4. AttemptInv'
  <2>1. \A d \in Dispatchers : \A x \in dialling[d] \cup DOMAIN draft[d] :
            row'[x].status # "absent" /\ row'[x].attempts = row[x].attempts
    BY <1>1 DEF AttemptInv, PassInv
  <2>2. \A x \in Contacts : row'[x].status = "absent" => row'[x] = NoRow
    BY <1>1 DEF AttemptInv
  <2> QED BY <1>1, <2>1, <2>2 DEF AttemptInv
<1>5. CallInv'
  <2>1. \A x \in Contacts : Taken(x)' = Taken(x) /\ (Out(x)' <=> Out(x))
    BY DEF Taken, Out
  <2>2. BilledPerAttempt'
    BY <1>1 DEF CallInv, BilledPerAttempt
  <2> QED BY <1>1, <2>1, <2>2 DEF CallInv
<1> QED BY <1>2, <1>3, <1>4, <1>5

\* A step that leaves rows and charges alone, or that only ends a call.
LEMMA StillStep ==
    ASSUME IInv, UNCHANGED <<passes, row, billed, lost>>,
           \/ UNCHANGED vapi
           \/ \E k \in Calls, e \in Ends : vapi[k] = "live" /\ vapi' = [vapi EXCEPT ![k] = e]
    PROVE  PassInv' /\ FlightInv' /\ AttemptInv' /\ CallInv'
<1>1. PassInv /\ FlightInv /\ AttemptInv /\ CallInv
  BY DEF IInv
<1>2. PassInv' /\ FlightInv' /\ AttemptInv'
  BY <1>1 DEF passes, PassInv, FlightInv, AttemptInv, OneInFlight, Seen
<1>3. /\ vapi' \in [Calls -> {"none", "live"} \cup Ends]
      /\ \A k \in Calls : vapi'[k] # "none" <=> vapi[k] # "none"
  <2>1. vapi \in [Calls -> {"none", "live"} \cup Ends]
    BY <1>1 DEF CallInv
  <2> QED BY <2>1 DEF Ends
<1>4. \A x \in Contacts : Taken(x)' = Taken(x) /\ (Out(x)' <=> Out(x))
  BY <1>3 DEF Taken, Out, passes
<1>5. ASSUME NEW x \in Contacts, NEW n \in 1..MaxCalls
      PROVE  vapi'[<<x, n>>] # "none" <=> n <= Cardinality(Taken(x))
  <2>1. <<x, n>> \in Calls
    BY DEF Calls
  <2> QED BY <1>1, <1>3, <2>1 DEF CallInv
<1>6. \A k \in billed \cup lost \cup UNION {placed[d] : d \in Dispatchers} : vapi'[k] # "none"
  <2>1. \A k \in billed \cup lost \cup UNION {placed[d] : d \in Dispatchers} : k \in Calls
    BY <1>1 DEF CallInv, PassInv
  <2> QED BY <1>1, <1>3, <2>1 DEF CallInv
<1>7. CallInv'
  BY <1>1, <1>3, <1>4, <1>5, <1>6 DEF CallInv, BilledPerAttempt, passes
<1> QED BY <1>2, <1>7

LEMMA CallEndsInv ==
    ASSUME IInv, NEW k \in Calls, CallEnds(k)
    PROVE  IInv'
<1>1. PassInv' /\ FlightInv' /\ AttemptInv' /\ CallInv'
  BY StillStep DEF CallEnds, tables, history
<1>2. ListInv' /\ RequestInv' /\ AnswerInv'
  BY DEF IInv, ListInv, RequestInv, AnswerInv, HasAnswered, CallEnds, tables, passes, history, OnTheList, AtStake, Call
<1> QED BY <1>1, <1>2 DEF IInv

LEMMA ReportBeginsInv ==
    ASSUME IInv, NEW k \in Calls, ReportBegins(k)
    PROVE  IInv'
<1>1. PassInv' /\ FlightInv' /\ AttemptInv' /\ CallInv'
  BY StillStep DEF ReportBegins, tables, history
<1>2. ListInv' /\ RequestInv'
  BY DEF IInv, ListInv, RequestInv, ReportBegins, tables, passes, history, OnTheList
<1>3. AnswerInv /\ AttemptInv
  BY DEF IInv
<1>4. PICK x \in Contacts : x = k[1] /\ k = <<x, k[2]>> /\ k[2] # 0
  BY ConstantsAssumption DEF Calls
<1>5. /\ k \notin reported /\ Call(x) = k /\ row[x].status # "deleted" /\ row[x].call # 0
      /\ x \notin Drafted \cup unlocked
      /\ reporting' = reporting \cup {x}
      /\ UNCHANGED <<row, old, reported, draft, dialling, request>>
  BY <1>4 DEF ReportBegins, Call, tables, passes
<1>6. row[x].status # "absent"
  BY <1>3, <1>5, NewRows DEF AttemptInv
<1>7. AtStake(x) => x \in old
  <2>1. AtStake(x) => \E d \in Dispatchers : x \in dialling[d]
    BY <1>5 DEF AtStake, Drafted
  <2> QED BY <1>3, <1>5, <2>1 DEF AnswerInv, HasAnswered
<1>8. \A y \in Contacts : (AtStake(y)' <=> AtStake(y)) /\ Call(y)' = Call(y)
  BY <1>5 DEF AtStake, Call
<1>9. AnswerInv'
  BY <1>3, <1>5, <1>6, <1>7, <1>8 DEF AnswerInv, HasAnswered
<1> QED BY <1>1, <1>2, <1>9 DEF IInv

LEMMA ReportStrayInv ==
    ASSUME IInv, NEW k \in Calls, ReportStray(k)
    PROVE  IInv'
<1>1. PassInv' /\ FlightInv' /\ AttemptInv' /\ CallInv'
  BY StillStep DEF ReportStray, tables, history
<1>2. ListInv' /\ RequestInv'
  BY DEF IInv, ListInv, RequestInv, ReportStray, tables, passes, history, OnTheList
<1>3. AnswerInv
  BY DEF IInv
<1>4. /\ row[k[1]].call # k[2] \/ row[k[1]].status = "deleted"
      /\ reported' = reported \cup {k}
      /\ UNCHANGED <<row, old, reports, draft, dialling, request>>
  BY DEF ReportStray, tables, passes
<1>5. \A y \in reporting : Call(y) # k
  BY <1>3, <1>4 DEF AnswerInv, HasAnswered, Call
<1>6. \A y \in Contacts : (AtStake(y)' <=> AtStake(y)) /\ Call(y)' = Call(y)
  BY <1>4 DEF AtStake, Call
<1>7. \A y \in Contacts : HasAnswered(y)' <=> HasAnswered(y)
  BY <1>4 DEF HasAnswered, Call
<1>8. \A y \in Contacts : Call(y) \in reported => Call(y)' \in reported'
  BY <1>4, <1>6
<1>9. AnswerInv'
  BY <1>3, <1>4, <1>5, <1>6, <1>7, <1>8 DEF AnswerInv
<1> QED BY <1>1, <1>2, <1>9 DEF IInv

LEMMA ReportEndsInv ==
    ASSUME IInv, NEW x \in Contacts, ReportEnds(x)
    PROVE  IInv'
<1>1. AttemptInv /\ CallInv /\ ListInv /\ RequestInv /\ AnswerInv
  BY DEF IInv
<1>2. /\ x \in reporting
      /\ row' = [row EXCEPT ![x] = AfterCall(row[x], vapi[Call(x)])]
      /\ blocked' = ListAfter(x[2], vapi[Call(x)])
      /\ reporting' = reporting \ {x} /\ reported' = reported \cup {Call(x)}
      /\ UNCHANGED <<old, billed, passes, request, vapi, lost, intrusions>>
  BY DEF ReportEnds, Call, history
<1>3. /\ row[x] \in Rows /\ row[x].status \notin {"absent", "deleted"}
      /\ Call(x) \notin reported /\ (AtStake(x) => x \in old)
  BY <1>1, <1>2 DEF AttemptInv, AnswerInv, HasAnswered
<1>4. PICK r \in Rows : /\ r = AfterCall(row[x], vapi[Call(x)])
                        /\ r.status \in {"pending", "no_answer", "done", "opted_out"}
                        /\ r.attempts = row[x].attempts /\ r.call = row[x].call
                        /\ r.status = "pending" => r.attempts < MaxAttempts
  <2>1. CASE vapi[Call(x)] = "silent"
    BY <1>3, <2>1, AfterAttemptRow DEF AfterCall
  <2>2. CASE vapi[Call(x)] # "silent"
    <3>1. PICK s \in {"done", "opted_out"} : AfterCall(row[x], vapi[Call(x)]) = [row[x] EXCEPT !.status = s]
      BY <2>2 DEF AfterCall
    <3> QED BY <1>3, <3>1 DEF Rows, RowsUpTo, Statuses
  <2> QED BY <2>1, <2>2
<1>5. /\ row' \in [Contacts -> Rows] /\ row'[x] = r
      /\ \A y \in Contacts : y # x => row'[y] = row[y]
  BY <1>1, <1>2, <1>4 DEF AttemptInv
<1>6. PassInv' /\ FlightInv' /\ AttemptInv' /\ CallInv'
  <2>1. \A y \in Contacts :
              /\ row'[y].attempts = row[y].attempts
              /\ row'[y].status = "calling" => row[y].status = "calling"
              /\ row'[y].status = "pending" => row'[y].attempts < MaxAttempts
              /\ row'[y].status = "absent" => row'[y] = row[y]
              /\ row'[y].status # "deleted" => row[y].status # "deleted"
    BY <1>1, <1>3, <1>4, <1>5 DEF AttemptInv
  <2> QED BY <1>2, <1>5, <2>1, RowStep
<1>7. ListInv'
  <2>1. blocked' = blocked \/ blocked' = [blocked EXCEPT ![x[2]] = "call"]
    BY <1>2 DEF ListAfter
  <2>2. \A y \in Contacts : ~OnTheList(y)' => ~OnTheList(y)
    BY <1>1, <2>1 DEF OnTheList, ListInv, Phones
  <2>3. blocked' = [p \in Phones |-> blocked'[p]] /\ intrusions' = intrusions /\ dialling' = dialling
    BY <1>1, <1>2, <2>1 DEF ListInv, passes
  <2> QED BY <1>1, <2>2, <2>3 DEF ListInv
<1>8. RequestInv'
  BY <1>1, <1>2, <1>3, <1>4, <1>5 DEF RequestInv
<1>9. AnswerInv'
  <2>1. \A y \in Contacts : Call(y)' = Call(y) /\ (AtStake(y)' <=> AtStake(y))
    BY <1>2, <1>4, <1>5 DEF Call, AtStake, passes
  <2>2. \A y \in reporting : y # x => Call(y) # Call(x)
    BY DEF Call
  <2>3. \A y \in reporting' : /\ y \in Contacts /\ row'[y].status \notin {"absent", "deleted"}
                              /\ Call(y)' \in Calls /\ Call(y)' \notin reported'
    BY <1>1, <1>2, <1>5, <2>1, <2>2 DEF AnswerInv, HasAnswered
  <2>4. ASSUME NEW y \in Contacts
        PROVE  /\ row'[y].status = "opted_out" => Call(y) \in reported'
               /\ row'[y].status = "pending" \/ (\E d \in Dispatchers : y \in dialling[d]) =>
                    row'[y].call = 0 \/ Call(y) \in reported' \/ y \in old
               /\ AtStake(y) /\ (HasAnswered(y)' \/ y \in reporting') => y \in old
    <3>1. CASE y = x
      BY <1>2, <1>3, <3>1
    <3>2. CASE y # x
      <4>1. HasAnswered(y)' <=> HasAnswered(y)
        BY <1>2, <1>5, <3>2 DEF HasAnswered, Call
      <4> QED BY <1>1, <1>2, <1>5, <3>2, <4>1 DEF AnswerInv
    <3> QED BY <3>1, <3>2
  <2>5. dialling' = dialling /\ draft' = draft /\ old' = old /\ reported \subseteq reported'
    BY <1>2 DEF passes
  <2>6. \A d \in Dispatchers : \A y \in DOMAIN draft'[d] : draft'[d][y].status = "pending" =>
            draft'[d][y].call = 0 \/ <<y, draft'[d][y].call>> \in reported' \/ y \in old'
    BY <1>1, <2>5 DEF AnswerInv, HasAnswered
  <2> QED BY <2>1, <2>3, <2>4, <2>5, <2>6 DEF AnswerInv, HasAnswered
<1> QED BY <1>6, <1>7, <1>8, <1>9 DEF IInv

LEMMA ReportUnlocksInv ==
    ASSUME IInv, NEW x \in Contacts, ReportUnlocks(x)
    PROVE  IInv'
<1>1. AnswerInv /\ RequestInv /\ ListInv
  BY DEF IInv
<1>2. /\ x \in reporting
      /\ reporting' = reporting \ {x} /\ reported' = reported \cup {Call(x)}
      /\ UNCHANGED <<row, old, blocked, intrusions, draft, dialling, request>>
  BY DEF ReportUnlocks, Call, tables, passes
<1>3. PassInv' /\ FlightInv' /\ AttemptInv' /\ CallInv'
  BY StillStep DEF ReportUnlocks, tables
<1>4. ListInv' /\ RequestInv'
  BY <1>1, <1>2 DEF ListInv, RequestInv, OnTheList
<1>5. \A y \in Contacts : /\ (AtStake(y)' <=> AtStake(y)) /\ Call(y)' = Call(y)
                          /\ y # x => (HasAnswered(y)' <=> HasAnswered(y)) /\ Call(y) # Call(x)
  BY <1>2 DEF AtStake, Call, HasAnswered
<1>6. AnswerInv'
  <2>1. \A y \in reporting' : /\ y \in Contacts /\ row'[y].status \notin {"absent", "deleted"}
                              /\ Call(y)' \in Calls /\ Call(y)' \notin reported'
    BY <1>1, <1>2, <1>5 DEF AnswerInv
  <2>2. \A y \in Contacts : Call(y) \in reported => Call(y)' \in reported'
    BY <1>2, <1>5
  <2>3. \A y \in Contacts : AtStake(y)' /\ (HasAnswered(y)' \/ y \in reporting') => y \in old'
    BY <1>1, <1>2, <1>5 DEF AnswerInv
  <2>4. \A d \in Dispatchers : \A y \in DOMAIN draft[d] : draft[d][y].status = "pending" =>
            draft[d][y].call = 0 \/ <<y, draft[d][y].call>> \in reported' \/ y \in old
    BY <1>1, <1>2 DEF AnswerInv
  <2> QED BY <1>1, <1>2, <2>1, <2>2, <2>3, <2>4 DEF AnswerInv
<1> QED BY <1>3, <1>4, <1>6 DEF IInv

\* What is left of a report that has lost its lock.
LEMMA UnlockedEndsInv ==
    ASSUME IInv, UnlockedInv, NEW x \in Contacts, UnlockedEnds(x)
    PROVE  IInv'
<1>1. AttemptInv /\ CallInv /\ ListInv /\ RequestInv /\ AnswerInv
  BY DEF IInv
<1>2. /\ x \in unlocked /\ reporting' = reporting
      /\ row' = IF row[x].status = "deleted" THEN row ELSE [row EXCEPT ![x].status = "done"]
      /\ UNCHANGED <<old, billed, blocked, passes, request, vapi, reported, lost, intrusions>>
  BY DEF UnlockedEnds, history
<1>3. /\ x \notin reporting /\ row[x].status # "absent" /\ (AtStake(x) => x \in old)
      /\ row[x] \in Rows /\ row \in [Contacts -> Rows]
  BY <1>1, <1>2 DEF UnlockedInv, AttemptInv
<1>4. PICK r \in Rows : /\ r = (IF row[x].status = "deleted" THEN row[x] ELSE [row[x] EXCEPT !.status = "done"])
                        /\ r.attempts = row[x].attempts /\ r.call = row[x].call
                        /\ r.status = (IF row[x].status = "deleted" THEN "deleted" ELSE "done")
  <2> DEFINE done == [row[x] EXCEPT !.status = "done"]
  <2>1. done \in Rows /\ done.attempts = row[x].attempts /\ done.call = row[x].call /\ done.status = "done"
    BY <1>3 DEF Rows, RowsUpTo, Statuses
  <2> HIDE DEF done
  <2>2. CASE row[x].status = "deleted"
    BY <1>3, <2>2
  <2>3. CASE row[x].status # "deleted"
    BY <2>1, <2>3 DEF done
  <2> QED BY <2>2, <2>3
<1>5. /\ row' \in [Contacts -> Rows] /\ row'[x] = r
      /\ \A y \in Contacts : y # x => row'[y] = row[y]
  BY <1>2, <1>3, <1>4
<1>6. PassInv' /\ FlightInv' /\ AttemptInv' /\ CallInv'
  <2>1. \A y \in Contacts :
              /\ row'[y].attempts = row[y].attempts
              /\ row'[y].status = "calling" => row[y].status = "calling"
              /\ row'[y].status = "pending" => row'[y].attempts < MaxAttempts
              /\ row'[y].status = "absent" => row'[y] = row[y]
              /\ row'[y].status # "deleted" => row[y].status # "deleted"
    BY <1>1, <1>3, <1>4, <1>5 DEF AttemptInv
  <2> QED BY <1>2, <1>5, <2>1, RowStep
<1>7. ListInv'
  BY <1>1, <1>2 DEF ListInv, OnTheList, passes
<1>8. RequestInv'
  BY <1>1, <1>2, <1>3, <1>4, <1>5 DEF RequestInv
<1>9. AnswerInv'
  <2>1. \A y \in Contacts : /\ Call(y)' = Call(y) /\ row'[y].call = row[y].call
                            /\ (AtStake(y)' <=> AtStake(y))
                            /\ y # x => (HasAnswered(y)' <=> HasAnswered(y))
    BY <1>2, <1>4, <1>5 DEF Call, AtStake, HasAnswered, passes
  <2>2. \A y \in reporting : y # x /\ y \in Contacts
    BY <1>1, <1>3 DEF AnswerInv
  <2>3. row'[x].status # "opted_out" /\ row'[x].status # "pending"
    BY <1>4, <1>5
  <2>4. dialling' = dialling /\ draft' = draft /\ old' = old /\ reported' = reported /\ reporting' = reporting
    BY <1>2 DEF passes
  <2> QED BY <1>1, <1>3, <1>5, <2>1, <2>2, <2>3, <2>4 DEF AnswerInv
<1> QED BY <1>6, <1>7, <1>8, <1>9 DEF IInv

LEMMA BeginInv ==
    ASSUME IInv, NEW kind, NEW of \in SUBSET Contacts, NEW at, Begin(kind, of, at),
           kind = "import" => \A x \in of : row[x].status = "absent",
           kind \in {"block", "delete"} => \A x \in of : row[x].status \notin {"absent", "deleted"}
    PROVE  IInv'
<1>1. AttemptInv /\ AnswerInv /\ RequestInv
  BY DEF IInv
<1>2. PassInv' /\ FlightInv' /\ AttemptInv' /\ CallInv'
  BY StillStep DEF Begin, tables
<1>3. /\ request' = [kind |-> kind, of |-> of, at |-> at]
      /\ UNCHANGED <<row, old, reports, reported, draft, dialling, blocked, intrusions>>
  BY DEF Begin, tables, passes
<1>4. ListInv' /\ RequestInv'
  BY <1>3 DEF IInv, ListInv, RequestInv, OnTheList
<1>5. \A x \in Contacts : Call(x)' = Call(x) /\ row'[x] = row[x]
  BY <1>3 DEF Call
<1>6. \A x \in Contacts : AtStake(x)' = AtStake(x)
  BY <1>3 DEF AtStake
<1>7. AnswerInv'
  <2>1. \A x \in reporting : x \in Contacts
    BY <1>1 DEF AnswerInv
  <2> QED BY <1>1, <1>3, <1>5, <1>6, <2>1 DEF AnswerInv, HasAnswered
<1> QED BY <1>2, <1>4, <1>7 DEF IInv

LEMMA RequestReadsInv ==
    ASSUME IInv, RequestReads
    PROVE  IInv'
<1>1. ASSUME NEW x \in Contacts, ImportReads(x) PROVE IInv'
  <2>1. Begin("import", {x}, x[1]) /\ \A y \in {x} : row[y].status = "absent"
    BY <1>1 DEF ImportReads
  <2> QED BY <2>1, BeginInv
<1>2. ASSUME NEW x \in Contacts, DeleteReads(x) PROVE IInv'
  <2>1. Begin("delete", {x}, x[1]) /\ \A y \in {x} : row[y].status \notin {"absent", "deleted"}
    BY <1>2 DEF DeleteReads
  <2> QED BY <2>1, BeginInv
<1>3. ASSUME NEW p \in Phones, BlockReads(p) PROVE IInv'
  <2>1. PICK S \in SUBSET Contacts : Begin("block", S, p) /\ \A y \in S : row[y].status = "pending"
    BY <1>3 DEF BlockReads
  <2>2. \A y \in S : row[y].status \notin {"absent", "deleted"}
    BY <2>1
  <2> QED BY <2>1, <2>2, BeginInv
<1>4. ASSUME NEW c \in Campaigns, PauseReads(c) PROVE IInv'
  <2>1. Begin("pause", {}, c)
    BY <1>4 DEF PauseReads
  <2> QED BY <2>1, BeginInv
<1> QED BY <1>1, <1>2, <1>3, <1>4 DEF RequestReads

LEMMA ImportWritesInv ==
    ASSUME IInv, ImportWrites
    PROVE  IInv'
<1>1. AttemptInv /\ CallInv /\ RequestInv /\ AnswerInv
  BY DEF IInv
<1>2. /\ request.kind = "import" /\ request.of \cap reporting = {} /\ request' = NoRequest
      /\ row' = [x \in Contacts |-> IF x \in request.of THEN NewRow ELSE row[x]]
      /\ UNCHANGED <<old, billed, blocked, passes, reports, vapi, reported, lost, intrusions>>
  BY DEF ImportWrites, Finish, history
<1>3. \A x \in request.of : x \in Contacts /\ row[x] = NoRow
  BY <1>1, <1>2 DEF RequestInv, AttemptInv
<1>4. row' \in [Contacts -> Rows]
  BY <1>1, <1>2, NewRows DEF AttemptInv
<1>5. ASSUME NEW x \in Contacts
      PROVE  /\ row'[x].attempts = row[x].attempts
             /\ row'[x].status = "calling" => row[x].status = "calling"
             /\ row'[x].status = "pending" => row'[x].attempts < MaxAttempts
             /\ row'[x].status = "absent" => row'[x] = row[x]
             /\ row'[x].status # "deleted" =>
                    row[x].status # "deleted" /\ CallsOf(x, billed') = CallsOf(x, billed)
  <2>1. CASE x \in request.of
    BY <1>2, <1>3, <2>1, NewRows, ConstantsAssumption
  <2>2. CASE x \notin request.of
    BY <1>1, <1>2, <2>2 DEF AttemptInv
  <2> QED BY <2>1, <2>2
<1>6. PassInv' /\ FlightInv' /\ AttemptInv' /\ CallInv'
  BY <1>2, <1>4, <1>5, RowStep
<1>7. ListInv'
  BY <1>2 DEF IInv, ListInv, OnTheList, passes
<1>8. RequestInv'
  BY <1>2 DEF RequestInv, NoRequest
<1>9. AnswerInv'
  <2>1. \A x \in Contacts : \/ row'[x] = row[x] /\ Call(x)' = Call(x)
                            \/ /\ row'[x].status = "pending" /\ row'[x].call = 0
                               /\ x \notin reporting
    BY <1>2, NewRows DEF Call
  <2>2. \A x \in Contacts : AtStake(x)' => AtStake(x)
    BY <1>2 DEF AtStake, passes
  <2>3. \A x \in reporting : x \in Contacts /\ row'[x] = row[x] /\ Call(x)' = Call(x)
    BY <1>1, <2>1 DEF AnswerInv, HasAnswered
  <2> QED BY <1>1, <1>2, <2>1, <2>2, <2>3 DEF AnswerInv, HasAnswered, passes
<1> QED BY <1>6, <1>7, <1>8, <1>9 DEF IInv

\* A request's contacts get a status that ends their calling.
LEMMA WithdrawInv ==
    ASSUME IInv, NEW s \in {"skipped", "deleted"}, request.kind \in {"block", "delete"},
           request.of \cap reporting = {}, request' = NoRequest,
           row' = [x \in Contacts |-> IF x \in request.of THEN [row[x] EXCEPT !.status = s] ELSE row[x]],
           billed' = IF s = "deleted" THEN {k \in billed : k[1] \notin request.of} ELSE billed,
           UNCHANGED <<old, passes, reports, vapi, reported, lost>>
    PROVE  PassInv' /\ FlightInv' /\ AttemptInv' /\ CallInv' /\ RequestInv' /\ AnswerInv'
<1>1. AttemptInv /\ CallInv /\ RequestInv /\ AnswerInv
  BY DEF IInv
<1>2. ASSUME NEW x \in request.of
      PROVE  /\ x \in Contacts /\ row'[x] \in Rows /\ row'[x].status = s
             /\ row[x].status \notin {"absent", "deleted"}
             /\ row'[x].attempts = row[x].attempts /\ row'[x].call = row[x].call
  <2>1. row[x] \in Rows /\ x \in Contacts
    BY <1>1 DEF RequestInv, AttemptInv
  <2>2. row'[x] = [row[x] EXCEPT !.status = s]
    BY <2>1
  <2> QED BY <1>1, <2>1, <2>2 DEF RequestInv, Rows, RowsUpTo, Statuses
<1>3. \A x \in Contacts \ request.of : row'[x] = row[x]
  OBVIOUS
<1>4. row' \in [Contacts -> Rows]
  BY <1>1, <1>2, <1>3 DEF AttemptInv
<1>5. ASSUME NEW x \in Contacts
      PROVE  /\ row'[x].attempts = row[x].attempts
             /\ row'[x].status = "calling" => row[x].status = "calling"
             /\ row'[x].status = "pending" => row'[x].attempts < MaxAttempts
             /\ row'[x].status = "absent" => row'[x] = row[x]
             /\ row'[x].status # "deleted" =>
                    row[x].status # "deleted" /\ CallsOf(x, billed') = CallsOf(x, billed)
  <2>1. CASE x \in request.of
    BY <1>2, <2>1 DEF CallsOf
  <2>2. CASE x \notin request.of
    <3>1. CallsOf(x, billed') = CallsOf(x, billed)
      BY <2>2 DEF CallsOf
    <3> QED BY <1>1, <1>3, <2>2, <3>1 DEF AttemptInv, CallInv
  <2> QED BY <2>1, <2>2
<1>6. PassInv' /\ FlightInv' /\ AttemptInv' /\ CallInv'
  BY <1>4, <1>5, RowStep
<1>7. RequestInv'
  BY DEF RequestInv, NoRequest
<1>8. AnswerInv'
  <2>1. \A x \in Contacts : /\ Call(x)' = Call(x) /\ row'[x].call = row[x].call
                            /\ row'[x].status = "pending" => row[x].status = "pending"
                            /\ row'[x].status = "opted_out" => row[x].status = "opted_out"
                            /\ HasAnswered(x)' => HasAnswered(x)
    BY <1>2, <1>3 DEF Call, HasAnswered
  <2>2. \A x \in Contacts : AtStake(x)' => AtStake(x)
    BY DEF AtStake, passes
  <2>3. \A x \in reporting : x \in Contacts /\ row'[x] = row[x] /\ Call(x)' = Call(x)
    BY <1>1, <1>3, <2>1 DEF AnswerInv, HasAnswered
  <2>4. \A x \in Contacts :
            /\ row'[x].status = "opted_out" => Call(x) \in reported
            /\ row'[x].status = "pending" \/ (\E d \in Dispatchers : x \in dialling[d]) =>
                    row[x].call = 0 \/ Call(x) \in reported \/ x \in old
            /\ AtStake(x)' /\ (HasAnswered(x)' \/ x \in reporting) => x \in old
    BY <1>1, <2>1, <2>2 DEF AnswerInv, HasAnswered
  <2>5. dialling' = dialling /\ draft' = draft
    BY DEF passes
  <2> QED BY <1>1, <2>1, <2>3, <2>4, <2>5 DEF AnswerInv, HasAnswered
<1> QED BY <1>6, <1>7, <1>8

LEMMA BlockWritesInv ==
    ASSUME IInv, BlockWrites
    PROVE  IInv'
<1>1. /\ request.kind = "block" /\ request.of \cap reporting = {} /\ request' = NoRequest
      /\ blocked' = [p \in Phones |-> IF p = request.at /\ blocked[p] = "no" THEN "manual" ELSE blocked[p]]
      /\ row' = [x \in Contacts |-> IF x \in request.of THEN [row[x] EXCEPT !.status = "skipped"] ELSE row[x]]
      /\ UNCHANGED <<old, billed, passes, reports, vapi, reported, lost, intrusions>>
  BY DEF BlockWrites, Finish, history
<1>2. PassInv' /\ FlightInv' /\ AttemptInv' /\ CallInv' /\ RequestInv' /\ AnswerInv'
  BY <1>1, WithdrawInv
<1>3. \A x \in Contacts : ~OnTheList(x)' => ~OnTheList(x)
  BY <1>1 DEF OnTheList, Phones
<1>4. ListInv'
  BY <1>1, <1>3 DEF IInv, ListInv, passes
<1> QED BY <1>2, <1>4 DEF IInv

LEMMA DeleteWritesInv ==
    ASSUME IInv, DeleteWrites
    PROVE  IInv'
<1>1. /\ request.kind = "delete" /\ request.of \cap reporting = {} /\ request' = NoRequest
      /\ row' = [x \in Contacts |-> IF x \in request.of THEN [row[x] EXCEPT !.status = "deleted"] ELSE row[x]]
      /\ billed' = {k \in billed : k[1] \notin request.of}
      /\ UNCHANGED <<old, blocked, passes, reports, vapi, reported, lost, intrusions>>
  BY DEF DeleteWrites, Finish, history
<1>2. PassInv' /\ FlightInv' /\ AttemptInv' /\ CallInv' /\ RequestInv' /\ AnswerInv'
  BY <1>1, WithdrawInv
<1>3. ListInv'
  BY <1>1 DEF IInv, ListInv, OnTheList, passes
<1> QED BY <1>2, <1>3 DEF IInv

LEMMA RetryDueInv ==
    ASSUME IInv, NEW x \in Contacts, RetryDue(x)
    PROVE  IInv'
<1>1. AttemptInv /\ CallInv /\ ListInv /\ RequestInv /\ AnswerInv
  BY DEF IInv
<1>2. /\ row' = [row EXCEPT ![x].waiting = FALSE]
      /\ UNCHANGED <<old, billed, blocked, passes, reports, request, vapi, reported, lost, intrusions>>
  BY DEF RetryDue, history
<1>3. row' \in [Contacts -> Rows] /\ \A y \in Contacts :
        /\ row'[y].status = row[y].status /\ row'[y].attempts = row[y].attempts /\ row'[y].call = row[y].call
        /\ row[y].status # "pending" => row'[y] = row[y]
  <2>1. row[x] \in Rows /\ row \in [Contacts -> Rows] /\ row[x].status = "pending"
    BY <1>1 DEF AttemptInv, RetryDue
  <2>2. PICK r : r = [row[x] EXCEPT !.waiting = FALSE]
    OBVIOUS
  <2>4. /\ r \in Rows /\ r.status = row[x].status
        /\ r.attempts = row[x].attempts /\ r.call = row[x].call
    BY <2>1, <2>2 DEF Rows, RowsUpTo, Statuses
  <2>3. row' = [row EXCEPT ![x] = r]
    BY <1>2, <2>2
  <2> QED BY <2>1, <2>3, <2>4
<1>4. PassInv' /\ FlightInv' /\ AttemptInv' /\ CallInv'
  <2>1. \A y \in Contacts :
              /\ row'[y].status = "pending" => row'[y].attempts < MaxAttempts
              /\ row'[y].status = "absent" => row'[y] = row[y]
    BY <1>1, <1>3 DEF AttemptInv
  <2>2. billed' = billed /\ \A y \in Contacts : CallsOf(y, billed') = CallsOf(y, billed)
    BY <1>2
  <2> QED BY <1>2, <1>3, <2>1, <2>2, RowStep
<1>5. ListInv'
  BY <1>1, <1>2 DEF ListInv, OnTheList, passes
<1>6. RequestInv'
  BY <1>1, <1>2, <1>3 DEF RequestInv
<1>7. AnswerInv'
  <2>1. \A y \in Contacts : Call(y)' = Call(y) /\ (AtStake(y)' <=> AtStake(y))
    BY <1>2, <1>3 DEF Call, AtStake, passes
  <2>2. \A y \in reporting : y \in Contacts
    BY <1>1 DEF AnswerInv, HasAnswered
  <2> QED BY <1>1, <1>2, <1>3, <2>1, <2>2 DEF AnswerInv, HasAnswered, passes
<1> QED BY <1>4, <1>5, <1>6, <1>7 DEF IInv

\* The steps that touch no row.
LEMMA StillInv ==
    ASSUME IInv,
           \/ PauseWrites
           \/ \E c \in Campaigns : Start(c)
           \/ \E p \in Phones : Unblock(p)
           \/ \E x \in Contacts : GetsOld(x)
           \/ UNCHANGED vars
    PROVE  IInv'
<1> USE DEF PauseWrites, Finish, Start, Unblock, GetsOld, vars, tables, history
<1>1. ListInv /\ RequestInv /\ AnswerInv
  BY DEF IInv
<1>2. UNCHANGED <<row, billed, passes, reports, vapi, reported, lost>>
  OBVIOUS
<1>3. PassInv' /\ FlightInv' /\ AttemptInv' /\ CallInv'
  BY <1>2, StillStep
<1>4. request' = request \/ request' = NoRequest
  OBVIOUS
<1>5. old \subseteq old'
  OBVIOUS
<1>6. RequestInv'
  BY <1>1, <1>2, <1>4 DEF RequestInv, NoRequest
<1>7. ListInv'
  <2>1. CASE UNCHANGED <<blocked, intrusions>>
    BY <1>1, <1>2, <2>1 DEF ListInv, OnTheList, passes
  <2>2. ASSUME NEW p \in Phones, Unblock(p)
        PROVE  ListInv'
    <3>1. /\ blocked' = [blocked EXCEPT ![p] = "no"]
          /\ intrusions' = [x \in Contacts |-> IF x[2] = p THEN 0 ELSE intrusions[x]]
          /\ dialling' = dialling
      BY <2>2 DEF passes
    <3>2. blocked' = [q \in Phones |-> blocked'[q]] /\ intrusions' \in [Contacts -> Nat]
      BY <1>1, <3>1 DEF ListInv
    <3>3. \A x \in Contacts : /\ intrusions'[x] = 0 \/ intrusions'[x] = intrusions[x]
                              /\ OnTheList(x)' => OnTheList(x)
                              /\ ~OnTheList(x)' => ~OnTheList(x) \/ x[2] = p
      BY <1>1, <3>1 DEF OnTheList, Phones, ListInv
    <3>4. \A d \in Dispatchers : dialling[d] \subseteq Contacts
      BY DEF IInv, PassInv
    <3> QED BY <1>1, <3>1, <3>2, <3>3, <3>4 DEF ListInv
  <2> QED BY <2>1, <2>2
<1>8. AnswerInv'
  <2>1. \A x \in Contacts : Call(x)' = Call(x) /\ (AtStake(x)' => AtStake(x))
    BY <1>2, <1>4 DEF Call, AtStake, passes
  <2>2. \A x \in reporting : x \in Contacts
    BY <1>1 DEF AnswerInv, HasAnswered
  <2>3. row' = row /\ reporting' = reporting /\ reported' = reported /\ draft' = draft /\ dialling' = dialling
    BY <1>2 DEF passes
  <2> HIDE DEF PauseWrites, Finish, Start, Unblock, GetsOld, vars, tables, history
  <2> QED BY <1>1, <1>5, <2>1, <2>2, <2>3 DEF AnswerInv, HasAnswered
<1> QED BY <1>3, <1>6, <1>7, <1>8 DEF IInv

LEMMA NextIInv == IInv /\ UnlockedInv /\ [Next]_vars => IInv'
<1> SUFFICES ASSUME IInv, UnlockedInv, [Next]_vars PROVE IInv'
  OBVIOUS
<1>1. ASSUME NEW d \in Dispatchers, PassStep(d) \/ PassRollback(d) PROVE IInv'
  <2>1. ASSUME NEW x \in Contacts, VisitDial(d, x[1], x) PROVE IInv'
    <3>1. x[1] \in Campaigns
      BY DEF Campaigns
    <3> QED BY <2>1, <3>1, VisitsInv
  <2> QED BY <1>1, <2>1, PassBeginInv, VisitsInv, PostAcceptedInv, PostRejectedInv, PostWithoutUseInv,
             PassCommitInv, PassRollbackInv DEF PassStep
<1>2. ASSUME NEW k \in Calls, CallEnds(k) \/ Report(k) PROVE IInv'
  BY <1>2, CallEndsInv, ReportBeginsInv, ReportStrayInv DEF Report
<1>3. ASSUME NEW x \in Contacts, ReportGoesOn(x) \/ RetryDue(x) PROVE IInv'
  BY <1>3, ReportEndsInv, ReportUnlocksInv, UnlockedEndsInv, RetryDueInv DEF ReportGoesOn
<1>4. ASSUME RequestReads \/ RequestWrites PROVE IInv'
  BY <1>4, RequestReadsInv, ImportWritesInv, BlockWritesInv, DeleteWritesInv, StillInv DEF RequestWrites
<1> QED BY <1>1, <1>2, <1>3, <1>4, StillInv DEF Next

\* An attempt that was not answered makes the contact wait.
LEMMA AfterAttemptWaits ==
    ASSUME NEW r \in Rows, AfterAttempt(r).status = "pending"
    PROVE  AfterAttempt(r).waiting
BY DEF AfterAttempt, Rows, RowsUpTo

\* Nobody whose report has lost its lock comes within reach of a pass.
LEMMA NextUnlocked == IInv /\ UnlockedInv /\ [Next]_vars => UnlockedInv'
<1> SUFFICES ASSUME IInv, UnlockedInv, [Next]_vars PROVE UnlockedInv'
  OBVIOUS
<1>1. PassInv /\ AttemptInv /\ AnswerInv /\ RequestInv
  BY DEF IInv
<1> DEFINE Waits(dr) == \A d \in Dispatchers : \A x \in DOMAIN dr[d] :
                            dr[d][x].status = "pending" => dr[d][x].waiting
<1>2. Waits(draft)
  BY DEF UnlockedInv
<1>3. ASSUME UNCHANGED <<row, reports>>, old \subseteq old', Waits(draft'),
             \A x \in unlocked : AtStake(x)' => AtStake(x) \/ x \in old
      PROVE  UnlockedInv'
  BY <1>3 DEF UnlockedInv
<1>4. ASSUME UNCHANGED <<draft, dialling, old>>,
             \A x \in unlocked' : /\ x \in Contacts \ reporting'
                                  /\ row'[x].status \notin {"absent", "opted_out"}
                                  /\ (row'[x].status = "pending" /\ ~row'[x].waiting) \/ AtStake(x) => x \in old
      PROVE  UnlockedInv'
  BY <1>2, <1>4 DEF UnlockedInv, AtStake
<1> HIDE DEF Waits
<1>5. ASSUME NEW d \in Dispatchers, NEW c \in Campaigns, NEW S \in SUBSET Due(c), Visit(d, c, Skipped(S)),
             \A x \in dialling'[d] : x \in Due(c), \A e \in Dispatchers : e # d => dialling'[e] = dialling[e]
      PROVE  UnlockedInv'
  <2>1. /\ draft' = [draft EXCEPT ![d] = Over(Skipped(S), Over(Swept(c), draft[d]))]
        /\ draft = [e \in Dispatchers |-> draft[e]]
        /\ UNCHANGED <<row, old, reports>>
    BY <1>1, <1>5 DEF Visit, PassInv, tables
  <2>2. /\ \A e \in Dispatchers : e # d => draft'[e] = draft[e]
        /\ draft'[d] = Over(Skipped(S), Over(Swept(c), draft[d]))
    BY <2>1
  <2>3. \A x \in Due(c) : x \in Contacts /\ row[x].status = "pending" /\ ~row[x].waiting
    BY <1>1, DueRow DEF Due, AttemptInv
  <2>4. \A x \in Stale(c) : x \in Contacts /\ x \in old /\ row[x] \in Rows
    BY <1>1 DEF Stale, ContactsOf, AttemptInv
  <2>5. /\ DOMAIN draft'[d] = S \cup Stale(c) \cup DOMAIN draft[d]
        /\ \A x \in DOMAIN draft'[d] : \/ x \in S /\ draft'[d][x].status = "skipped"
                                       \/ x \in Stale(c) /\ draft'[d][x] = AfterAttempt(row[x])
                                       \/ x \in DOMAIN draft[d] /\ draft'[d][x] = draft[d][x]
    <3>1. \A x \in S : row[x] \in Rows /\ [row[x] EXCEPT !.status = "skipped"].status = "skipped"
      BY <1>1, <2>3 DEF AttemptInv, Rows, RowsUpTo
    <3> HIDE DEF Due
    <3> QED BY <2>2, <3>1 DEF Over, Swept, Skipped
  <2>6. Waits(draft')
    <3>1. ASSUME NEW e \in Dispatchers, NEW x \in DOMAIN draft'[e], draft'[e][x].status = "pending"
          PROVE  draft'[e][x].waiting
      BY <1>2, <2>2, <2>4, <2>5, <3>1, AfterAttemptWaits DEF Waits
    <3> QED BY <3>1 DEF Waits
  <2>7. \A x \in unlocked : AtStake(x)' => AtStake(x) \/ x \in old
    <3>1. SUFFICES ASSUME NEW x \in unlocked, NEW e \in Dispatchers, x \in DOMAIN draft'[e] \cup dialling'[e]
                   PROVE  AtStake(x) \/ x \in old
      BY DEF AtStake
    <3>2. x \in Due(c) => x \in old
      BY <2>3 DEF UnlockedInv
    <3> HIDE DEF Due
    <3> QED BY <1>5, <2>2, <2>4, <2>5, <3>1, <3>2 DEF AtStake
  <2> QED BY <1>3, <2>1, <2>6, <2>7
<1>6. ASSUME NEW d \in Dispatchers, NEW c \in Campaigns, VisitIdle(d, c) \/ VisitComplete(d, c) \/ VisitSkip(d, c)
      PROVE  UnlockedInv'
  <2>1. dialling' = dialling /\ dialling[d] = {}
    BY <1>6 DEF VisitIdle, VisitComplete, VisitSkip, Visit
  <2>2. NoDraft = Skipped({})
    BY DEF NoDraft, Skipped
  <2>3. OnList(c) \in SUBSET Due(c) /\ {} \in SUBSET Due(c)
    BY DEF OnList
  <2>4. \E S \in SUBSET Due(c) : Visit(d, c, Skipped(S))
    BY <1>6, <2>2, <2>3 DEF VisitIdle, VisitComplete, VisitSkip
  <2> HIDE DEF Due
  <2> QED BY <1>5, <2>1, <2>4
<1>7. ASSUME NEW d \in Dispatchers, NEW c \in Campaigns, NEW x \in Contacts, VisitDial(d, c, x)
      PROVE  UnlockedInv'
  <2>1. PICK S \in SUBSET Due(c) : Visit(d, c, Skipped(S))
    BY <1>7 DEF VisitDial, OnList
  <2>2. dialling' = [dialling EXCEPT ![d] = {x}] /\ x \in Due(c) /\ dialling \in [Dispatchers -> SUBSET Contacts]
    BY <1>1, <1>7 DEF VisitDial, Callable, PassInv
  <2> HIDE DEF Due
  <2> QED BY <1>5, <2>1, <2>2
<1>8. ASSUME NEW d \in Dispatchers, NEW x \in Contacts, NEW r, PostEnds(d, x, r), r.status = "pending" => r.waiting
      PROVE  UnlockedInv'
  <2>1. /\ draft' = [draft EXCEPT ![d] = Over([y \in {x} |-> r], draft[d])]
        /\ dialling' = [dialling EXCEPT ![d] = {}] /\ x \in dialling[d]
        /\ draft = [e \in Dispatchers |-> draft[e]] /\ dialling \in [Dispatchers -> SUBSET Contacts]
        /\ UNCHANGED <<row, old, reports>>
    BY <1>1, <1>8 DEF PostEnds, PassInv, tables
  <2>2. /\ DOMAIN draft'[d] = DOMAIN draft[d] \cup {x}
        /\ \A y \in DOMAIN draft'[d] : draft'[d][y] = r \/ (y \in DOMAIN draft[d] /\ draft'[d][y] = draft[d][y])
        /\ \A e \in Dispatchers : e # d => draft'[e] = draft[e]
        /\ \A e \in Dispatchers : dialling'[e] \subseteq dialling[e]
    BY <2>1 DEF Over
  <2>3. Waits(draft')
    BY <1>2, <1>8, <2>2 DEF Waits
  <2>4. \A y \in unlocked : AtStake(y)' => AtStake(y)
    BY <2>1, <2>2 DEF AtStake
  <2> QED BY <1>3, <2>1, <2>3, <2>4
<1>9. ASSUME NEW d \in Dispatchers, NEW x \in Contacts, PostAccepted(d, x) \/ PostRejected(d, x) \/ PostWithoutUse(d, x)
      PROVE  UnlockedInv'
  <2>1. row[x] \in Rows
    BY <1>1 DEF AttemptInv
  <2>2. PICK r : PostEnds(d, x, r) /\ (r.status = "pending" => r.waiting)
    <3>1. CASE PostAccepted(d, x)
      <4> DEFINE n == Cardinality(Taken(x)) + 1
                 called == [row[x] EXCEPT !.attempts = row[x].attempts + 1, !.status = "calling", !.call = n]
      <4>1. PostEnds(d, x, called)
        BY <3>1 DEF PostAccepted, Accepted
      <4>2. called.status = "calling"
        BY <2>1 DEF Rows, RowsUpTo
      <4> HIDE DEF called
      <4> QED BY <4>1, <4>2
    <3>2. CASE PostRejected(d, x)
      <4> DEFINE given == [row[x] EXCEPT !.status = "failed"]
      <4>1. PostEnds(d, x, given)
        BY <3>2 DEF PostRejected
      <4>2. given.status = "failed"
        BY <2>1 DEF Rows, RowsUpTo
      <4> HIDE DEF given
      <4> QED BY <4>1, <4>2
    <3>3. CASE PostWithoutUse(d, x)
      <4> DEFINE later == [row[x] EXCEPT !.status = "pending", !.waiting = TRUE]
      <4>1. PostEnds(d, x, later)
        BY <3>3 DEF PostWithoutUse
      <4>2. later.waiting
        BY <2>1 DEF Rows, RowsUpTo
      <4> HIDE DEF later
      <4> QED BY <4>1, <4>2
    <3> QED BY <1>9, <3>1, <3>2, <3>3
  <2> QED BY <1>8, <2>2
<1>10. ASSUME NEW d \in Dispatchers, PassBegin(d)
       PROVE  UnlockedInv'
  BY <1>2, <1>3, <1>10 DEF PassBegin, AtStake, tables
<1>11. ASSUME NEW d \in Dispatchers, PassEnds(d)
       PROVE  /\ Waits(draft') /\ unlocked' = unlocked /\ reporting' = reporting
              /\ DOMAIN draft'[d] = {} /\ dialling'[d] = {}
              /\ \A e \in Dispatchers : e # d => draft'[e] = draft[e] /\ dialling'[e] = dialling[e]
  <2>1. /\ DOMAIN draft'[d] = {} /\ dialling'[d] = {}
        /\ \A e \in Dispatchers : e # d => draft'[e] = draft[e] /\ dialling'[e] = dialling[e]
    BY <1>1, <1>11 DEF PassEnds, PassInv, NoDraft
  <2> QED BY <1>2, <1>11, <2>1 DEF Waits, PassEnds
<1>12. ASSUME NEW d \in Dispatchers, PassRollback(d)
       PROVE  UnlockedInv'
  <2>1. PassEnds(d) /\ UNCHANGED <<row, old>>
    BY <1>12 DEF PassRollback
  <2>2. \A x \in unlocked : AtStake(x)' => AtStake(x)
    BY <1>11, <2>1 DEF AtStake
  <2> QED BY <1>3, <1>11, <2>1, <2>2
<1>13. ASSUME NEW d \in Dispatchers, PassCommit(d)
       PROVE  UnlockedInv'
  <2>1. PassEnds(d) /\ row' = Over(draft[d], row) /\ old' = old \ {k[1] : k \in placed[d]}
    BY <1>13 DEF PassCommit
  <2>2. \A x \in unlocked : x \in Contacts /\ x \notin reporting /\ row[x].status \notin {"absent", "opted_out"}
    BY DEF UnlockedInv
  <2>3. \A k \in placed[d] : k[1] \in DOMAIN draft[d] /\ draft[d][k[1]].status = "calling"
    BY <1>1 DEF PassInv
  <2>4. ASSUME NEW x \in unlocked, x \in DOMAIN draft[d]
        PROVE  /\ row'[x].status \notin {"absent", "opted_out"}
               /\ row'[x].status = "pending" => row'[x].waiting
               /\ ~AtStake(x)'
    <3>1. row'[x] = draft[d][x] /\ draft[d][x].status \in Drafts
      BY <1>1, <2>1, <2>4 DEF Over, PassInv
    <3>2. \A e \in Dispatchers : e # d => x \notin DOMAIN draft[e] \cup dialling[e]
      BY <1>1, <2>4 DEF PassInv
    <3> QED BY <1>2, <1>11, <2>1, <2>4, <3>1, <3>2 DEF Waits, AtStake, Drafts, Open
  <2>5. ASSUME NEW x \in unlocked, x \notin DOMAIN draft[d]
        PROVE  row'[x] = row[x] /\ (x \in old => x \in old') /\ (AtStake(x)' => AtStake(x))
    <3>1. row'[x] = row[x]
      BY <1>1, <2>1, <2>2, <2>5 DEF Over, AttemptInv
    <3> QED BY <1>11, <2>1, <2>3, <2>5, <3>1 DEF AtStake
  <2>6. ASSUME NEW x \in unlocked
        PROVE  (row[x].status = "pending" /\ ~row[x].waiting) \/ AtStake(x) => x \in old
    BY DEF UnlockedInv
  <2>7. unlocked' = unlocked /\ reporting' = reporting /\ Waits(draft')
    BY <1>11, <2>1
  <2> QED BY <2>2, <2>4, <2>5, <2>6, <2>7 DEF UnlockedInv, Waits
<1>14. ASSUME NEW k \in Calls, CallEnds(k) \/ Report(k)
       PROVE  UnlockedInv'
  <2>1. CASE CallEnds(k) \/ ReportStray(k)
    BY <1>2, <1>3, <2>1 DEF CallEnds, ReportStray, AtStake, tables, passes
  <2>2. CASE ReportBegins(k)
    <3>1. /\ k[1] \notin unlocked /\ reporting' = reporting \cup {k[1]}
          /\ UNCHANGED <<row, old, draft, dialling, unlocked>>
      BY <2>2 DEF ReportBegins, tables, passes
    <3> QED BY <1>4, <3>1 DEF UnlockedInv
  <2> QED BY <1>14, <2>1, <2>2 DEF Report
<1>15. ASSUME NEW x \in Contacts, ReportEnds(x)
       PROVE  UnlockedInv'
  <2>1. /\ x \in reporting /\ reporting' = reporting \ {x} /\ UNCHANGED <<unlocked, draft, dialling, old>>
        /\ row' = [row EXCEPT ![x] = AfterCall(row[x], vapi[Call(x)])]
    BY <1>15 DEF ReportEnds, Call, passes
  <2>2. \A y \in unlocked : y # x /\ row'[y] = row[y]
    BY <2>1 DEF UnlockedInv
  <2> QED BY <1>4, <2>1, <2>2 DEF UnlockedInv
<1>16. ASSUME NEW x \in Contacts, ReportUnlocks(x)
       PROVE  UnlockedInv'
  <2>1. /\ x \in reporting /\ reporting' = reporting \ {x} /\ unlocked' = unlocked \cup {x}
        /\ UNCHANGED <<row, draft, dialling, old>>
    BY <1>16 DEF ReportUnlocks, tables, passes
  <2>2. /\ row[x].status # "absent" /\ Call(x) \notin reported /\ row[x] \in Rows /\ Call(x) \in Calls
        /\ (AtStake(x) => x \in old) /\ (row[x].status = "opted_out" => Call(x) \in reported)
        /\ (row[x].status = "pending" => row[x].call = 0 \/ Call(x) \in reported \/ x \in old)
    BY <1>1, <2>1 DEF AnswerInv, AttemptInv
  <2>3. row[x].call # 0
    BY <2>2, CallRow
  <2> QED BY <1>4, <2>1, <2>2, <2>3 DEF UnlockedInv
<1>17. ASSUME NEW x \in Contacts, UnlockedEnds(x)
       PROVE  UnlockedInv'
  <2>1. /\ unlocked' = unlocked \ {x} /\ UNCHANGED <<reporting, draft, dialling, old>>
        /\ \A y \in Contacts : y # x => row'[y] = row[y]
    BY <1>1, <1>17 DEF UnlockedEnds, passes, AttemptInv
  <2> QED BY <1>4, <2>1 DEF UnlockedInv
<1>18. ASSUME NEW x \in Contacts, RetryDue(x) \/ GetsOld(x)
       PROVE  UnlockedInv'
  <2>1. CASE RetryDue(x)
    <3>1. /\ x \notin unlocked /\ UNCHANGED <<reports, draft, dialling, old>>
          /\ \A y \in Contacts : y # x => row'[y] = row[y]
      BY <1>1, <2>1 DEF RetryDue, passes, AttemptInv
    <3> QED BY <1>4, <3>1 DEF UnlockedInv
  <2>2. CASE GetsOld(x)
    BY <1>2, <1>3, <2>2 DEF GetsOld, AtStake, passes
  <2> QED BY <1>18, <2>1, <2>2
<1>19. ASSUME ImportWrites \/ BlockWrites \/ DeleteWrites
       PROVE  UnlockedInv'
  <2>1. UNCHANGED <<reports, draft, dialling, old>>
    BY <1>19 DEF ImportWrites, BlockWrites, DeleteWrites, Finish, passes
  <2>2. ASSUME NEW x \in unlocked
        PROVE  row'[x] = row[x] \/ row'[x].status \in {"skipped", "deleted"}
    <3>1. x \in Contacts /\ row[x].status # "absent" /\ row[x] \in Rows
      BY <1>1 DEF UnlockedInv, AttemptInv
    <3>2. CASE ImportWrites
      BY <1>1, <3>1, <3>2 DEF ImportWrites, Finish, RequestInv
    <3>3. CASE BlockWrites
      BY <3>1, <3>3 DEF BlockWrites, Rows, RowsUpTo
    <3>4. CASE DeleteWrites
      BY <3>1, <3>4 DEF DeleteWrites, Rows, RowsUpTo
    <3> QED BY <1>19, <3>2, <3>3, <3>4
  <2> QED BY <1>4, <2>1, <2>2 DEF UnlockedInv
<1>20. ASSUME RequestReads \/ PauseWrites \/ (\E c \in Campaigns : Start(c)) \/ (\E p \in Phones : Unblock(p)) \/ UNCHANGED vars
       PROVE  UnlockedInv'
  BY <1>2, <1>3, <1>20 DEF RequestReads, ImportReads, DeleteReads, BlockReads, PauseReads, Begin, PauseWrites,
                          Finish, Start, Unblock, AtStake, vars, tables, passes
<1>21. ASSUME NEW d \in Dispatchers, PassStep(d)
       PROVE  UnlockedInv'
  <2>1. \A x \in Contacts : x[1] \in Campaigns
    BY DEF Campaigns
  <2> QED BY <1>6, <1>7, <1>9, <1>10, <1>13, <1>21, <2>1 DEF PassStep
<1> QED BY <1>12, <1>14, <1>15, <1>16, <1>17, <1>18, <1>19, <1>20, <1>21 DEF Next, ReportGoesOn, RequestWrites

-----------------------------------------------------------------------------
(* What follows.                                                            *)

\* The invariant of the whole: it holds of every behaviour.
THEOREM CampaignsInvariant == Spec => [](IInv /\ UnlockedInv)
<1>1. Init => UnlockedInv
  BY DEF Init, UnlockedInv, NoDraft
<1> QED BY <1>1, InitIInv, NextIInv, NextUnlocked, PTL DEF Spec

\* However many workers run dispatch over the same campaigns, and whatever the staff and
\* the reports do meanwhile, a campaign has one call in flight.
THEOREM CampaignsOneInFlight == Spec => []OneInFlight
<1>1. IInv => OneInFlight
  BY DEF IInv, FlightInv
<1> QED BY <1>1, CampaignsInvariant, PTL

\* Every counted attempt is charged once: passes that commit, passes that are lost and
\* contacts that are deleted keep the charges and the count together.
THEOREM CampaignsBilledPerAttempt == Spec => []BilledPerAttempt
<1>1. IInv => BilledPerAttempt
  BY DEF IInv, CallInv
<1> QED BY <1>1, CampaignsInvariant, PTL

\* A pass may dial a number that was put on the list behind its back, once.
THEOREM CampaignsListHeeded == Spec => []ListHeeded
<1>1. IInv => ListHeeded
  BY DEF IInv, ListInv, ListHeeded
<1> QED BY <1>1, CampaignsInvariant, PTL

\* Beyond max_attempts a contact is only called where the record of a call was lost.
THEOREM CampaignsCallBudget == Spec => []CallBudget
<1>1. ASSUME IInv, NEW x \in Contacts
      PROVE  Cardinality(Taken(x)) <= MaxAttempts + Cardinality(CallsOf(x, lost))
  <2>1. PassInv /\ AttemptInv /\ CallInv
    BY <1>1 DEF IInv
  <2>2. /\ Cardinality(Taken(x)) = row[x].attempts + Cardinality(CallsOf(x, lost)) + (IF Out(x) THEN 1 ELSE 0)
        /\ row[x].attempts \in Nat /\ Cardinality(CallsOf(x, lost)) \in Nat /\ row[x].attempts <= MaxAttempts
    BY <2>1, CallsFinite, ConstantsAssumption DEF CallInv, AttemptInv, Rows, RowsUpTo, Statuses
  <2>3. CASE Out(x)
    <3>1. PICK d \in Dispatchers : \E k \in placed[d] : k[1] = x
      BY <2>3 DEF Out
    <3>2. draft[d][x] \in Rows /\ draft[d][x].attempts = row[x].attempts + 1
      BY <2>1, <3>1 DEF PassInv, AttemptInv
    <3>3. draft[d][x].attempts <= MaxAttempts
      BY <3>2, ConstantsAssumption DEF Rows, RowsUpTo, Statuses
    <3> QED BY <2>2, <2>3, <3>2, <3>3, ConstantsAssumption
  <2>4. CASE ~Out(x)
    BY <2>2, <2>4, ConstantsAssumption
  <2> QED BY <2>3, <2>4
<1>2. IInv => CallBudget
  BY <1>1 DEF CallBudget
<1> QED BY <1>2, CampaignsInvariant, PTL

\* Whoever has answered is out of every pass's reach, except where the answer came after the
\* call had been given up as stale.  A request that has read the contact as pending may still
\* skip it; it never makes it pending again.
THEOREM CampaignsAnsweredIsFinal == Spec => AnsweredIsFinal
<1> DEFINE Final == \A x \in Contacts :
        row[x].status \in {"done", "opted_out"} /\ x \notin old /\ <<x, row[x].call>> \in reported =>
            row'[x].status \in {row[x].status, "deleted"} \/ Skips(x)
<1>1. ASSUME IInv, UnlockedInv, [Next]_vars, NEW x \in Contacts,
             row[x].status \in {"done", "opted_out"}, x \notin old, <<x, row[x].call>> \in reported
      PROVE  row'[x].status \in {row[x].status, "deleted"} \/ Skips(x)
  <2>1. AnswerInv /\ AttemptInv /\ RequestInv /\ PassInv
    BY <1>1 DEF IInv
  <2>2. row \in [Contacts -> Rows] /\ x \notin reporting /\ ~AtStake(x)
    BY <1>1, <2>1 DEF AnswerInv, HasAnswered, AttemptInv, Call
  <2>3. ASSUME NEW d \in Dispatchers, PassCommit(d)
        PROVE  row'[x] = row[x]
    <3>1. x \notin DOMAIN draft[d] /\ row' = Over(draft[d], row)
      BY <2>2, <2>3 DEF AtStake, PassCommit
    <3> QED BY <2>2, <3>1 DEF Over
  <2>4. ASSUME NEW y \in Contacts, ReportEnds(y) \/ RetryDue(y)
        PROVE  row'[x] = row[x]
    BY <1>1, <2>2, <2>4 DEF ReportEnds, RetryDue
  <2>5. CASE ImportWrites
    BY <1>1, <2>1, <2>5 DEF ImportWrites, Finish, RequestInv
  <2>6. CASE BlockWrites
    <3>1. row'[x] = row[x] \/ Skips(x)
      <4>1. CASE x \in request.of
        <5>1. row'[x] = [row[x] EXCEPT !.status = "skipped"] /\ request.kind = "block"
          BY <2>6, <4>1 DEF BlockWrites, Finish
        <5> QED BY <2>2, <4>1, <5>1 DEF Skips, Rows, RowsUpTo
      <4>2. CASE x \notin request.of
        BY <2>6, <4>2 DEF BlockWrites
      <4> QED BY <4>1, <4>2
    <3> QED BY <3>1
  <2>7. CASE DeleteWrites
    <3>1. row'[x] = row[x] \/ row'[x] = [row[x] EXCEPT !.status = "deleted"]
      BY <2>7 DEF DeleteWrites
    <3> QED BY <2>2, <3>1 DEF Rows, RowsUpTo, Statuses
  <2>8. ASSUME NEW y \in Contacts, UnlockedEnds(y)
        PROVE  row'[x].status = row[x].status
    <3>1. CASE y = x
      <4>1. row[x].status = "done"
        BY <1>1, <2>8, <3>1 DEF UnlockedEnds, UnlockedInv
      <4>2. row' = [row EXCEPT ![x].status = "done"]
        BY <2>8, <3>1, <4>1 DEF UnlockedEnds
      <4> QED BY <2>2, <4>1, <4>2 DEF Rows, RowsUpTo
    <3>2. CASE y # x
      BY <2>8, <3>2 DEF UnlockedEnds
    <3> QED BY <3>1, <3>2
  <2>9. \/ \E d \in Dispatchers : PassCommit(d)
        \/ \E y \in Contacts : ReportEnds(y) \/ UnlockedEnds(y) \/ RetryDue(y)
        \/ ImportWrites \/ BlockWrites \/ DeleteWrites
        \/ UNCHANGED row
    <3>1. ASSUME NEW d \in Dispatchers, PassStep(d) \/ PassRollback(d) PROVE PassCommit(d) \/ UNCHANGED row
      BY <3>1 DEF PassStep, PassRollback, PassBegin, VisitIdle, VisitSkip, VisitComplete, VisitDial, Visit,
                  PostAccepted, Accepted, PostRejected, PostWithoutUse, PostEnds, tables
    <3>2. ASSUME NEW k \in Calls, CallEnds(k) \/ Report(k) PROVE UNCHANGED row
      BY <3>2 DEF CallEnds, Report, ReportBegins, ReportStray, tables
    <3>3. RequestReads => UNCHANGED row
      BY DEF RequestReads, ImportReads, DeleteReads, BlockReads, PauseReads, Begin, tables
    <3> QED BY <1>1, <3>1, <3>2, <3>3
            DEF Next, ReportGoesOn, ReportUnlocks, RequestWrites, PauseWrites, Start, Unblock, GetsOld, vars, tables
  <2> QED BY <2>3, <2>4, <2>5, <2>6, <2>7, <2>8, <2>9
<1>2. IInv /\ UnlockedInv /\ [Next]_vars => [Final]_vars
  BY <1>1
<1> QED BY <1>2, CampaignsInvariant, PTL DEF Spec, AnsweredIsFinal

-----------------------------------------------------------------------------
(* The types that IInv does not speak of.                                   *)

RestInv ==
    /\ campaign \in [Campaigns -> {"draft", "running", "paused", "completed", "stopped"}]
    /\ old \subseteq Contacts
    /\ blocked \in [Phones -> {"no", "manual", "call"}]
    /\ passing \subseteq Dispatchers
    /\ completing \in [Dispatchers -> SUBSET Campaigns]
    /\ \A d \in Dispatchers : \A x, y \in dialling[d] : x = y
    /\ request.kind \in {"none", "import", "block", "delete", "pause", "stop"}
    /\ reported \subseteq Calls
    /\ faults \in 0..MaxFaults
    /\ requests \in 0..MaxRequests

LEMMA RestStep == IInv /\ RestInv /\ [Next]_vars => RestInv'
<1> SUFFICES ASSUME IInv, RestInv, [Next]_vars PROVE RestInv'
  OBVIOUS
<1> USE DEF RestInv, tables, passes, history
<1>1. PassInv /\ AnswerInv
  BY DEF IInv
<1>2. faults \in Nat /\ faults <= MaxFaults /\ requests \in Nat /\ requests <= MaxRequests
  BY ConstantsAssumption
<1>3. /\ Fault => faults' \in 0..MaxFaults
      /\ Asked => requests' \in 0..MaxRequests
  BY <1>2, ConstantsAssumption DEF Fault, Asked
<1>4. ASSUME NEW d \in Dispatchers, PassBegin(d) PROVE RestInv'
  BY <1>4 DEF PassBegin
<1>5. ASSUME NEW d \in Dispatchers, NEW c \in Campaigns, VisitIdle(d, c) \/ VisitSkip(d, c) \/ VisitComplete(d, c)
      PROVE  RestInv'
  <2>1. dialling' = dialling /\ completing' \in [Dispatchers -> SUBSET Campaigns]
    BY <1>5 DEF VisitIdle, VisitSkip, VisitComplete
  <2>2. UNCHANGED <<tables, passing, request, reported, history>>
    BY <1>5 DEF VisitIdle, VisitSkip, VisitComplete, Visit
  <2> QED BY <2>1, <2>2
<1>6. ASSUME NEW d \in Dispatchers, NEW x \in Contacts, VisitDial(d, x[1], x) PROVE RestInv'
  <2>1. dialling' = [dialling EXCEPT ![d] = {x}] /\ completing' = completing
    BY <1>6 DEF VisitDial
  <2>2. \A e \in Dispatchers : \A y, z \in dialling'[e] : y = z
    BY <1>1, <2>1 DEF PassInv
  <2>3. UNCHANGED <<tables, passing, request, reported, history>>
    BY <1>6 DEF VisitDial, Visit
  <2> QED BY <2>1, <2>2, <2>3
<1>7. ASSUME NEW d \in Dispatchers, NEW x \in Contacts, NEW r, PostEnds(d, x, r), UNCHANGED faults \/ Fault
      PROVE  RestInv'
  <2>1. \A e \in Dispatchers : dialling'[e] \subseteq dialling[e]
    BY <1>1, <1>7 DEF PostEnds, PassInv
  <2> QED BY <1>3, <1>7, <2>1 DEF PostEnds
<1>8. ASSUME NEW d \in Dispatchers, PassCommit(d) \/ PassRollback(d) PROVE RestInv'
  <2>1. \A e \in Dispatchers : dialling'[e] \subseteq dialling[e]
    BY <1>1, <1>8 DEF PassCommit, PassRollback, PassEnds, PassInv
  <2>2. faults' \in 0..MaxFaults
    BY <1>3, <1>8 DEF PassCommit, PassRollback
  <2>3. /\ passing' \subseteq passing /\ completing' \in [Dispatchers -> SUBSET Campaigns]
        /\ UNCHANGED <<blocked, request, reported, requests>>
    BY <1>8 DEF PassCommit, PassRollback, PassEnds
  <2>4. old' \subseteq old /\ campaign' \in [Campaigns -> {"draft", "running", "paused", "completed", "stopped"}]
    BY <1>8 DEF PassCommit, PassRollback
  <2> QED BY <2>1, <2>2, <2>3, <2>4
<1>9. ASSUME NEW k \in Calls, CallEnds(k) \/ Report(k) PROVE RestInv'
  BY <1>9 DEF CallEnds, Report, ReportBegins, ReportStray
<1>10. ASSUME NEW x \in Contacts, ReportEnds(x) PROVE RestInv'
  <2>1. Call(x) \in Calls /\ reported' = reported \cup {Call(x)}
    BY <1>1, <1>10 DEF ReportEnds, AnswerInv, HasAnswered, Call
  <2>2. blocked' \in [Phones -> {"no", "manual", "call"}]
    BY <1>10 DEF ReportEnds, ListAfter
  <2> QED BY <1>10, <2>1, <2>2 DEF ReportEnds
<1>11. ASSUME NEW x \in Contacts, ReportUnlocks(x) \/ UnlockedEnds(x) \/ RetryDue(x) \/ GetsOld(x) PROVE RestInv'
  <2>1. ReportUnlocks(x) => reported' \subseteq Calls /\ faults' \in 0..MaxFaults
    BY <1>1, <1>3 DEF ReportUnlocks, AnswerInv, Call
  <2> QED BY <1>11, <2>1 DEF ReportUnlocks, UnlockedEnds, RetryDue, GetsOld
<1>12. ASSUME NEW kind \in {"import", "block", "delete", "pause"}, NEW of, NEW at, Begin(kind, of, at)
       PROVE  RestInv'
  BY <1>3, <1>12 DEF Begin
<1>13. RequestReads => RestInv'
  BY <1>12 DEF RequestReads, ImportReads, DeleteReads, BlockReads, PauseReads
<1>14. RequestWrites => RestInv'
  BY DEF RequestWrites, ImportWrites, BlockWrites, DeleteWrites, PauseWrites, Finish, NoRequest
<1>15. ASSUME NEW c \in Campaigns, Start(c) PROVE RestInv'
  BY <1>15 DEF Start
<1>16. ASSUME NEW p \in Phones, Unblock(p) PROVE RestInv'
  BY <1>16 DEF Unblock
<1>17. UNCHANGED vars => RestInv'
  BY DEF vars
<1>18. ASSUME NEW d \in Dispatchers, PassStep(d) PROVE RestInv'
  <2>1. ASSUME NEW x \in Contacts, PostAccepted(d, x) \/ PostRejected(d, x) \/ PostWithoutUse(d, x)
        PROVE  RestInv'
    BY <1>7, <2>1 DEF PostAccepted, Accepted, PostRejected, PostWithoutUse
  <2> QED BY <1>4, <1>5, <1>6, <1>8, <1>18, <2>1 DEF PassStep
<1> QED BY <1>8, <1>9, <1>10, <1>11, <1>13, <1>14, <1>15, <1>16, <1>17, <1>18 DEF Next, ReportGoesOn

\* Every variable keeps its type.
THEOREM CampaignsTypeCorrect == Spec => []TypeOK
<1>1. Init => RestInv
  BY ConstantsAssumption DEF Init, RestInv, NoRequest
<1>2. ASSUME IInv, UnlockedInv, RestInv
      PROVE  TypeOK
  <2>1. PassInv /\ AttemptInv /\ CallInv /\ ListInv /\ AnswerInv
    BY <1>2 DEF IInv
  <2>2. ASSUME NEW d \in Dispatchers
        PROVE  Cardinality(dialling[d]) <= 1
    <3>1. CASE dialling[d] = {}
      BY <3>1, FS_EmptySet
    <3>2. CASE dialling[d] # {}
      <4>1. PICK x : x \in dialling[d]
        BY <3>2
      <4>2. dialling[d] = {x}
        BY <1>2, <4>1 DEF RestInv
      <4>3. Cardinality({x}) = 1
        BY FS_Singleton
      <4> QED BY <4>2, <4>3
    <3> QED BY <3>1, <3>2
  <2>3. intrusions \in [Contacts -> 0..MaxCalls]
    <3>1. \A x \in Contacts : intrusions[x] \in 0..MaxCalls
      BY <2>1, ConstantsAssumption DEF ListInv
    <3> QED BY <2>1, <3>1 DEF ListInv
  <2>4. \A d \in Dispatchers :
            /\ todo[d] \cup completing[d] \cup locked[d] \subseteq Campaigns
            /\ dialling[d] \subseteq Contacts /\ placed[d] \subseteq Calls
            /\ DOMAIN draft[d] \subseteq Contacts
            /\ \A x \in DOMAIN draft[d] : draft[d][x] \in Rows
    BY <1>2, <2>1 DEF PassInv, RestInv
  <2>5. reporting \subseteq Contacts /\ unlocked \subseteq Contacts /\ row \in [Contacts -> Rows]
    BY <1>2, <2>1 DEF AnswerInv, UnlockedInv, AttemptInv
  <2>6. billed \subseteq Calls /\ lost \subseteq Calls /\ vapi \in [Calls -> {"none", "live"} \cup Ends]
    BY <2>1 DEF CallInv
  <2> QED BY <1>2, <2>2, <2>3, <2>4, <2>5, <2>6 DEF TypeOK, TypesWith, RestInv
<1> QED BY <1>1, <1>2, RestStep, CampaignsInvariant, PTL DEF Spec

-----------------------------------------------------------------------------
(* Dialogbot's own campaigns.  A pass that has released its locks may meet     *)
(* another one at the same contact, and a late report may reopen a contact that *)
(* is being dialled.  What stays is that no row, and no row a pass has drafted, *)
(* counts more attempts than Vapi has taken calls for the contact.             *)

\* The rows that the calls taken for the contact explain.
Explained(x) == RowsUpTo(Cardinality(Taken(x)))

NumberedInv ==
    /\ vapi \in [Calls -> {"none", "live"} \cup Ends]
    /\ \A x \in Contacts, n \in 1..MaxCalls : vapi[<<x, n>>] # "none" <=> n <= Cardinality(Taken(x))

RowInv ==
    /\ row = [x \in Contacts |-> row[x]]
    /\ \A x \in Contacts : row[x] \in Explained(x)
    /\ \A x \in reporting : x \in Contacts /\ row[x].call # 0

DraftInv ==
    /\ draft = [d \in Dispatchers |-> draft[d]]
    /\ \A d \in Dispatchers : \A x \in DOMAIN draft[d] : x \in Contacts /\ draft[d][x] \in Explained(x)

\* The call of a pass that has marked its contact is a further one.
ReadInv ==
    /\ sale \in [Dispatchers -> [read : 0..MaxCalls, marked : BOOLEAN]]
    /\ \A d \in Dispatchers : \A x \in dialling[d] :
        /\ sale[d].read <= Cardinality(Taken(x))
        /\ sale[d].marked /\ placed[d] # {} => sale[d].read < Cardinality(Taken(x))

UnwantedInv ==
    /\ intrusions \in [Contacts -> Nat]
    /\ \A x \in Contacts : intrusions[x] <= Cardinality(Taken(x))

\* What a pass keeps of itself, and the tables.
PassTypes ==
    /\ passing \subseteq Dispatchers
    /\ locked \in [Dispatchers -> SUBSET Campaigns]
    /\ todo \in [Dispatchers -> SUBSET Campaigns]
    /\ completing \in [Dispatchers -> SUBSET Campaigns]
    /\ dialling \in [Dispatchers -> SUBSET Contacts]
    /\ \A d \in Dispatchers : \A x, y \in dialling[d] : x = y
    /\ placed \in [Dispatchers -> SUBSET Calls]

TableTypes ==
    /\ campaign \in [Campaigns -> {"draft", "running", "paused", "completed", "stopped"}]
    /\ old \subseteq Contacts /\ billed \subseteq Calls /\ lost \subseteq Calls /\ reported \subseteq Calls
    /\ blocked \in [Phones -> {"no", "manual", "call"}]
    /\ request.kind \in {"none", "import", "block", "delete", "pause", "stop"} /\ request.of \subseteq Contacts
    /\ faults \in 0..MaxFaults /\ requests \in 0..MaxRequests
    /\ internal \subseteq Campaigns /\ basis \subseteq Phones

PlainInv == PassTypes /\ TableTypes
CountInv == NumberedInv /\ RowInv /\ DraftInv /\ ReadInv /\ UnwantedInv

SalesInv == PlainInv /\ CountInv

\* There are no more calls than numbers for them.
LEMMA TakenBounded ==
    ASSUME NEW x \in Contacts
    PROVE  Cardinality(Taken(x)) \in 0..MaxCalls
<1>1. IsFiniteSet({x} \X (1..MaxCalls)) /\ Cardinality({x} \X (1..MaxCalls)) = MaxCalls
  <2>1. PICK S : S = {x} /\ IsFiniteSet(S) /\ Cardinality(S) = 1
    BY FS_Singleton
  <2>2. PICK T : T = 1..MaxCalls /\ IsFiniteSet(T) /\ Cardinality(T) = MaxCalls
    BY ConstantsAssumption, FS_Interval
  <2>3. IsFiniteSet(S \X T) /\ Cardinality(S \X T) = Cardinality(S) * Cardinality(T)
    BY <2>1, <2>2, FS_Product
  <2>4. Cardinality(S) * Cardinality(T) = MaxCalls
    BY <2>1, <2>2, ConstantsAssumption
  <2> QED BY <2>1, <2>2, <2>3, <2>4
<1>2. Taken(x) \in SUBSET ({x} \X (1..MaxCalls))
  BY DEF Taken, Calls
<1>3. Cardinality(Taken(x)) <= MaxCalls
  BY <1>1, <1>2, FS_Subset
<1> QED BY <1>3, TakenFinite, ConstantsAssumption

LEMMA MoreRows ==
    ASSUME NEW m \in Nat, NEW n \in Nat, m <= n
    PROVE  RowsUpTo(m) \subseteq RowsUpTo(n)
<1>1. 0..m \subseteq 0..n
  OBVIOUS
<1> QED BY <1>1 DEF RowsUpTo

\* What is written besides the count keeps a row explained.
LEMMA WrittenRow ==
    ASSUME NEW n \in Nat, NEW r \in RowsUpTo(n)
    PROVE  /\ \A s \in Statuses : /\ [r EXCEPT !.status = s] \in RowsUpTo(n)
                                  /\ [r EXCEPT !.status = s].call = r.call
           /\ \A s \in Statuses, w \in BOOLEAN : [r EXCEPT !.status = s, !.waiting = w] \in RowsUpTo(n)
           /\ \A w \in BOOLEAN : /\ [r EXCEPT !.waiting = w] \in RowsUpTo(n)
                                 /\ [r EXCEPT !.waiting = w].call = r.call
           /\ \A a \in 0..n, k \in 0..MaxCalls : [r EXCEPT !.attempts = a, !.call = k] \in RowsUpTo(n)
           /\ \A a \in 0..n, k \in 0..MaxCalls, s \in Statuses :
                [r EXCEPT !.attempts = a, !.status = s, !.call = k] \in RowsUpTo(n)
           /\ AfterAttempt(r) \in RowsUpTo(n) /\ AfterAttempt(r).call = r.call
<1>1. ASSUME NEW s \in Statuses
      PROVE  [r EXCEPT !.status = s] \in RowsUpTo(n) /\ [r EXCEPT !.status = s].call = r.call
  BY DEF RowsUpTo
<1>2. ASSUME NEW s \in Statuses, NEW w \in BOOLEAN
      PROVE  /\ [r EXCEPT !.status = s, !.waiting = w] \in RowsUpTo(n)
             /\ [r EXCEPT !.status = s, !.waiting = w].call = r.call
  BY DEF RowsUpTo
<1>3. ASSUME NEW w \in BOOLEAN
      PROVE  [r EXCEPT !.waiting = w] \in RowsUpTo(n) /\ [r EXCEPT !.waiting = w].call = r.call
  BY DEF RowsUpTo
<1>4. ASSUME NEW a \in 0..n, NEW k \in 0..MaxCalls
      PROVE  [r EXCEPT !.attempts = a, !.call = k] \in RowsUpTo(n)
  BY DEF RowsUpTo
<1>5. ASSUME NEW a \in 0..n, NEW k \in 0..MaxCalls, NEW s \in Statuses
      PROVE  [r EXCEPT !.attempts = a, !.status = s, !.call = k] \in RowsUpTo(n)
  BY DEF RowsUpTo
<1>6. "pending" \in Statuses /\ "no_answer" \in Statuses
  BY DEF Statuses, Open
<1>7. AfterAttempt(r) \in RowsUpTo(n) /\ AfterAttempt(r).call = r.call
  BY <1>1, <1>2, <1>6 DEF AfterAttempt
<1> QED BY <1>1, <1>2, <1>3, <1>4, <1>5, <1>7

\* Calls are never untaken.
LEMMA SameCalls ==
    ASSUME NumberedInv, \/ vapi' = vapi
                        \/ \E k \in Calls, e \in Ends : vapi[k] = "live" /\ vapi' = [vapi EXCEPT ![k] = e]
    PROVE  NumberedInv' /\ \A x \in Contacts : Taken(x)' = Taken(x)
<1>1. /\ vapi' \in [Calls -> {"none", "live"} \cup Ends]
      /\ \A k \in Calls : vapi'[k] # "none" <=> vapi[k] # "none"
  <2>1. vapi \in [Calls -> {"none", "live"} \cup Ends]
    BY DEF NumberedInv
  <2> QED BY <2>1 DEF Ends
<1>2. \A x \in Contacts : Taken(x)' = Taken(x)
  BY <1>1 DEF Taken
<1>3. ASSUME NEW x \in Contacts, NEW n \in 1..MaxCalls
      PROVE  vapi'[<<x, n>>] # "none" <=> n <= Cardinality(Taken(x))
  <2>1. <<x, n>> \in Calls
    BY DEF Calls
  <2> QED BY <1>1, <2>1 DEF NumberedInv
<1> QED BY <1>1, <1>2, <1>3 DEF NumberedInv

\* A call that is taken is a new one, and one more.
LEMMA TakeCounts ==
    ASSUME NumberedInv, NEW x \in Contacts, NEW u, Take(x, u)
    PROVE  /\ NumberedInv'
           /\ Cardinality(Taken(x)) + 1 \in 1..MaxCalls
           /\ Cardinality(Taken(x)') = Cardinality(Taken(x)) + 1
           /\ \A y \in Contacts : y # x => Taken(y)' = Taken(y)
<1> DEFINE k == <<x, Cardinality(Taken(x)) + 1>>
<1>1. k \in Calls /\ vapi' = [vapi EXCEPT ![k] = "live"]
  BY DEF Take
<1>2. IsFiniteSet(Taken(x)) /\ Cardinality(Taken(x)) \in Nat
  BY TakenFinite
<1>3. Cardinality(Taken(x)) + 1 \in 1..MaxCalls
  BY <1>1 DEF Calls
<1>4. vapi[k] = "none"
  BY <1>2, <1>3 DEF NumberedInv
<1>5. /\ vapi' \in [Calls -> {"none", "live"} \cup Ends]
      /\ \A j \in Calls : vapi'[j] # "none" <=> vapi[j] # "none" \/ j = k
  BY <1>1 DEF NumberedInv
<1>6. k \notin Taken(x) /\ Taken(x)' = Taken(x) \cup {k}
  BY <1>1, <1>4, <1>5 DEF Taken
<1>7. Cardinality(Taken(x)') = Cardinality(Taken(x)) + 1
  BY <1>2, <1>6, FS_AddElement
<1>8. \A y \in Contacts : y # x => Taken(y)' = Taken(y)
  BY <1>1, <1>5 DEF Taken
<1>9. ASSUME NEW y \in Contacts, NEW n \in 1..MaxCalls
      PROVE  vapi'[<<y, n>>] # "none" <=> n <= Cardinality(Taken(y)')
  <2>1. <<y, n>> \in Calls /\ n \in Nat
    BY ConstantsAssumption DEF Calls
  <2>2. vapi[<<y, n>>] # "none" <=> n <= Cardinality(Taken(y))
    BY DEF NumberedInv
  <2>3. CASE y = x
    BY <1>2, <1>5, <1>7, <2>1, <2>2, <2>3
  <2>4. CASE y # x
    BY <1>5, <1>8, <2>1, <2>2, <2>4
  <2> QED BY <2>3, <2>4
<1> QED BY <1>3, <1>5, <1>7, <1>8, <1>9 DEF NumberedInv

\* What a step does to the calls.
CallsGrow ==
    /\ NumberedInv'
    /\ \A x \in Contacts : Cardinality(Taken(x)) <= Cardinality(Taken(x)')

LEMMA TakeGrows ==
    ASSUME NumberedInv, NEW x \in Contacts, NEW u, Take(x, u)
    PROVE  CallsGrow
<1>1. NumberedInv' /\ Cardinality(Taken(x)') = Cardinality(Taken(x)) + 1
  BY TakeCounts
<1>2. \A y \in Contacts : y # x => Taken(y)' = Taken(y)
  BY TakeCounts
<1>3. \A y \in Contacts : Cardinality(Taken(y)) \in Nat
  BY TakenFinite
<1> QED BY <1>1, <1>2, <1>3 DEF CallsGrow

LEMMA SameGrows ==
    ASSUME NumberedInv, UNCHANGED vapi
    PROVE  CallsGrow /\ \A x \in Contacts : Taken(x)' = Taken(x) /\ Explained(x)' = Explained(x)
<1>1. NumberedInv' /\ \A x \in Contacts : Taken(x)' = Taken(x)
  BY SameCalls
<1>2. \A x \in Contacts : Cardinality(Taken(x)) \in Nat
  BY TakenFinite
<1> QED BY <1>1, <1>2 DEF CallsGrow, Explained

\* A row that was explained is so with more calls.
LEMMA MoreExplained ==
    ASSUME CallsGrow
    PROVE  \A x \in Contacts : /\ Cardinality(Taken(x)) \in Nat /\ Cardinality(Taken(x)') \in Nat
                               /\ Explained(x) \subseteq Explained(x)'
<1> SUFFICES ASSUME NEW x \in Contacts
             PROVE  /\ Cardinality(Taken(x)) \in Nat /\ Cardinality(Taken(x)') \in Nat
                    /\ Explained(x) \subseteq Explained(x)'
  OBVIOUS
<1>1. Cardinality(Taken(x)) \in Nat
  BY TakenFinite
<1>2. Cardinality(Taken(x)') \in Nat
  <2>1. IsFiniteSet({x} \X (1..MaxCalls))
    <3>1. IsFiniteSet(1..MaxCalls)
      BY ConstantsAssumption, FS_Interval
    <3> QED BY <3>1, FS_Singleton, FS_Product
  <2>2. Taken(x)' \in SUBSET ({x} \X (1..MaxCalls))
    BY DEF Taken, Calls
  <2> QED BY <2>1, <2>2, FS_Subset, FS_CardinalityType
<1>3. Cardinality(Taken(x)) <= Cardinality(Taken(x)')
  BY DEF CallsGrow
<1>4. PICK m, n \in Nat : m = Cardinality(Taken(x)) /\ n = Cardinality(Taken(x)') /\ m <= n
  BY <1>1, <1>2, <1>3
<1>5. RowsUpTo(m) \subseteq RowsUpTo(n)
  BY <1>4, MoreRows
<1>6. Explained(x) = RowsUpTo(m) /\ Explained(x)' = RowsUpTo(n)
  BY <1>4 DEF Explained, RowsUpTo
<1> QED BY <1>1, <1>2, <1>5, <1>6

\* The parts of the invariant a step may leave alone.
LEMMA RowKept ==
    ASSUME RowInv, CallsGrow, UNCHANGED row, reporting' \subseteq reporting
    PROVE  RowInv'
BY MoreExplained DEF RowInv

LEMMA DraftKept ==
    ASSUME DraftInv, CallsGrow,
           draft' = [d \in Dispatchers |-> draft'[d]],
           \A d \in Dispatchers : \A x \in DOMAIN draft'[d] :
                (x \in DOMAIN draft[d] /\ draft'[d][x] = draft[d][x]) \/ (x \in Contacts /\ draft'[d][x] \in Explained(x)')
    PROVE  DraftInv'
BY MoreExplained DEF DraftInv

LEMMA ReadKept ==
    ASSUME ReadInv, CallsGrow, \A d \in Dispatchers : dialling[d] \subseteq Contacts, UNCHANGED sale,
           \A d \in Dispatchers : \/ dialling'[d] = {}
                                  \/ dialling'[d] \subseteq dialling[d] /\ (placed'[d] # {} => placed[d] # {})
    PROVE  ReadInv'
<1>1. ASSUME NEW d \in Dispatchers, NEW x \in dialling'[d]
      PROVE  /\ sale'[d].read <= Cardinality(Taken(x)')
             /\ sale'[d].marked /\ placed'[d] # {} => sale'[d].read < Cardinality(Taken(x)')
  <2>1. x \in dialling[d] /\ x \in Contacts /\ (placed'[d] # {} => placed[d] # {})
    BY <1>1
  <2>2. /\ Cardinality(Taken(x)) \in Nat /\ Cardinality(Taken(x)') \in Nat
        /\ Cardinality(Taken(x)) <= Cardinality(Taken(x)')
    BY <2>1, MoreExplained DEF CallsGrow
  <2>3. /\ sale[d].read \in 0..MaxCalls /\ sale[d].read <= Cardinality(Taken(x))
        /\ sale[d].marked /\ placed[d] # {} => sale[d].read < Cardinality(Taken(x))
    BY <2>1 DEF ReadInv
  <2>4. sale[d].read \in Nat
    BY <2>3, ConstantsAssumption
  <2> QED BY <2>1, <2>2, <2>3, <2>4
<1> QED BY <1>1 DEF ReadInv

LEMMA UnwantedKept ==
    ASSUME UnwantedInv, CallsGrow, intrusions' \in [Contacts -> Nat],
           \A x \in Contacts : intrusions'[x] <= intrusions[x]
    PROVE  UnwantedInv'
<1>1. ASSUME NEW x \in Contacts
      PROVE  intrusions'[x] <= Cardinality(Taken(x)')
  <2>1. /\ Cardinality(Taken(x)) \in Nat /\ Cardinality(Taken(x)') \in Nat
        /\ Cardinality(Taken(x)) <= Cardinality(Taken(x)')
    BY MoreExplained DEF CallsGrow
  <2>2. intrusions[x] \in Nat /\ intrusions'[x] \in Nat /\ intrusions[x] <= Cardinality(Taken(x))
    BY DEF UnwantedInv
  <2> QED BY <2>1, <2>2
<1> QED BY <1>1 DEF UnwantedInv

\* A step that touches no row, no draft and no call.
LEMMA StillCounts ==
    ASSUME CountInv, \A d \in Dispatchers : dialling[d] \subseteq Contacts,
           \/ vapi' = vapi
           \/ \E k \in Calls, e \in Ends : vapi[k] = "live" /\ vapi' = [vapi EXCEPT ![k] = e],
           UNCHANGED <<row, draft, dialling, placed, reports, sale>>,
           intrusions' \in [Contacts -> Nat], \A x \in Contacts : intrusions'[x] <= intrusions[x]
    PROVE  CountInv'
<1>1. NumberedInv /\ RowInv /\ DraftInv /\ ReadInv /\ UnwantedInv
  BY DEF CountInv
<1>2. CallsGrow
  <2>1. NumberedInv' /\ \A x \in Contacts : Taken(x)' = Taken(x)
    BY <1>1, SameCalls
  <2>2. \A x \in Contacts : Cardinality(Taken(x)) \in Nat
    BY TakenFinite
  <2> QED BY <2>1, <2>2 DEF CallsGrow
<1>3. RowInv'
  BY <1>1, <1>2, RowKept
<1>4. DraftInv'
  <2>1. draft' = [d \in Dispatchers |-> draft'[d]]
    BY <1>1 DEF DraftInv
  <2> QED BY <1>1, <1>2, <2>1, DraftKept
<1>5. ReadInv'
  BY <1>1, <1>2, ReadKept
<1>6. UnwantedInv'
  BY <1>1, <1>2, UnwantedKept
<1> QED BY <1>2, <1>3, <1>4, <1>5, <1>6 DEF CountInv, CallsGrow

\* What a pass or a request writes over a row, calls and attempts apart.
LEMMA WrittenExplained ==
    ASSUME RowInv, NEW x \in Contacts
    PROVE  /\ row[x] \in Explained(x)
           /\ \A s \in Statuses : /\ [row[x] EXCEPT !.status = s] \in Explained(x)
                                  /\ [row[x] EXCEPT !.status = s].call = row[x].call
           /\ \A s \in Statuses, w \in BOOLEAN : [row[x] EXCEPT !.status = s, !.waiting = w] \in Explained(x)
           /\ \A w \in BOOLEAN : /\ [row[x] EXCEPT !.waiting = w] \in Explained(x)
                                 /\ [row[x] EXCEPT !.waiting = w].call = row[x].call
           /\ AfterAttempt(row[x]) \in Explained(x) /\ AfterAttempt(row[x]).call = row[x].call
<1>1. PICK n \in Nat : n = Cardinality(Taken(x))
  BY TakenFinite
<1>2. Explained(x) = RowsUpTo(n)
  BY <1>1 DEF Explained
<1>3. PICK r \in RowsUpTo(n) : r = row[x]
  BY <1>2 DEF RowInv
<1>4. /\ \A s \in Statuses : /\ [r EXCEPT !.status = s] \in RowsUpTo(n)
                             /\ [r EXCEPT !.status = s].call = r.call
      /\ \A s \in Statuses, w \in BOOLEAN : [r EXCEPT !.status = s, !.waiting = w] \in RowsUpTo(n)
      /\ \A w \in BOOLEAN : /\ [r EXCEPT !.waiting = w] \in RowsUpTo(n)
                            /\ [r EXCEPT !.waiting = w].call = r.call
      /\ AfterAttempt(r) \in RowsUpTo(n) /\ AfterAttempt(r).call = r.call
  BY WrittenRow
<1> QED BY <1>2, <1>3, <1>4

LEMMA SkippedExplained ==
    ASSUME RowInv, NEW S \in SUBSET Contacts
    PROVE  \A x \in DOMAIN Skipped(S) : x \in Contacts /\ Skipped(S)[x] \in Explained(x)
<1>1. "skipped" \in Statuses
  BY DEF Statuses
<1>2. DOMAIN Skipped(S) = S /\ \A x \in S : Skipped(S)[x] = [row[x] EXCEPT !.status = "skipped"]
  BY SkippedRows
<1>3. ASSUME NEW x \in S
      PROVE  x \in Contacts /\ [row[x] EXCEPT !.status = "skipped"] \in Explained(x)
  BY <1>1, WrittenExplained
<1> QED BY <1>2, <1>3

\* The row of a contact whose call was taken.
LEMMA TakenRow ==
    ASSUME RowInv, NumberedInv, NEW x \in Contacts, NEW u, Take(x, u), NEW read \in Nat,
           read <= Cardinality(Taken(x)), NEW n, n = Cardinality(Taken(x)) + 1
    PROVE  [row[x] EXCEPT !.attempts = read + 1, !.status = "calling", !.call = n] \in Explained(x)'
<1>1. PICK m \in Nat : m = Cardinality(Taken(x))
  BY TakenFinite
<1>2. Cardinality(Taken(x)') = m + 1 /\ m + 1 \in 1..MaxCalls
  BY <1>1, TakeCounts
<1>3. row[x] \in RowsUpTo(m + 1)
  <2>1. row[x] \in RowsUpTo(m)
    BY <1>1 DEF RowInv, Explained
  <2>2. m \in Nat /\ m + 1 \in Nat /\ m <= m + 1
    OBVIOUS
  <2> QED BY <2>1, <2>2, MoreRows
<1>4. read + 1 \in 0..(m + 1) /\ n \in 0..MaxCalls /\ "calling" \in Statuses /\ m + 1 \in Nat
  BY <1>1, <1>2, ConstantsAssumption DEF Statuses, Open
<1>5. PICK r \in RowsUpTo(m + 1) : r = row[x]
  BY <1>3
<1>6. [r EXCEPT !.attempts = read + 1, !.status = "calling", !.call = n] \in RowsUpTo(m + 1)
  BY <1>4, WrittenRow
<1>7. Explained(x)' = RowsUpTo(m + 1)
  BY <1>2 DEF Explained, RowsUpTo
<1> QED BY <1>5, <1>6, <1>7

\* A visit drafts w and what it sweeps; it may load the next contact.
LEMMA VisitCounts ==
    ASSUME CountInv, PlainInv, NEW d \in Dispatchers, NEW c \in Campaigns, NEW w, Visit(d, c, w),
           \A x \in DOMAIN w : x \in Contacts /\ w[x] \in Explained(x),
           \/ UNCHANGED <<dialling, sale>>
           \/ \E x \in Contacts : dialling' = [dialling EXCEPT ![d] = {x}] /\ Loads(d, x)
    PROVE  CountInv'
<1>1. NumberedInv /\ RowInv /\ DraftInv /\ ReadInv /\ UnwantedInv
  BY DEF CountInv
<1>2. /\ UNCHANGED <<row, vapi, placed, reports, intrusions>>
      /\ draft' = [draft EXCEPT ![d] = Over(w, Over(Swept(c), draft[d]))]
  BY DEF Visit, tables, history
<1>3. CallsGrow /\ \A x \in Contacts : Taken(x)' = Taken(x) /\ Explained(x)' = Explained(x)
  BY <1>1, <1>2, SameGrows
<1>4. RowInv'
  BY <1>1, <1>2, <1>3, RowKept
<1>5. DraftInv'
  <2>1. draft' = [e \in Dispatchers |-> draft'[e]] /\ \A e \in Dispatchers : e # d => draft'[e] = draft[e]
    BY <1>1, <1>2 DEF DraftInv
  <2>2. draft'[d] = Over(w, Over(Swept(c), draft[d]))
    BY <1>1, <1>2 DEF DraftInv
  <2>3. \A x \in Stale(c) : x \in Contacts /\ Swept(c)[x] \in Explained(x)
    BY <1>1, WrittenExplained DEF Swept, Stale, ContactsOf
  <2>4. ASSUME NEW x \in DOMAIN draft'[d]
        PROVE  (x \in DOMAIN draft[d] /\ draft'[d][x] = draft[d][x]) \/ (x \in Contacts /\ draft'[d][x] \in Explained(x)')
    <3>1. DOMAIN Swept(c) = Stale(c)
      BY DEF Swept
    <3>2. CASE x \in DOMAIN w
      BY <1>3, <2>2, <3>2 DEF Over
    <3>3. CASE x \notin DOMAIN w /\ x \in Stale(c)
      BY <1>3, <2>2, <2>3, <3>1, <3>3 DEF Over
    <3>4. CASE x \notin DOMAIN w /\ x \notin Stale(c)
      BY <2>2, <2>4, <3>1, <3>4 DEF Over
    <3> QED BY <3>2, <3>3, <3>4
  <2> QED BY <1>1, <1>3, <2>1, <2>4, DraftKept
<1>6. ReadInv'
  <2>1. \A e \in Dispatchers : dialling[e] \subseteq Contacts
    BY DEF PlainInv, PassTypes
  <2>2. CASE UNCHANGED <<dialling, sale>>
    BY <1>1, <1>2, <1>3, <2>1, <2>2, ReadKept
  <2>3. ASSUME NEW x \in Contacts, dialling' = [dialling EXCEPT ![d] = {x}], Loads(d, x)
        PROVE  ReadInv'
    <3>1. row[x].attempts \in 0..Cardinality(Taken(x))
      BY <1>1 DEF RowInv, Explained, RowsUpTo
    <3>2. row[x].attempts \in 0..MaxCalls /\ row[x].attempts <= Cardinality(Taken(x))
      BY <3>1, TakenBounded, ConstantsAssumption
    <3>3. sale' = [sale EXCEPT ![d] = [read |-> row[x].attempts, marked |-> FALSE]]
      BY <2>3 DEF Loads
    <3>4. sale' \in [Dispatchers -> [read : 0..MaxCalls, marked : BOOLEAN]]
      BY <1>1, <3>2, <3>3 DEF ReadInv
    <3>5. /\ sale'[d].read = row[x].attempts /\ ~sale'[d].marked
          /\ \A e \in Dispatchers : e # d => sale'[e] = sale[e]
      BY <1>1, <3>3 DEF ReadInv
    <3>6. /\ \A y \in dialling'[d] : y = x
          /\ \A e \in Dispatchers : e # d => dialling'[e] = dialling[e]
      BY <2>3 DEF PlainInv, PassTypes
    <3>7. ASSUME NEW e \in Dispatchers, NEW y \in dialling'[e]
          PROVE  /\ sale'[e].read <= Cardinality(Taken(y)')
                 /\ sale'[e].marked /\ placed'[e] # {} => sale'[e].read < Cardinality(Taken(y)')
      <4>1. CASE e = d
        BY <1>3, <3>2, <3>5, <3>6, <3>7, <4>1
      <4>2. CASE e # d
        <5>1. y \in dialling[e] /\ y \in Contacts
          BY <2>1, <3>6, <3>7, <4>2
        <5> QED BY <1>1, <1>2, <1>3, <3>5, <4>2, <5>1 DEF ReadInv
      <4> QED BY <4>1, <4>2
    <3> QED BY <3>4, <3>7 DEF ReadInv
  <2> QED BY <2>2, <2>3
<1>7. UnwantedInv'
  BY <1>1, <1>2, <1>3 DEF UnwantedInv
<1> QED BY <1>3, <1>4, <1>5, <1>6, <1>7 DEF CountInv, CallsGrow

LEMMA UnwantedTaken ==
    ASSUME UnwantedInv, NumberedInv, NEW x \in Contacts, NEW u, Take(x, u)
    PROVE  UnwantedInv'
<1>1. /\ \A y \in Contacts : Cardinality(Taken(y)) \in Nat
      /\ Cardinality(Taken(x)') = Cardinality(Taken(x)) + 1
      /\ \A y \in Contacts : y # x => Taken(y)' = Taken(y)
  BY TakenFinite, TakeCounts
<1>2. /\ intrusions' \in [Contacts -> Nat]
      /\ intrusions'[x] \in {intrusions[x], intrusions[x] + 1}
      /\ \A y \in Contacts : y # x => intrusions'[y] = intrusions[y]
  BY DEF Take, UnwantedInv
<1>3. ASSUME NEW y \in Contacts
      PROVE  intrusions'[y] <= Cardinality(Taken(y)')
  <2>1. intrusions[y] \in Nat /\ intrusions[y] <= Cardinality(Taken(y)) /\ Cardinality(Taken(y)) \in Nat
    BY <1>1 DEF UnwantedInv
  <2>2. CASE y = x
    BY <1>1, <1>2, <2>1, <2>2
  <2>3. CASE y # x
    BY <1>1, <1>2, <2>1, <2>3
  <2> QED BY <2>2, <2>3
<1> QED BY <1>2, <1>3 DEF UnwantedInv

\* Vapi has answered a customer's call, or has not: the row r is drafted.
LEMMA PostCounts ==
    ASSUME CountInv, PlainInv, NEW d \in Dispatchers, NEW x \in Contacts, NEW r, PostEnds(d, x, r),
           CallsGrow, UnwantedInv', sale' = sale, r \in Explained(x)',
           \A e \in Dispatchers : e # d => placed'[e] = placed[e]
    PROVE  CountInv'
<1>1. NumberedInv /\ RowInv /\ DraftInv /\ ReadInv /\ UnwantedInv
  BY DEF CountInv
<1>2. /\ UNCHANGED <<row, reports>>
      /\ draft' = [draft EXCEPT ![d] = Over([y \in {x} |-> r], draft[d])]
      /\ dialling' = [dialling EXCEPT ![d] = {}]
  BY DEF PostEnds, tables
<1>3. RowInv'
  BY <1>1, <1>2, RowKept
<1>4. DraftInv'
  <2>1. draft' = [e \in Dispatchers |-> draft'[e]] /\ \A e \in Dispatchers : e # d => draft'[e] = draft[e]
    BY <1>1, <1>2 DEF DraftInv
  <2>2. draft'[d] = Over([y \in {x} |-> r], draft[d])
    BY <1>1, <1>2 DEF DraftInv
  <2>3. ASSUME NEW y \in DOMAIN draft'[d]
        PROVE  (y \in DOMAIN draft[d] /\ draft'[d][y] = draft[d][y]) \/ (y \in Contacts /\ draft'[d][y] \in Explained(y)')
    <3>1. CASE y = x
      BY <2>2, <3>1 DEF Over
    <3>2. CASE y # x
      BY <2>2, <2>3, <3>2 DEF Over
    <3> QED BY <3>1, <3>2
  <2> QED BY <1>1, <2>1, <2>3, DraftKept
<1>5. ReadInv'
  <2>1. \A e \in Dispatchers : \/ dialling'[e] = {}
                               \/ dialling'[e] \subseteq dialling[e] /\ (placed'[e] # {} => placed[e] # {})
    BY <1>2 DEF PlainInv, PassTypes
  <2> QED BY <1>1, <2>1, ReadKept DEF PlainInv, PassTypes
<1> QED BY <1>3, <1>4, <1>5 DEF CountInv, CallsGrow

\* The answers to a customer's POST.
LEMMA PostsCount ==
    ASSUME CountInv, PlainInv, NEW d \in Dispatchers, NEW x \in Contacts, sale' = sale,
           Accepted(d, x, sale[d].read) \/ PostRejected(d, x) \/ PostWithoutUse(d, x)
    PROVE  CountInv'
<1>1. NumberedInv /\ RowInv /\ DraftInv /\ ReadInv /\ UnwantedInv
  BY DEF CountInv
<1>2. CASE Accepted(d, x, sale[d].read)
  <2>1. PICK n : n = Cardinality(Taken(x)) + 1
    OBVIOUS
  <2>2. PICK read : read = sale[d].read
    OBVIOUS
  <2> DEFINE r == [row[x] EXCEPT !.attempts = read + 1, !.status = "calling", !.call = n]
  <2>3. Take(x, OnTheList(x)) /\ PostEnds(d, x, r) /\ placed' = [placed EXCEPT ![d] = placed[d] \cup {<<x, n>>}]
    BY <1>2, <2>1, <2>2 DEF Accepted
  <2>4. x \in dialling[d]
    BY <2>3 DEF PostEnds
  <2>5. read \in Nat /\ read <= Cardinality(Taken(x))
    BY <1>1, <2>2, <2>4, ConstantsAssumption DEF ReadInv
  <2>6. r \in Explained(x)'
    BY <1>1, <2>1, <2>3, <2>5, TakenRow
  <2>7. CallsGrow /\ UnwantedInv'
    BY <1>1, <2>3, TakeGrows, UnwantedTaken
  <2>8. \A e \in Dispatchers : e # d => placed'[e] = placed[e]
    BY <2>3 DEF PlainInv, PassTypes
  <2> HIDE DEF r
  <2> QED BY <2>3, <2>6, <2>7, <2>8, PostCounts
<1>3. CASE PostRejected(d, x)
  <2> DEFINE r == [row[x] EXCEPT !.status = "failed"]
  <2>1. PostEnds(d, x, r) /\ UNCHANGED <<placed, vapi, intrusions>>
    BY <1>3 DEF PostRejected
  <2>2. CallsGrow /\ Explained(x)' = Explained(x)
    BY <1>1, <2>1, SameGrows
  <2>3. "failed" \in Statuses
    BY DEF Statuses
  <2>4. r \in Explained(x)'
    BY <1>1, <2>2, <2>3, WrittenExplained
  <2>5. UnwantedInv'
    BY <1>1, <2>1, <2>2, UnwantedKept DEF UnwantedInv
  <2> HIDE DEF r
  <2> QED BY <2>1, <2>2, <2>4, <2>5, PostCounts
<1>4. CASE PostWithoutUse(d, x)
  <2> DEFINE r == [row[x] EXCEPT !.status = "pending", !.waiting = TRUE]
  <2>1. PostEnds(d, x, r) /\ UNCHANGED placed
    BY <1>4 DEF PostWithoutUse
  <2>2. "pending" \in Statuses /\ TRUE \in BOOLEAN
    BY DEF Statuses, Open
  <2>3. r \in Explained(x)
    BY <1>1, <2>2, WrittenExplained
  <2>4. CallsGrow /\ UnwantedInv'
    <3>1. CASE Take(x, OnTheList(x))
      BY <1>1, <3>1, TakeGrows, UnwantedTaken
    <3>2. CASE UNCHANGED <<vapi, intrusions>>
      BY <1>1, <3>2, SameGrows, UnwantedKept DEF UnwantedInv
    <3> QED BY <1>4, <3>1, <3>2 DEF PostWithoutUse
  <2>5. r \in Explained(x)'
    BY <2>3, <2>4, MoreExplained
  <2> HIDE DEF r
  <2> QED BY <2>1, <2>4, <2>5, PostCounts
<1> QED BY <1>2, <1>3, <1>4

\* A pass ends; what it writes is explained.
LEMMA PassEndsCounts ==
    ASSUME CountInv, PlainInv, NEW d \in Dispatchers, PassEnds(d), RowInv',
           sale' = sale \/ sale' = [sale EXCEPT ![d] = NoSale]
    PROVE  CountInv'
<1>1. NumberedInv /\ RowInv /\ DraftInv /\ ReadInv /\ UnwantedInv
  BY DEF CountInv
<1>2. /\ UNCHANGED <<vapi, intrusions>> /\ draft' = [draft EXCEPT ![d] = NoDraft]
      /\ dialling' = [dialling EXCEPT ![d] = {}] /\ placed' = [placed EXCEPT ![d] = {}]
  BY DEF PassEnds
<1>3. CallsGrow /\ \A x \in Contacts : Taken(x)' = Taken(x) /\ Explained(x)' = Explained(x)
  BY <1>1, <1>2, SameGrows
<1>4. DraftInv'
  <2>1. DOMAIN NoDraft = {}
    BY DEF NoDraft
  <2>2. /\ draft' = [e \in Dispatchers |-> draft'[e]] /\ draft'[d] = NoDraft
        /\ \A e \in Dispatchers : e # d => draft'[e] = draft[e]
    BY <1>1, <1>2 DEF DraftInv
  <2> QED BY <1>1, <1>3, <2>1, <2>2, DraftKept
<1>5. ReadInv'
  <2>1. 0 \in 0..MaxCalls
    BY ConstantsAssumption
  <2>2. /\ sale' \in [Dispatchers -> [read : 0..MaxCalls, marked : BOOLEAN]]
        /\ \A e \in Dispatchers : e # d => sale'[e] = sale[e]
    <3>1. NoSale \in [read : 0..MaxCalls, marked : BOOLEAN]
      BY <2>1 DEF NoSale
    <3> QED BY <1>1, <3>1 DEF ReadInv
  <2>3. /\ dialling'[d] = {}
        /\ \A e \in Dispatchers : e # d => dialling'[e] = dialling[e] /\ placed'[e] = placed[e]
    BY <1>2 DEF PlainInv, PassTypes
  <2>4. \A e \in Dispatchers : dialling[e] \subseteq Contacts
    BY DEF PlainInv, PassTypes
  <2> QED BY <1>1, <1>3, <2>2, <2>3, <2>4 DEF ReadInv
<1>6. UnwantedInv'
  BY <1>1, <1>2, <1>3 DEF UnwantedInv
<1> QED BY <1>3, <1>4, <1>5, <1>6 DEF CountInv, CallsGrow

\* A row changes, or the reports that have locked one; no pass goes on.
LEMMA RowCounts ==
    ASSUME CountInv, PlainInv, UNCHANGED <<vapi, draft, dialling, placed, sale, intrusions>>,
           row' = [x \in Contacts |-> row'[x]],
           \A x \in Contacts : row'[x] \in Explained(x),
           \A x \in reporting' : x \in Contacts /\ row'[x].call # 0
    PROVE  CountInv'
<1>1. NumberedInv /\ RowInv /\ DraftInv /\ ReadInv /\ UnwantedInv
  BY DEF CountInv
<1>2. CallsGrow /\ \A x \in Contacts : Taken(x)' = Taken(x) /\ Explained(x)' = Explained(x)
  BY <1>1, SameGrows
<1>3. RowInv'
  BY <1>2 DEF RowInv
<1>4. DraftInv'
  BY <1>1, <1>2 DEF DraftInv
<1>5. ReadInv'
  BY <1>1, <1>2, ReadKept DEF PlainInv, PassTypes
<1>6. UnwantedInv'
  BY <1>1, <1>2 DEF UnwantedInv
<1> QED BY <1>2, <1>3, <1>4, <1>5, <1>6 DEF CountInv, CallsGrow

\* Rows a pass has drafted are written over the others.
LEMMA OverCounts ==
    ASSUME CountInv, NEW w, \A x \in DOMAIN w : x \in Contacts /\ w[x] \in Explained(x)
    PROVE  /\ Over(w, row) = [x \in Contacts |-> Over(w, row)[x]]
           /\ \A x \in Contacts : /\ Over(w, row)[x] \in Explained(x)
                                  /\ x \in DOMAIN w => Over(w, row)[x] = w[x]
                                  /\ x \notin DOMAIN w => Over(w, row)[x] = row[x]
<1>1. row = [x \in Contacts |-> row[x]] /\ \A x \in Contacts : row[x] \in Explained(x)
  BY DEF CountInv, RowInv
<1>2. DOMAIN row = Contacts
  BY <1>1
<1>3. DOMAIN w \cup DOMAIN row = Contacts
  BY <1>2
<1> QED BY <1>1, <1>3 DEF Over

LEMMA DraftedCounts ==
    ASSUME CountInv, NEW d \in Dispatchers, Working(d)
    PROVE  /\ Over(draft[d], row) = [x \in Contacts |-> Over(draft[d], row)[x]]
           /\ \A x \in Contacts : Over(draft[d], row)[x] \in Explained(x)
           /\ \A x \in reporting : x \in Contacts /\ Over(draft[d], row)[x].call # 0
<1>1. \A x \in DOMAIN draft[d] : x \in Contacts /\ draft[d][x] \in Explained(x)
  BY DEF CountInv, DraftInv
<1>2. PICK w : w = draft[d]
  OBVIOUS
<1>3. /\ Over(w, row) = [x \in Contacts |-> Over(w, row)[x]]
      /\ \A x \in Contacts : /\ Over(w, row)[x] \in Explained(x)
                             /\ x \notin DOMAIN w => Over(w, row)[x] = row[x]
  BY <1>1, <1>2, OverCounts
<1>4. \A x \in reporting : x \in Contacts /\ row[x].call # 0 /\ x \notin DOMAIN w
  BY <1>2 DEF CountInv, RowInv, Working
<1> QED BY <1>2, <1>3, <1>4

LEMMA PassCommitCounts ==
    ASSUME CountInv, PlainInv, NEW d \in Dispatchers, PassCommit(d), sale' = sale
    PROVE  CountInv'
<1>1. Working(d) /\ row' = Over(draft[d], row) /\ PassEnds(d)
  BY DEF PassCommit
<1>2. UNCHANGED <<vapi, reports>>
  BY <1>1 DEF PassEnds
<1>3. \A x \in Contacts : Explained(x)' = Explained(x)
  BY <1>2, SameGrows DEF CountInv
<1>4. RowInv'
  BY <1>1, <1>2, <1>3, DraftedCounts DEF RowInv
<1> QED BY <1>1, <1>4, PassEndsCounts

LEMMA PassRollbackCounts ==
    ASSUME CountInv, PlainInv, NEW d \in Dispatchers, PassRollback(d), sale' = [sale EXCEPT ![d] = NoSale]
    PROVE  CountInv'
<1>1. UNCHANGED row /\ PassEnds(d)
  BY DEF PassRollback
<1>2. UNCHANGED <<vapi, reports>>
  BY <1>1 DEF PassEnds
<1>3. RowInv'
  BY <1>1, <1>2, SameGrows, RowKept DEF CountInv
<1> QED BY <1>1, <1>3, PassEndsCounts

\* The commit before the POST.
LEMMA SalesMarkCounts ==
    ASSUME CountInv, PlainInv, NEW d \in Dispatchers, NEW x \in Contacts, SalesMark(d, x)
    PROVE  CountInv'
<1>1. NumberedInv /\ RowInv /\ DraftInv /\ ReadInv /\ UnwantedInv
  BY DEF CountInv
<1>2. Working(d) /\ x \notin reporting /\ dialling[d] = {x}
  BY DEF SalesMark, Dials
<1>3. /\ UNCHANGED <<vapi, intrusions, dialling, reports>>
      /\ row' = [Over(draft[d], row) EXCEPT ![x] = Marked(x)]
      /\ draft' = [draft EXCEPT ![d] = NoDraft]
      /\ placed' = [placed EXCEPT ![d] = {}]
      /\ sale' = [sale EXCEPT ![d].marked = TRUE]
  BY DEF SalesMark, history
<1>4. CallsGrow /\ \A y \in Contacts : Taken(y)' = Taken(y) /\ Explained(y)' = Explained(y)
  BY <1>1, <1>3, SameGrows
<1>5. RowInv'
  <2>1. "calling" \in Statuses
    BY DEF Statuses, Open
  <2>2. Marked(x) \in Explained(x)
    BY <1>1, <2>1, WrittenExplained DEF Marked
  <2>3. PICK w : w = Over(draft[d], row)
    OBVIOUS
  <2>4. /\ w = [y \in Contacts |-> w[y]]
        /\ \A y \in Contacts : w[y] \in Explained(y)
        /\ \A y \in reporting : y \in Contacts /\ w[y].call # 0
    BY <1>2, <2>3, DraftedCounts
  <2>5. row' = [w EXCEPT ![x] = Marked(x)]
    BY <1>3, <2>3
  <2> QED BY <1>2, <1>3, <1>4, <2>2, <2>4, <2>5 DEF RowInv
<1>6. DraftInv'
  <2>1. DOMAIN NoDraft = {}
    BY DEF NoDraft
  <2>2. /\ draft' = [e \in Dispatchers |-> draft'[e]] /\ draft'[d] = NoDraft
        /\ \A e \in Dispatchers : e # d => draft'[e] = draft[e]
    BY <1>1, <1>3 DEF DraftInv
  <2> QED BY <1>1, <1>4, <2>1, <2>2, DraftKept
<1>7. ReadInv'
  <2>1. /\ sale' \in [Dispatchers -> [read : 0..MaxCalls, marked : BOOLEAN]]
        /\ \A e \in Dispatchers : sale'[e].read = sale[e].read
        /\ \A e \in Dispatchers : e # d => sale'[e] = sale[e]
    BY <1>1, <1>3 DEF ReadInv
  <2>2. placed'[d] = {} /\ \A e \in Dispatchers : e # d => placed'[e] = placed[e]
    BY <1>3 DEF PlainInv, PassTypes
  <2>3. \A e \in Dispatchers : dialling[e] \subseteq Contacts
    BY DEF PlainInv, PassTypes
  <2> QED BY <1>1, <1>3, <1>4, <2>1, <2>2, <2>3 DEF ReadInv
<1>8. UnwantedInv'
  BY <1>1, <1>3, <1>4 DEF UnwantedInv
<1> QED BY <1>4, <1>5, <1>6, <1>7, <1>8 DEF CountInv, CallsGrow

\* The POST of a marked contact arrives.
LEMMA SalesTakenCounts ==
    ASSUME CountInv, PlainInv, NEW d \in Dispatchers, NEW x \in Contacts, SalesTaken(d, x)
    PROVE  CountInv'
<1>1. NumberedInv /\ RowInv /\ DraftInv /\ ReadInv /\ UnwantedInv
  BY DEF CountInv
<1>2. /\ Take(x, OnTheList(x) \/ x[2] \notin basis) /\ dialling[d] = {x}
      /\ UNCHANGED <<row, reports, draft, dialling, sale>>
      /\ placed' = [placed EXCEPT ![d] = {<<x, Cardinality(Taken(x)) + 1>>}]
  BY DEF SalesTaken, tables, Keep, salesVars
<1>3. CallsGrow /\ UnwantedInv'
  BY <1>1, <1>2, TakeGrows, UnwantedTaken
<1>4. RowInv'
  BY <1>1, <1>2, <1>3, RowKept
<1>5. DraftInv'
  <2>1. draft' = [e \in Dispatchers |-> draft'[e]]
    BY <1>1, <1>2 DEF DraftInv
  <2> QED BY <1>1, <1>2, <1>3, <2>1, DraftKept
<1>6. ReadInv'
  <2>1. ASSUME NEW e \in Dispatchers, NEW y \in dialling'[e]
        PROVE  /\ sale'[e].read <= Cardinality(Taken(y)')
               /\ sale'[e].marked /\ placed'[e] # {} => sale'[e].read < Cardinality(Taken(y)')
    <3>1. y \in dialling[e] /\ y \in Contacts /\ sale' = sale
      BY <1>2, <2>1 DEF PlainInv, PassTypes
    <3>2. /\ Cardinality(Taken(y)) \in Nat /\ Cardinality(Taken(y)') \in Nat
          /\ Cardinality(Taken(y)) <= Cardinality(Taken(y)')
      BY <1>3, <3>1, MoreExplained DEF CallsGrow
    <3>3. /\ sale[e].read \in Nat /\ sale[e].read <= Cardinality(Taken(y))
          /\ sale[e].marked /\ placed[e] # {} => sale[e].read < Cardinality(Taken(y))
      BY <1>1, <3>1, ConstantsAssumption DEF ReadInv
    <3>4. CASE e = d
      <4>1. y = x
        BY <1>2, <3>1, <3>4
      <4>2. Cardinality(Taken(y)') = Cardinality(Taken(y)) + 1
        BY <1>1, <1>2, <4>1, TakeCounts
      <4> QED BY <3>1, <3>2, <3>3, <4>2
    <3>5. CASE e # d
      <4>1. placed'[e] = placed[e]
        BY <1>2, <3>5 DEF PlainInv, PassTypes
      <4> QED BY <3>1, <3>2, <3>3, <4>1
    <3> QED BY <3>4, <3>5
  <2> QED BY <1>1, <1>2, <2>1 DEF ReadInv
<1> QED BY <1>3, <1>4, <1>5, <1>6 DEF CountInv, CallsGrow

\* The answer to a POST is stored.
LEMMA AnsweredCounts ==
    ASSUME CountInv, PlainInv, NEW d \in Dispatchers, NEW x \in Contacts, NEW r,
           Answered(d, x, r), r \in Explained(x), intrusions' = intrusions
    PROVE  CountInv'
<1>1. NumberedInv /\ RowInv /\ DraftInv /\ ReadInv /\ UnwantedInv
  BY DEF CountInv
<1>2. /\ x \notin reporting /\ UNCHANGED <<vapi, draft, reports>>
      /\ row' = [row EXCEPT ![x] = r]
      /\ dialling' = [dialling EXCEPT ![d] = {}]
      /\ placed' = [placed EXCEPT ![d] = {}]
      /\ sale' = [sale EXCEPT ![d] = NoSale]
  BY DEF Answered, Dials
<1>3. CallsGrow /\ \A y \in Contacts : Taken(y)' = Taken(y) /\ Explained(y)' = Explained(y)
  BY <1>1, <1>2, SameGrows
<1>4. RowInv'
  BY <1>1, <1>2, <1>3 DEF RowInv
<1>5. DraftInv'
  BY <1>1, <1>2, <1>3 DEF DraftInv
<1>6. ReadInv'
  <2>1. NoSale \in [read : 0..MaxCalls, marked : BOOLEAN]
    BY ConstantsAssumption DEF NoSale
  <2>2. /\ sale' \in [Dispatchers -> [read : 0..MaxCalls, marked : BOOLEAN]]
        /\ \A e \in Dispatchers : e # d => sale'[e] = sale[e]
    BY <1>1, <1>2, <2>1 DEF ReadInv
  <2>3. /\ dialling'[d] = {}
        /\ \A e \in Dispatchers : e # d => dialling'[e] = dialling[e] /\ placed'[e] = placed[e]
    BY <1>2 DEF PlainInv, PassTypes
  <2>4. \A e \in Dispatchers : dialling[e] \subseteq Contacts
    BY DEF PlainInv, PassTypes
  <2> QED BY <1>1, <1>3, <2>2, <2>3, <2>4 DEF ReadInv
<1>7. UnwantedInv'
  BY <1>1, <1>3 DEF UnwantedInv
<1> QED BY <1>3, <1>4, <1>5, <1>6, <1>7 DEF CountInv, CallsGrow

LEMMA SalesAnswersCount ==
    ASSUME CountInv, PlainInv, NEW d \in Dispatchers, NEW x \in Contacts,
           SalesAccepted(d, x) \/ SalesUnknown(d, x) \/ SalesRejected(d, x) \/ SalesLater(d, x)
    PROVE  CountInv'
<1>1. RowInv /\ ReadInv
  BY DEF CountInv
<1>2. {"unknown", "failed", "pending"} \subseteq Statuses /\ TRUE \in BOOLEAN
  BY DEF Statuses, Open
<1>3. CASE SalesAccepted(d, x)
  <2>1. PICK k \in placed[d] : Answered(d, x, [row[x] EXCEPT !.attempts = sale[d].read + 1, !.call = k[2]])
    BY <1>3 DEF SalesAccepted
  <2>2. x \in dialling[d] /\ sale[d].marked /\ intrusions' = intrusions
    BY <2>1 DEF Answered, Dials
  <2>3. PICK n \in Nat : n = Cardinality(Taken(x))
    BY TakenFinite
  <2>4. sale[d].read \in 0..MaxCalls /\ sale[d].read < n
    BY <1>1, <2>1, <2>2, <2>3 DEF ReadInv
  <2>5. k \in Calls
    BY <2>1 DEF PlainInv, PassTypes
  <2>6. sale[d].read + 1 \in 0..n /\ k[2] \in 0..MaxCalls
    BY <2>4, <2>5, ConstantsAssumption DEF Calls
  <2>7. PICK r \in RowsUpTo(n) : r = row[x]
    BY <1>1, <2>3 DEF RowInv, Explained
  <2>8. PICK a, j : a = sale[d].read + 1 /\ j = k[2]
    OBVIOUS
  <2>9. [r EXCEPT !.attempts = a, !.call = j] \in RowsUpTo(n)
    BY <2>6, <2>8, WrittenRow
  <2>10. Explained(x) = RowsUpTo(n)
    BY <2>3 DEF Explained
  <2> QED BY <2>1, <2>2, <2>7, <2>8, <2>9, <2>10, AnsweredCounts
<1>4. CASE SalesUnknown(d, x)
  BY <1>1, <1>2, <1>4, WrittenExplained, AnsweredCounts DEF SalesUnknown, Answered
<1>5. CASE SalesRejected(d, x)
  BY <1>1, <1>2, <1>5, WrittenExplained, AnsweredCounts DEF SalesRejected, Answered
<1>6. CASE SalesLater(d, x)
  BY <1>1, <1>2, <1>6, WrittenExplained, AnsweredCounts DEF SalesLater, Answered
<1> QED BY <1>3, <1>4, <1>5, <1>6

\* The visits of customers' campaigns and of Dialogbot's.
LEMMA CustomerVisitsCount ==
    ASSUME CountInv, PlainInv, NEW d \in Dispatchers, NEW c \in Campaigns,
           \/ (VisitIdle(d, c) \/ VisitComplete(d, c) \/ VisitSkip(d, c)) /\ sale' = sale
           \/ \E x \in Contacts : VisitDial(d, c, x) /\ Loads(d, x)
    PROVE  CountInv'
<1>1. RowInv
  BY DEF CountInv
<1>2. OnList(c) \subseteq Contacts
  BY DEF OnList, Due, Pending, ContactsOf
<1>3. CASE (VisitIdle(d, c) \/ VisitComplete(d, c)) /\ sale' = sale
  <2>1. Visit(d, c, NoDraft) /\ UNCHANGED <<dialling, sale>>
    BY <1>3 DEF VisitIdle, VisitComplete
  <2>2. DOMAIN NoDraft = {}
    BY DEF NoDraft
  <2> QED BY <2>1, <2>2, VisitCounts
<1>4. CASE VisitSkip(d, c) /\ sale' = sale
  <2>1. Visit(d, c, Skipped(OnList(c))) /\ UNCHANGED <<dialling, sale>>
    BY <1>4 DEF VisitSkip
  <2>2. PICK w : w = Skipped(OnList(c)) /\ \A x \in DOMAIN w : x \in Contacts /\ w[x] \in Explained(x)
    BY <1>1, <1>2, SkippedExplained
  <2> QED BY <2>1, <2>2, VisitCounts
<1>5. ASSUME NEW x \in Contacts, VisitDial(d, c, x), Loads(d, x)
      PROVE  CountInv'
  <2>1. PICK S \in SUBSET (OnList(c) \ {x}) : Visit(d, c, Skipped(S))
    BY <1>5 DEF VisitDial
  <2>2. dialling' = [dialling EXCEPT ![d] = {x}]
    BY <1>5 DEF VisitDial
  <2>3. S \in SUBSET Contacts
    BY <1>2, <2>1
  <2>4. PICK w : w = Skipped(S) /\ \A y \in DOMAIN w : y \in Contacts /\ w[y] \in Explained(y)
    BY <1>1, <2>3, SkippedExplained
  <2> QED BY <1>5, <2>1, <2>2, <2>4, VisitCounts
<1> QED BY <1>3, <1>4, <1>5

LEMMA SalesVisitsCount ==
    ASSUME CountInv, PlainInv, NEW d \in Dispatchers, NEW c \in Campaigns,
           (\E x \in Contacts : SalesVisit(d, c, x)) \/ SalesVisitSkip(d, c)
    PROVE  CountInv'
<1>1. RowInv
  BY DEF CountInv
<1>2. OnList(c) \cup Refused(c) \subseteq Contacts
  BY DEF OnList, Refused, Callable, Due, Pending, ContactsOf
<1>3. CASE SalesVisitSkip(d, c)
  <2>1. PICK S : S = OnList(c) \cup Refused(c)
    OBVIOUS
  <2>2. Visit(d, c, Skipped(S)) /\ UNCHANGED <<dialling, sale>>
    BY <1>3, <2>1 DEF SalesVisitSkip, Keep, salesVars
  <2>3. S \in SUBSET Contacts
    BY <1>2, <2>1
  <2>4. PICK w : w = Skipped(S) /\ \A y \in DOMAIN w : y \in Contacts /\ w[y] \in Explained(y)
    BY <1>1, <2>3, SkippedExplained
  <2> QED BY <2>2, <2>4, VisitCounts
<1>4. ASSUME NEW x \in Contacts, SalesVisit(d, c, x)
      PROVE  CountInv'
  <2>1. PICK S \in SUBSET ((OnList(c) \cup Refused(c)) \ {x}) : Visit(d, c, Skipped(S))
    BY <1>4 DEF SalesVisit
  <2>2. dialling' = [dialling EXCEPT ![d] = {x}] /\ Loads(d, x)
    BY <1>4 DEF SalesVisit
  <2>3. S \in SUBSET Contacts
    BY <1>2, <2>1
  <2>4. PICK w : w = Skipped(S) /\ \A y \in DOMAIN w : y \in Contacts /\ w[y] \in Explained(y)
    BY <1>1, <2>3, SkippedExplained
  <2> QED BY <2>1, <2>2, <2>4, VisitCounts
<1> QED BY <1>3, <1>4

LEMMA PassesCount ==
    ASSUME CountInv, PlainInv, NEW d \in Dispatchers, CustomerPass(d) \/ SalesPass(d) \/ SalesRollback(d)
    PROVE  CountInv'
<1>1. CASE SalesRollback(d)
  BY <1>1, PassRollbackCounts DEF SalesRollback
<1>2. CASE SalesPass(d)
  <2>1. \A x \in Contacts : x[1] \in Campaigns
    BY DEF Campaigns
  <2> QED BY <1>2, <2>1, SalesVisitsCount, SalesMarkCounts, SalesTakenCounts, SalesAnswersCount DEF SalesPass
<1>3. CASE CustomerPass(d)
  <2>1. \A x \in Contacts : x[1] \in Campaigns
    BY DEF Campaigns
  <2>2. ASSUME PassBegin(d), Keep
        PROVE  CountInv'
    <3>1. UNCHANGED <<vapi, row, draft, dialling, placed, reports, sale, intrusions>>
      BY <2>2 DEF PassBegin, tables, history, Keep, salesVars
    <3> QED BY <3>1, StillCounts DEF CountInv, UnwantedInv, PlainInv, PassTypes
  <2>3. ASSUME PassCommit(d), Keep
        PROVE  CountInv'
    BY <2>3, PassCommitCounts DEF Keep, salesVars
  <2>4. ASSUME NEW c \in Campaigns, VisitIdle(d, c) \/ VisitComplete(d, c) \/ VisitSkip(d, c), Keep
        PROVE  CountInv'
    BY <2>4, CustomerVisitsCount DEF Keep, salesVars
  <2>5. ASSUME NEW x \in Contacts, VisitDial(d, x[1], x), Loads(d, x)
        PROVE  CountInv'
    BY <2>1, <2>5, CustomerVisitsCount
  <2>6. ASSUME NEW x \in Contacts, Keep, Accepted(d, x, sale[d].read) \/ PostRejected(d, x) \/ PostWithoutUse(d, x)
        PROVE  CountInv'
    BY <2>6, PostsCount DEF Keep, salesVars
  <2> QED BY <1>3, <2>2, <2>3, <2>4, <2>5, <2>6 DEF CustomerPass
<1> QED BY <1>1, <1>2, <1>3

\* Steps of which the rows and the passes see nothing.
LEMMA StillsCount ==
    ASSUME CountInv, PlainInv,
           \/ Keep /\ \/ \E k \in Calls : CallEnds(k) \/ ReportStray(k)
                      \/ \E x \in Contacts : GetsOld(x) \/ ImportReads(x) \/ DeleteReads(x)
                      \/ \E c \in Campaigns : Start(c) \/ PauseReads(c)
                      \/ \E p \in Phones : BlockReads(p) \/ Unblock(p)
                      \/ PauseWrites
           \/ \E x \in Contacts : SalesGetsOld(x) \/ MemberReads(x)
           \/ \E p \in SalesPhones : RecordBasis(p) \/ WithdrawBasis(p)
           \/ \E c \in Campaigns : SalesStart(c) \/ StopReads(c)
           \/ UNCHANGED allVars
    PROVE  CountInv'
<1> DEFINE Off == /\ UNCHANGED <<row, draft, dialling, placed, reports, sale>>
                  /\ \/ vapi' = vapi
                     \/ \E k \in Calls, e \in Ends : vapi[k] = "live" /\ vapi' = [vapi EXCEPT ![k] = e]
                  /\ intrusions' \in [Contacts -> Nat] /\ \A x \in Contacts : intrusions'[x] <= intrusions[x]
<1>1. \A d \in Dispatchers : dialling[d] \subseteq Contacts
  BY DEF PlainInv, PassTypes
<1>2. intrusions \in [Contacts -> Nat]
  BY DEF CountInv, UnwantedInv
<1>3. \A x \in Contacts : 0 <= intrusions[x] /\ intrusions[x] <= intrusions[x]
  BY <1>2
<1>4. ASSUME NEW k \in Calls, CallEnds(k), Keep
      PROVE  Off
  BY <1>2, <1>3, <1>4 DEF CallEnds, tables, passes, history, Keep, salesVars
<1>5. ASSUME NEW k \in Calls, ReportStray(k), Keep
      PROVE  Off
  BY <1>2, <1>3, <1>5 DEF ReportStray, tables, passes, history, Keep, salesVars
<1>6. ASSUME NEW x \in Contacts, GetsOld(x), Keep
      PROVE  Off
  BY <1>2, <1>3, <1>6 DEF GetsOld, passes, history, Keep, salesVars
<1>7. ASSUME NEW kind, NEW of, NEW at, Begin(kind, of, at), Keep
      PROVE  Off
  BY <1>2, <1>3, <1>7 DEF Begin, tables, passes, Keep, salesVars
<1>8. ASSUME NEW c \in Campaigns, Start(c), Keep
      PROVE  Off
  BY <1>2, <1>3, <1>8 DEF Start, passes, history, Keep, salesVars
<1>9. ASSUME NEW p, Unblock(p), Keep
      PROVE  Off
  <2>1. /\ UNCHANGED <<row, draft, dialling, placed, reports, sale, vapi>>
        /\ intrusions' = [x \in Contacts |-> IF x[2] = p THEN 0 ELSE intrusions[x]]
    BY <1>9 DEF Unblock, passes, Keep, salesVars
  <2> QED BY <1>2, <1>3, <2>1
<1>10. ASSUME PauseWrites, Keep
       PROVE  Off
  BY <1>2, <1>3, <1>10 DEF PauseWrites, Finish, passes, history, Keep, salesVars
<1>11. ASSUME NEW x \in Contacts, SalesGetsOld(x)
       PROVE  Off
  BY <1>2, <1>3, <1>11 DEF SalesGetsOld, passes, history, Keep, salesVars
<1>12. ASSUME NEW p, RecordBasis(p)
       PROVE  Off
  <2>1. /\ UNCHANGED <<row, draft, dialling, placed, reports, sale, vapi>>
        /\ intrusions' = [x \in Contacts |-> IF x[2] = p /\ blocked[p] = "no" THEN 0 ELSE intrusions[x]]
    BY <1>12 DEF RecordBasis, tables, passes
  <2> QED BY <1>2, <1>3, <2>1
<1>13. ASSUME NEW p, WithdrawBasis(p)
       PROVE  Off
  BY <1>2, <1>3, <1>13 DEF WithdrawBasis, tables, passes
<1>14. ASSUME NEW c, SalesStart(c)
       PROVE  Off
  BY <1>2, <1>3, <1>14 DEF SalesStart, passes, history, Keep, salesVars
<1>15. ASSUME UNCHANGED allVars
       PROVE  Off
  BY <1>2, <1>3, <1>15 DEF allVars, vars, tables, passes, history, salesVars
<1>16. ASSUME NEW x \in Contacts, ((ImportReads(x) \/ DeleteReads(x)) /\ Keep) \/ MemberReads(x)
       PROVE  Off
  BY <1>7, <1>16 DEF ImportReads, DeleteReads, MemberReads
<1>17. ASSUME NEW c, (PauseReads(c) /\ Keep) \/ StopReads(c)
       PROVE  Off
  BY <1>7, <1>17 DEF PauseReads, StopReads
<1>18. ASSUME NEW p, BlockReads(p), Keep
       PROVE  Off
  BY <1>7, <1>18 DEF BlockReads
<1> HIDE DEF Off
<1>19. Off
  BY <1>4, <1>5, <1>6, <1>8, <1>9, <1>10, <1>11, <1>12, <1>13, <1>14, <1>15, <1>16, <1>17, <1>18
<1> QED BY <1>1, <1>19, StillCounts DEF Off

\* A report ends: with an attempt more or none, and with the numbers of S given up.
LEMMA ReportRows ==
    ASSUME RowInv, NEW x \in Contacts, NEW end
    PROVE  AfterCall(row[x], end) \in Explained(x) /\ AfterCall(row[x], end).call = row[x].call
<1>1. "opted_out" \in Statuses /\ "done" \in Statuses
  BY DEF Statuses
<1> QED BY <1>1, WrittenExplained DEF AfterCall

\* What is written by hand or by a report.
LEMMA RowsCount ==
    ASSUME CountInv, PlainInv,
           \/ Keep /\ \/ \E k \in Calls : ReportBegins(k)
                      \/ \E x \in Contacts : ReportEnds(x) \/ ReportUnlocks(x) \/ UnlockedEnds(x) \/ RetryDue(x)
                      \/ ImportWrites \/ BlockWrites \/ DeleteWrites
           \/ \E x \in Contacts : SalesReportEnds(x)
           \/ StopWrites
    PROVE  CountInv'
<1>1. RowInv /\ row = [x \in Contacts |-> row[x]] /\ \A x \in Contacts : row[x] \in Explained(x)
  BY DEF CountInv, RowInv
<1>2. \A x \in reporting : x \in Contacts /\ row[x].call # 0
  BY <1>1 DEF RowInv
<1>3. {"skipped", "deleted"} \subseteq Statuses /\ FALSE \in BOOLEAN
  BY DEF Statuses
<1> DEFINE Off == /\ UNCHANGED <<vapi, draft, dialling, placed, sale, intrusions>>
                  /\ row' = [x \in Contacts |-> row'[x]]
                  /\ \A x \in Contacts : row'[x] \in Explained(x)
                  /\ \A x \in reporting' : x \in Contacts /\ row'[x].call # 0
<1>4. ASSUME NEW k \in Calls, ReportBegins(k), Keep
      PROVE  Off
  <2>1. /\ UNCHANGED <<row, vapi, draft, dialling, placed, sale, intrusions>>
        /\ reporting' = reporting \cup {k[1]}
    BY <1>4 DEF ReportBegins, tables, passes, history, Keep, salesVars
  <2>2. row[k[1]].call = k[2]
    BY <1>4 DEF ReportBegins
  <2>3. k[1] \in Contacts /\ k[2] # 0
    BY ConstantsAssumption DEF Calls
  <2> QED BY <1>1, <1>2, <2>1, <2>2, <2>3
<1>5. ASSUME NEW x \in Contacts, ReportEnds(x), Keep
      PROVE  Off
  <2>1. /\ UNCHANGED <<vapi, draft, dialling, placed, sale, intrusions>> /\ reporting' = reporting \ {x}
        /\ row' = [row EXCEPT ![x] = AfterCall(row[x], vapi[<<x, row[x].call>>])]
    BY <1>5 DEF ReportEnds, passes, history, Keep, salesVars
  <2>2. PICK r : r = AfterCall(row[x], vapi[<<x, row[x].call>>]) /\ r \in Explained(x) /\ r.call = row[x].call
    BY <1>1, ReportRows
  <2> QED BY <1>1, <1>2, <2>1, <2>2
<1>6. ASSUME NEW x \in Contacts, RetryDue(x), Keep
      PROVE  Off
  <2>1. UNCHANGED <<vapi, draft, dialling, placed, sale, intrusions, reports>> /\ row' = [row EXCEPT ![x].waiting = FALSE]
    BY <1>6 DEF RetryDue, passes, history, Keep, salesVars
  <2>2. PICK r : r = [row[x] EXCEPT !.waiting = FALSE] /\ r \in Explained(x) /\ r.call = row[x].call
    BY <1>1, <1>3, WrittenExplained
  <2>3. row' = [row EXCEPT ![x] = r]
    BY <2>1, <2>2
  <2> QED BY <1>1, <1>2, <2>1, <2>2, <2>3
<1>7. ASSUME ImportWrites, Keep
      PROVE  Off
  <2>1. /\ UNCHANGED <<vapi, draft, dialling, placed, sale, intrusions, reports>>
        /\ row' = [x \in Contacts |-> IF x \in request.of THEN NewRow ELSE row[x]]
        /\ request.of \cap reporting = {}
    BY <1>7 DEF ImportWrites, Finish, passes, history, Keep, salesVars
  <2>2. ASSUME NEW x \in Contacts
        PROVE  NewRow \in Explained(x)
    <3>1. PICK n \in Nat : n = Cardinality(Taken(x))
      BY TakenFinite
    <3>2. 0 \in 0..n /\ 0 \in 0..MaxCalls /\ "pending" \in Statuses
      BY ConstantsAssumption DEF Statuses, Open
    <3> QED BY <3>1, <3>2 DEF Explained, RowsUpTo, NewRow, NoRow
  <2> QED BY <1>1, <1>2, <2>1, <2>2
<1>8. ASSUME NEW s \in {"skipped", "deleted"}, NEW of, UNCHANGED <<vapi, draft, dialling, placed, sale, intrusions, reports>>,
             row' = [x \in Contacts |-> IF x \in of THEN [row[x] EXCEPT !.status = s] ELSE row[x]]
      PROVE  Off
  <2>1. \A x \in Contacts : /\ [row[x] EXCEPT !.status = s] \in Explained(x)
                            /\ [row[x] EXCEPT !.status = s].call = row[x].call
    BY <1>1, <1>3, WrittenExplained
  <2>2. \A x \in Contacts : row'[x] \in Explained(x) /\ row'[x].call = row[x].call
    BY <1>1, <1>8, <2>1
  <2> QED BY <1>2, <1>8, <2>2
<1>9. ASSUME BlockWrites, Keep
      PROVE  Off
  BY <1>8, <1>9 DEF BlockWrites, Finish, passes, history, Keep, salesVars
<1>10. ASSUME DeleteWrites, Keep
       PROVE  Off
  BY <1>8, <1>10 DEF DeleteWrites, Finish, passes, history, Keep, salesVars
<1>11. ASSUME StopWrites
       PROVE  Off
  <2>1. /\ UNCHANGED <<vapi, draft, dialling, placed, sale, intrusions, reports>>
        /\ row' = Over(Skipped(request.of), row) /\ request.of \cap reporting = {} /\ request.of \in SUBSET Contacts
    BY <1>11 DEF StopWrites, Finish, passes, history, Keep, salesVars, PlainInv, TableTypes
  <2>2. PICK w : w = Skipped(request.of) /\ (\A x \in DOMAIN w : x \in Contacts /\ w[x] \in Explained(x)) /\ DOMAIN w = request.of
    BY <1>1, <2>1, SkippedExplained, SkippedRows
  <2>3. /\ Over(w, row) = [x \in Contacts |-> Over(w, row)[x]]
        /\ \A x \in Contacts : /\ Over(w, row)[x] \in Explained(x)
                               /\ x \notin DOMAIN w => Over(w, row)[x] = row[x]
    BY <2>2, OverCounts
  <2> QED BY <1>2, <2>1, <2>2, <2>3
<1>12. ASSUME NEW x \in Contacts, SalesReportEnds(x)
       PROVE  Off
  <2>1. PICK S : /\ S \in SUBSET Contacts
                 /\ row' = [Over(Skipped(S), row) EXCEPT ![x] = AfterCall(row[x], vapi[<<x, row[x].call>>])]
                 /\ S \cap reporting = {}
    BY <1>12 DEF SalesReportEnds, Elsewhere
  <2>2. UNCHANGED <<vapi, draft, dialling, placed, sale, intrusions>> /\ reporting' = reporting \ {x}
    BY <1>12 DEF SalesReportEnds, passes, history, Keep, salesVars
  <2>3. PICK w : w = Skipped(S) /\ (\A y \in DOMAIN w : y \in Contacts /\ w[y] \in Explained(y)) /\ DOMAIN w = S
    BY <1>1, <2>1, SkippedExplained, SkippedRows
  <2>4. PICK v : /\ v = Over(w, row) /\ v = [y \in Contacts |-> v[y]]
                 /\ \A y \in Contacts : /\ v[y] \in Explained(y)
                                        /\ y \notin S => v[y] = row[y]
    BY <2>3, OverCounts
  <2>5. PICK r : r = AfterCall(row[x], vapi[<<x, row[x].call>>]) /\ r \in Explained(x) /\ r.call = row[x].call
    BY <1>1, ReportRows
  <2>6. row' = [v EXCEPT ![x] = r]
    BY <2>1, <2>3, <2>4, <2>5
  <2> QED BY <1>2, <2>1, <2>2, <2>4, <2>5, <2>6
<1>13. ASSUME NEW x \in Contacts, ReportUnlocks(x), Keep
       PROVE  Off
  <2>1. UNCHANGED <<row, vapi, draft, dialling, placed, sale, intrusions>> /\ reporting' = reporting \ {x}
    BY <1>13 DEF ReportUnlocks, tables, passes, Keep, salesVars
  <2> QED BY <1>1, <1>2, <2>1
<1>14. ASSUME NEW x \in Contacts, UnlockedEnds(x), Keep
       PROVE  Off
  <2>1. /\ UNCHANGED <<vapi, draft, dialling, placed, sale, intrusions, reporting>>
        /\ row' = IF row[x].status = "deleted" THEN row ELSE [row EXCEPT ![x].status = "done"]
    BY <1>14 DEF UnlockedEnds, passes, history, Keep, salesVars
  <2>2. "done" \in Statuses
    BY DEF Statuses
  <2>3. PICK r : r = [row[x] EXCEPT !.status = "done"] /\ r \in Explained(x) /\ r.call = row[x].call
    BY <1>1, <2>2, WrittenExplained
  <2>4. row' = row \/ row' = [row EXCEPT ![x] = r]
    BY <2>1, <2>3
  <2> QED BY <1>1, <1>2, <2>1, <2>3, <2>4
<1> HIDE DEF Off
<1>15. Off
  BY <1>4, <1>5, <1>6, <1>7, <1>9, <1>10, <1>11, <1>12, <1>13, <1>14
<1> QED BY <1>15, RowCounts DEF Off

LEMMA SalesNextCounts == CountInv /\ PlainInv /\ [SalesNext]_allVars => CountInv'
<1> SUFFICES ASSUME CountInv, PlainInv, SalesNext \/ UNCHANGED allVars PROVE CountInv'
  OBVIOUS
<1>1. CASE \E d \in Dispatchers : CustomerPass(d) \/ SalesPass(d) \/ SalesRollback(d)
  BY <1>1, PassesCount
<1>2. CASE (\E k \in Calls : CallEnds(k) \/ Report(k)) /\ Keep
  BY <1>2, StillsCount, RowsCount DEF Report
<1>3. CASE (\E x \in Contacts : ReportUnlocks(x) \/ UnlockedEnds(x) \/ RetryDue(x)) /\ Keep
  BY <1>3, RowsCount
<1>4. CASE \E x \in Contacts : SalesReportEnds(x) \/ SalesGetsOld(x)
  BY <1>4, RowsCount, StillsCount
<1>5. CASE Customers /\ Keep
  BY <1>5, RowsCount, StillsCount DEF Customers
<1>6. CASE RequestWrites /\ Keep
  BY <1>6, RowsCount, StillsCount DEF RequestWrites
<1>7. CASE Operators
  BY <1>7, RowsCount, StillsCount DEF Operators
<1>8. CASE UNCHANGED allVars
  BY <1>8, StillsCount
<1> QED BY <1>1, <1>2, <1>3, <1>4, <1>5, <1>6, <1>7, <1>8 DEF SalesNext

LEMMA PlainParts ==
    /\ PlainInv <=> PassTypes /\ TableTypes
    /\ PlainInv' <=> PassTypes' /\ TableTypes'
BY DEF PlainInv

Recorded == <<campaign, old, billed, blocked, lost, reported, request, faults, requests, internal, basis>>

LEMMA TablesStand == ASSUME TableTypes, UNCHANGED Recorded PROVE TableTypes'
BY DEF TableTypes, Recorded

LEMMA PassesStand == ASSUME PassTypes, UNCHANGED passes PROVE PassTypes'
BY DEF PassTypes, passes

LEMMA Bounded ==
    ASSUME TableTypes
    PROVE  /\ UNCHANGED faults \/ Fault => faults' \in 0..MaxFaults
           /\ UNCHANGED requests \/ Asked => requests' \in 0..MaxRequests
BY ConstantsAssumption DEF TableTypes, Fault, Asked

\* A call that is taken is one of the calls.
LEMMA TakenCall ==
    ASSUME NEW x \in Contacts, NEW u, Take(x, u)
    PROVE  <<x, Cardinality(Taken(x)) + 1>> \in Calls
BY DEF Take

LEMMA VisitTypes ==
    ASSUME PassTypes, TableTypes, NEW d \in Dispatchers, NEW c \in Campaigns, NEW w, Visit(d, c, w),
           UNCHANGED <<internal, basis>>,
           UNCHANGED dialling \/ \E x \in Contacts : dialling' = [dialling EXCEPT ![d] = {x}],
           completing' = completing \/ completing' = [completing EXCEPT ![d] = completing[d] \cup {c}]
    PROVE  PassTypes' /\ TableTypes'
<1>1. TableTypes'
  BY TablesStand DEF Visit, Recorded, tables, history
<1>2. UNCHANGED <<passing, locked, placed>> /\ todo' \in [Dispatchers -> SUBSET Campaigns]
  BY DEF Visit, PassTypes
<1>3. completing' \in [Dispatchers -> SUBSET Campaigns]
  BY DEF PassTypes
<1>4. /\ dialling' \in [Dispatchers -> SUBSET Contacts]
      /\ \A e \in Dispatchers : \A y, z \in dialling'[e] : y = z
  BY DEF PassTypes
<1> QED BY <1>1, <1>2, <1>3, <1>4 DEF PassTypes

LEMMA EndTypes ==
    ASSUME PassTypes, TableTypes, NEW d \in Dispatchers,
           locked' \in {locked, [locked EXCEPT ![d] = {}]}, todo' \in {todo, [todo EXCEPT ![d] = {}]},
           completing' \in {completing, [completing EXCEPT ![d] = {}]},
           dialling' \in {dialling, [dialling EXCEPT ![d] = {}]},
           placed' \in {placed, [placed EXCEPT ![d] = {}]}, passing' \subseteq passing
    PROVE  PassTypes'
<1>1. locked' \in [Dispatchers -> SUBSET Campaigns] /\ todo' \in [Dispatchers -> SUBSET Campaigns]
  BY DEF PassTypes
<1>2. completing' \in [Dispatchers -> SUBSET Campaigns] /\ placed' \in [Dispatchers -> SUBSET Calls]
  BY DEF PassTypes
<1>3. /\ dialling' \in [Dispatchers -> SUBSET Contacts]
      /\ \A e \in Dispatchers : \A y, z \in dialling'[e] : y = z
  BY DEF PassTypes
<1> QED BY <1>1, <1>2, <1>3 DEF PassTypes

LEMMA CustomerTypes ==
    ASSUME PassTypes, TableTypes, NEW d \in Dispatchers, CustomerPass(d)
    PROVE  PassTypes' /\ TableTypes'
<1> USE DEF Keep, salesVars
<1>1. \A x \in Contacts : x[1] \in Campaigns
  BY DEF Campaigns
<1>2. ASSUME PassBegin(d), Keep
      PROVE  PassTypes' /\ TableTypes'
  <2>1. TableTypes'
    BY <1>2, TablesStand DEF PassBegin, Recorded, tables, history
  <2>2. PICK free \in SUBSET Campaigns : /\ locked' = [locked EXCEPT ![d] = free]
                                         /\ todo' = [todo EXCEPT ![d] = free]
    BY <1>2 DEF PassBegin
  <2> QED BY <1>2, <2>1, <2>2 DEF PassBegin, PassTypes
<1>3. ASSUME PassCommit(d), Keep
      PROVE  PassTypes' /\ TableTypes'
  <2>1. PassTypes'
    BY <1>3, EndTypes DEF PassCommit, PassEnds
  <2>2. /\ old' \subseteq old /\ billed' \subseteq Calls
        /\ campaign' \in [Campaigns -> {"draft", "running", "paused", "completed", "stopped"}]
    BY <1>3 DEF PassCommit, PassTypes, TableTypes
  <2>3. UNCHANGED <<blocked, lost, reported, request, faults, requests, internal, basis>>
    BY <1>3 DEF PassCommit, PassEnds
  <2> QED BY <2>1, <2>2, <2>3 DEF TableTypes
<1>4. ASSUME NEW c \in Campaigns, VisitIdle(d, c) \/ VisitComplete(d, c) \/ VisitSkip(d, c), Keep
      PROVE  PassTypes' /\ TableTypes'
  BY <1>4, VisitTypes DEF VisitIdle, VisitComplete, VisitSkip
<1>5. ASSUME NEW x \in Contacts, VisitDial(d, x[1], x), Loads(d, x)
      PROVE  PassTypes' /\ TableTypes'
  BY <1>1, <1>5, VisitTypes DEF VisitDial, Loads
<1>6. ASSUME NEW x \in Contacts, Keep, Accepted(d, x, sale[d].read) \/ PostRejected(d, x) \/ PostWithoutUse(d, x)
      PROVE  PassTypes' /\ TableTypes'
  <2>1. PICK r : PostEnds(d, x, r)
    BY <1>6 DEF Accepted, PostRejected, PostWithoutUse
  <2>2. dialling' = [dialling EXCEPT ![d] = {}] /\ UNCHANGED <<tables, passing, locked, todo, completing, request, reported, requests>>
    BY <2>1 DEF PostEnds
  <2>3. placed' \in [Dispatchers -> SUBSET Calls]
    BY <1>6, TakenCall DEF Accepted, PostRejected, PostWithoutUse, PassTypes
  <2>4. lost' \subseteq Calls
    BY <1>6, TakenCall DEF Accepted, PostRejected, PostWithoutUse, TableTypes
  <2>5. faults' \in 0..MaxFaults
    BY <1>6, Bounded DEF Accepted, PostRejected, PostWithoutUse
  <2>6. /\ dialling' \in [Dispatchers -> SUBSET Contacts]
        /\ \A e \in Dispatchers : \A y, z \in dialling'[e] : y = z
    BY <2>2 DEF PassTypes
  <2> QED BY <1>6, <2>2, <2>3, <2>4, <2>5, <2>6 DEF PassTypes, TableTypes, tables
<1> QED BY <1>2, <1>3, <1>4, <1>5, <1>6 DEF CustomerPass

LEMMA SalesPassTypes ==
    ASSUME PassTypes, TableTypes, NEW d \in Dispatchers, SalesPass(d) \/ SalesRollback(d)
    PROVE  PassTypes' /\ TableTypes'
<1> USE DEF Keep, salesVars
<1>1. \A x \in Contacts : x[1] \in Campaigns
  BY DEF Campaigns
<1>2. CASE SalesRollback(d)
  <2>1. PassRollback(d) /\ UNCHANGED <<internal, basis>>
    BY <1>2 DEF SalesRollback
  <2>2. PassTypes'
    BY <2>1, EndTypes DEF PassRollback, PassEnds
  <2>3. lost' \subseteq Calls /\ faults' \in 0..MaxFaults
    BY <2>1, Bounded DEF PassRollback, PassTypes, TableTypes
  <2>4. UNCHANGED <<campaign, old, billed, blocked, reported, request, requests>>
    BY <2>1 DEF PassRollback, PassEnds
  <2> QED BY <2>1, <2>2, <2>3, <2>4 DEF TableTypes
<1>3. ASSUME NEW c \in Campaigns, SalesVisitSkip(d, c)
      PROVE  PassTypes' /\ TableTypes'
  BY <1>3, VisitTypes DEF SalesVisitSkip
<1>4. ASSUME NEW x \in Contacts, SalesVisit(d, x[1], x)
      PROVE  PassTypes' /\ TableTypes'
  BY <1>1, <1>4, VisitTypes DEF SalesVisit, Loads
<1>5. ASSUME NEW x \in Contacts, SalesMark(d, x)
      PROVE  PassTypes' /\ TableTypes'
  <2>1. PassTypes'
    BY <1>5, EndTypes DEF SalesMark
  <2>2. /\ old' \subseteq old /\ billed' \subseteq Calls
        /\ campaign' \in [Campaigns -> {"draft", "running", "paused", "completed", "stopped"}]
    BY <1>5 DEF SalesMark, PassTypes, TableTypes
  <2>3. UNCHANGED <<blocked, lost, reported, request, faults, requests, internal, basis>>
    BY <1>5 DEF SalesMark, history
  <2> QED BY <2>1, <2>2, <2>3 DEF TableTypes
<1>6. ASSUME NEW x \in Contacts, SalesTaken(d, x)
      PROVE  PassTypes' /\ TableTypes'
  <2>1. placed' \in [Dispatchers -> SUBSET Calls]
    BY <1>6, TakenCall DEF SalesTaken, PassTypes
  <2>2. UNCHANGED <<passing, locked, todo, dialling, completing>> /\ UNCHANGED Recorded
    BY <1>6 DEF SalesTaken, tables, Recorded
  <2> QED BY <2>1, <2>2, TablesStand DEF PassTypes
<1>7. ASSUME NEW x \in Contacts, SalesAccepted(d, x) \/ SalesUnknown(d, x) \/ SalesRejected(d, x) \/ SalesLater(d, x)
      PROVE  PassTypes' /\ TableTypes'
  <2>1. PICK r : Answered(d, x, r)
    BY <1>7 DEF SalesAccepted, SalesUnknown, SalesRejected, SalesLater
  <2>2. PassTypes'
    BY <2>1, EndTypes DEF Answered
  <2>3. billed' \subseteq Calls /\ lost' \subseteq Calls
    BY <1>7 DEF SalesAccepted, SalesUnknown, SalesRejected, SalesLater, PassTypes, TableTypes
  <2>4. faults' \in 0..MaxFaults
    BY <1>7, Bounded DEF SalesAccepted, SalesUnknown, SalesRejected, SalesLater
  <2>5. UNCHANGED <<campaign, old, blocked, reported, request, requests, internal, basis>>
    BY <2>1 DEF Answered
  <2> QED BY <2>2, <2>3, <2>4, <2>5 DEF TableTypes
<1> QED BY <1>2, <1>3, <1>4, <1>5, <1>6, <1>7 DEF SalesPass

\* A request begins or ends.
LEMMA RequestTypes ==
    ASSUME TableTypes
    PROVE  /\ \A kind \in {"import", "block", "delete", "pause", "stop"}, of \in SUBSET Contacts :
                \A at : Begin(kind, of, at) /\ Keep => TableTypes'
           /\ RequestWrites /\ Keep => TableTypes'
           /\ StopWrites => TableTypes'
<1>1. ASSUME NEW kind \in {"import", "block", "delete", "pause", "stop"}, NEW of \in SUBSET Contacts, NEW at,
             Begin(kind, of, at), Keep
      PROVE  TableTypes'
  <2>1. requests' \in 0..MaxRequests
    BY <1>1, Bounded DEF Begin
  <2>2. request'.kind = kind /\ request'.of = of
    BY <1>1 DEF Begin
  <2>3. UNCHANGED <<tables, reported, lost, faults, internal, basis>>
    BY <1>1 DEF Begin, Keep, salesVars
  <2> QED BY <2>1, <2>2, <2>3 DEF TableTypes, tables
<1>2. ASSUME NEW kind, Finish(kind), UNCHANGED <<old, internal, basis>>, billed' \subseteq billed,
             campaign' \in [Campaigns -> {"draft", "running", "paused", "completed", "stopped"}],
             blocked' \in [Phones -> {"no", "manual", "call"}]
      PROVE  TableTypes'
  BY <1>2 DEF Finish, history, NoRequest, TableTypes
<1>3. ASSUME RequestWrites, Keep
      PROVE  TableTypes'
  <2>1. CASE ImportWrites
    BY <1>2, <1>3, <2>1 DEF ImportWrites, TableTypes, Keep, salesVars
  <2>2. CASE BlockWrites
    BY <1>2, <1>3, <2>2 DEF BlockWrites, TableTypes, Keep, salesVars
  <2>3. CASE DeleteWrites
    BY <1>2, <1>3, <2>3 DEF DeleteWrites, TableTypes, Keep, salesVars
  <2>4. CASE PauseWrites
    BY <1>2, <1>3, <2>4 DEF PauseWrites, TableTypes, Keep, salesVars
  <2> QED BY <1>3, <2>1, <2>2, <2>3, <2>4 DEF RequestWrites
<1>4. ASSUME StopWrites
      PROVE  TableTypes'
  BY <1>2, <1>4 DEF StopWrites, TableTypes, Keep, salesVars
<1> QED BY <1>1, <1>3, <1>4

\* The steps of no pass.
LEMMA OtherTypes ==
    ASSUME PassTypes, TableTypes, CountInv,
           \/ Keep /\ \/ \E k \in Calls : CallEnds(k) \/ Report(k)
                      \/ \E x \in Contacts : ReportUnlocks(x) \/ UnlockedEnds(x) \/ RetryDue(x)
                      \/ Customers
                      \/ RequestWrites
           \/ \E x \in Contacts : SalesReportEnds(x) \/ SalesGetsOld(x)
           \/ Operators
    PROVE  PassTypes' /\ TableTypes'
<1> USE DEF Keep, salesVars
<1> DEFINE Still == UNCHANGED passes /\ TableTypes'
<1>1. ASSUME NEW k \in Calls, CallEnds(k) \/ Report(k), Keep
      PROVE  Still
  BY <1>1 DEF CallEnds, Report, ReportBegins, ReportStray, TableTypes, tables, history
<1>2. ASSUME NEW x \in Contacts, ReportUnlocks(x) \/ UnlockedEnds(x) \/ RetryDue(x) \/ GetsOld(x), Keep
      PROVE  Still
  <2>1. ReportUnlocks(x) => reported' \subseteq Calls /\ faults' \in 0..MaxFaults
    <3>1. ASSUME ReportUnlocks(x)
          PROVE  <<x, row[x].call>> \in Calls
      <4>1. row[x].call # 0 /\ row[x].call \in 0..MaxCalls
        BY <3>1 DEF ReportUnlocks, CountInv, RowInv, Explained, RowsUpTo
      <4> QED BY <4>1, ConstantsAssumption DEF Calls
    <3> QED BY <3>1, Bounded DEF ReportUnlocks, TableTypes
  <2> QED BY <1>2, <2>1 DEF ReportUnlocks, UnlockedEnds, RetryDue, GetsOld, TableTypes, tables, history
<1>3. ASSUME NEW x \in Contacts, ReportEnds(x), Keep
      PROVE  Still
  <2>1. <<x, row[x].call>> \in Calls
    <3>1. row[x].call # 0 /\ row[x].call \in 0..MaxCalls
      BY <1>3 DEF ReportEnds, CountInv, RowInv, Explained, RowsUpTo
    <3> QED BY <3>1, ConstantsAssumption DEF Calls
  <2>2. blocked' \in [Phones -> {"no", "manual", "call"}] /\ reported' \subseteq Calls
    BY <1>3, <2>1 DEF ReportEnds, ListAfter, TableTypes
  <2>3. UNCHANGED <<campaign, old, billed, passes, request, lost, faults, requests, internal, basis>>
    BY <1>3 DEF ReportEnds, history
  <2> QED BY <2>2, <2>3 DEF TableTypes
<1>4. ASSUME NEW x \in Contacts, SalesReportEnds(x)
      PROVE  Still
  <2>1. <<x, row[x].call>> \in Calls
    <3>1. row[x].call # 0 /\ row[x].call \in 0..MaxCalls
      BY <1>4 DEF SalesReportEnds, CountInv, RowInv, Explained, RowsUpTo
    <3> QED BY <3>1, ConstantsAssumption DEF Calls
  <2>2. blocked' \in [Phones -> {"no", "manual", "call"}] /\ reported' \subseteq Calls
    BY <1>4, <2>1 DEF SalesReportEnds, ListAfter, TableTypes
  <2>3. UNCHANGED <<campaign, old, billed, passes, request, lost, faults, requests, internal, basis>>
    BY <1>4 DEF SalesReportEnds, history
  <2> QED BY <2>2, <2>3 DEF TableTypes
<1>5. ASSUME NEW x \in Contacts, SalesGetsOld(x)
      PROVE  Still
  BY <1>5 DEF SalesGetsOld, TableTypes, history
<1>6. ASSUME Customers, Keep
      PROVE  Still
  <2>1. ASSUME NEW x \in Contacts, ImportReads(x) \/ DeleteReads(x)
        PROVE  Still
    BY <1>6, <2>1, RequestTypes DEF ImportReads, DeleteReads, Begin
  <2>2. ASSUME NEW p \in Phones, BlockReads(p)
        PROVE  Still
    BY <1>6, <2>2, RequestTypes DEF BlockReads, Begin
  <2>3. ASSUME NEW c \in Campaigns, PauseReads(c)
        PROVE  Still
    BY <1>6, <2>3, RequestTypes DEF PauseReads, Begin
  <2>4. ASSUME NEW c \in Campaigns, Start(c)
        PROVE  Still
    BY <1>6, <2>4 DEF Start, TableTypes, history
  <2>5. ASSUME NEW p \in Phones, Unblock(p)
        PROVE  Still
    BY <1>6, <2>5 DEF Unblock, TableTypes
  <2> QED BY <1>2, <1>3, <1>6, <2>1, <2>2, <2>3, <2>4, <2>5 DEF Customers
<1>7. ASSUME RequestWrites, Keep
      PROVE  Still
  <2>1. UNCHANGED passes
    BY <1>7 DEF RequestWrites, ImportWrites, BlockWrites, DeleteWrites, PauseWrites, Finish
  <2> QED BY <1>7, <2>1, RequestTypes
<1>8. ASSUME Operators
      PROVE  Still
  <2>1. ASSUME NEW x \in Contacts, MemberReads(x)
        PROVE  Still
    BY <2>1, RequestTypes DEF MemberReads, Begin
  <2>2. ASSUME NEW c \in Campaigns, StopReads(c)
        PROVE  Still
    BY <2>2, RequestTypes DEF StopReads, Begin, ContactsOf
  <2>3. ASSUME NEW c \in Campaigns, SalesStart(c)
        PROVE  Still
    BY <2>3 DEF SalesStart, TableTypes, history
  <2>4. ASSUME NEW p \in SalesPhones, RecordBasis(p) \/ WithdrawBasis(p)
        PROVE  Still
    <3>1. p \in Phones
      BY DEF SalesPhones, Phones
    <3>2. requests' \in 0..MaxRequests
      BY <2>4, Bounded DEF RecordBasis, WithdrawBasis
    <3>3. basis' \subseteq Phones
      BY <2>4, <3>1 DEF RecordBasis, WithdrawBasis, TableTypes
    <3>4. UNCHANGED <<tables, passes, request, reported, lost, faults, internal>>
      BY <2>4 DEF RecordBasis, WithdrawBasis
    <3> QED BY <3>2, <3>3, <3>4 DEF TableTypes, tables
  <2>5. ASSUME StopWrites
        PROVE  Still
    BY <2>5, RequestTypes DEF StopWrites, Finish
  <2> QED BY <1>8, <2>1, <2>2, <2>3, <2>4, <2>5 DEF Operators
<1> HIDE DEF Still
<1>9. Still
  BY <1>1, <1>2, <1>4, <1>5, <1>6, <1>7, <1>8
<1> QED BY <1>9, PassesStand DEF Still

LEMMA SalesNextPlain == CountInv /\ PlainInv /\ [SalesNext]_allVars => PlainInv'
<1> SUFFICES ASSUME CountInv, PlainInv, SalesNext \/ UNCHANGED allVars PROVE PassTypes' /\ TableTypes'
  BY PlainParts
<1>1. PassTypes /\ TableTypes
  BY PlainParts
<1>2. ASSUME NEW d \in Dispatchers, CustomerPass(d) \/ SalesPass(d) \/ SalesRollback(d)
      PROVE  PassTypes' /\ TableTypes'
  BY <1>1, <1>2, CustomerTypes, SalesPassTypes
<1>3. CASE UNCHANGED allVars
  BY <1>1, <1>3, PassesStand, TablesStand DEF allVars, vars, tables, passes, history, salesVars, Recorded
<1> QED BY <1>1, <1>2, <1>3, OtherTypes DEF SalesNext

LEMMA SalesInitInv == SalesInit => SalesInv
<1> SUFFICES ASSUME SalesInit PROVE SalesInv
  OBVIOUS
<1> USE DEF SalesInit, Init
<1>1. PlainInv
  <2>1. internal \subseteq Campaigns /\ basis \subseteq Phones
    BY SalesAssumption DEF SalesPhones, Phones
  <2> QED BY <2>1, ConstantsAssumption DEF PlainInv, PassTypes, TableTypes, NoRequest
<1>2. \A x \in Contacts : Cardinality(Taken(x)) = 0
  <2>1. \A x \in Contacts : Taken(x) = {}
    BY DEF Taken
  <2> QED BY <2>1, FS_EmptySet
<1>3. NumberedInv
  <2>1. ASSUME NEW x \in Contacts, NEW n \in 1..MaxCalls
        PROVE  vapi[<<x, n>>] # "none" <=> n <= Cardinality(Taken(x))
    <3>1. <<x, n>> \in Calls /\ vapi = [k \in Calls |-> "none"] /\ n \in Nat /\ n > 0
      BY ConstantsAssumption DEF Calls
    <3> QED BY <1>2, <3>1
  <2> QED BY <2>1 DEF NumberedInv
<1>4. RowInv
  <2>1. 0 \in 0..0 /\ 0 \in 0..MaxCalls /\ {"absent", "pending"} \subseteq Statuses
    BY ConstantsAssumption DEF Statuses, Open
  <2>2. \A r \in {NoRow, NewRow} : r \in RowsUpTo(0)
    <3>1. NoRow \in RowsUpTo(0)
      BY <2>1 DEF RowsUpTo, NoRow
    <3>2. NewRow \in RowsUpTo(0)
      BY <2>1, <3>1 DEF RowsUpTo, NewRow
    <3> QED BY <3>1, <3>2
  <2>3. row \in [Contacts -> {NoRow, NewRow}] /\ reporting = {}
    OBVIOUS
  <2> QED BY <1>2, <2>2, <2>3 DEF RowInv, Explained
<1>5. DraftInv
  BY DEF DraftInv, NoDraft
<1>6. ReadInv
  <2>1. NoSale \in [read : 0..MaxCalls, marked : BOOLEAN]
    BY ConstantsAssumption DEF NoSale
  <2> QED BY <2>1 DEF ReadInv
<1>7. UnwantedInv
  BY <1>2 DEF UnwantedInv
<1> QED BY <1>1, <1>3, <1>4, <1>5, <1>6, <1>7 DEF SalesInv, CountInv

LEMMA UnlockedContacts ==
    ASSUME unlocked \subseteq Contacts, [SalesNext]_allVars
    PROVE  unlocked' \subseteq Contacts
<1> USE DEF tables, passes, history, Keep, salesVars
<1>1. ASSUME NEW d \in Dispatchers, CustomerPass(d)
      PROVE  UNCHANGED unlocked
  BY <1>1 DEF CustomerPass, PassBegin, PassCommit, PassEnds, VisitIdle, VisitComplete, VisitSkip, VisitDial, Visit,
              Accepted, PostRejected, PostWithoutUse, PostEnds
<1>2. ASSUME NEW d \in Dispatchers, SalesPass(d) \/ SalesRollback(d)
      PROVE  UNCHANGED unlocked
  BY <1>2 DEF SalesPass, SalesVisit, SalesMark, SalesTaken, SalesAccepted, SalesUnknown, SalesRejected, SalesLater,
              Answered, SalesVisitSkip, Visit, SalesRollback, PassRollback, PassEnds
<1>3. ASSUME NEW k \in Calls, CallEnds(k) \/ Report(k)
      PROVE  UNCHANGED unlocked
  BY <1>3 DEF CallEnds, Report, ReportBegins, ReportStray
<1>4. ASSUME NEW x \in Contacts, \/ ReportUnlocks(x) \/ UnlockedEnds(x) \/ RetryDue(x) \/ GetsOld(x) \/ ReportEnds(x)
                                 \/ SalesReportEnds(x) \/ SalesGetsOld(x)
      PROVE  unlocked' \subseteq Contacts
  BY <1>4 DEF ReportUnlocks, UnlockedEnds, RetryDue, GetsOld, ReportEnds, SalesReportEnds, SalesGetsOld
<1>5. ASSUME Customers
      PROVE  unlocked' \subseteq Contacts
  BY <1>4, <1>5 DEF Customers, ImportReads, DeleteReads, BlockReads, PauseReads, Begin, Start, Unblock
<1>6. ASSUME RequestWrites \/ Operators
      PROVE  UNCHANGED unlocked
  BY <1>6 DEF RequestWrites, ImportWrites, BlockWrites, DeleteWrites, PauseWrites, Finish, Operators, MemberReads,
              RecordBasis, WithdrawBasis, SalesStart, StopReads, StopWrites, Begin
<1>7. UNCHANGED allVars => UNCHANGED unlocked
  BY DEF allVars, vars
<1> QED BY <1>1, <1>2, <1>3, <1>4, <1>5, <1>6, <1>7 DEF SalesNext

\* Every variable keeps its type, with Dialogbot's own campaigns among the others: no
\* contact counts more attempts than calls there can be.
THEOREM SalesTypeCorrect == SalesSpec => []SalesTypeOK
<1>1. SalesInv /\ [SalesNext]_allVars => SalesInv'
  BY SalesNextCounts, SalesNextPlain DEF SalesInv
<1>2. ASSUME SalesInv, unlocked \subseteq Contacts
      PROVE  SalesTypeOK
  <2>1. /\ PassTypes /\ TableTypes
        /\ NumberedInv /\ RowInv /\ DraftInv /\ ReadInv /\ UnwantedInv
    BY <1>2, PlainParts DEF SalesInv, CountInv
  <2>2. \A x \in Contacts : Explained(x) \subseteq RowsUpTo(MaxCalls)
    <3>1. ASSUME NEW x \in Contacts
          PROVE  Explained(x) \subseteq RowsUpTo(MaxCalls)
      <4>1. PICK m \in Nat : m = Cardinality(Taken(x)) /\ m <= MaxCalls
        BY TakenBounded, ConstantsAssumption
      <4>2. RowsUpTo(m) \subseteq RowsUpTo(MaxCalls)
        BY <4>1, MoreRows, ConstantsAssumption
      <4> QED BY <4>1, <4>2 DEF Explained
    <3> QED BY <3>1
  <2>3. ASSUME NEW d \in Dispatchers
        PROVE  Cardinality(dialling[d]) <= 1
    <3>1. CASE dialling[d] = {}
      BY <3>1, FS_EmptySet
    <3>2. CASE dialling[d] # {}
      <4>1. PICK x : x \in dialling[d]
        BY <3>2
      <4>2. dialling[d] = {x}
        BY <2>1, <4>1 DEF PassTypes
      <4>3. Cardinality({x}) = 1
        BY FS_Singleton
      <4> QED BY <4>2, <4>3
    <3> QED BY <3>1, <3>2
  <2>4. intrusions \in [Contacts -> 0..MaxCalls]
    <3>1. ASSUME NEW x \in Contacts
          PROVE  intrusions[x] \in 0..MaxCalls
      <4>1. Cardinality(Taken(x)) \in 0..MaxCalls
        BY TakenBounded
      <4>2. intrusions[x] \in Nat /\ intrusions[x] <= Cardinality(Taken(x))
        BY <2>1 DEF UnwantedInv
      <4> QED BY <4>1, <4>2, ConstantsAssumption
    <3> QED BY <2>1, <3>1 DEF UnwantedInv
  <2>5. \A d \in Dispatchers :
            /\ todo[d] \cup completing[d] \cup locked[d] \subseteq Campaigns
            /\ dialling[d] \subseteq Contacts /\ placed[d] \subseteq Calls
    BY <2>1 DEF PassTypes
  <2>6. \A d \in Dispatchers :
            /\ DOMAIN draft[d] \subseteq Contacts
            /\ \A x \in DOMAIN draft[d] : draft[d][x] \in RowsUpTo(MaxCalls)
    BY <2>1, <2>2 DEF DraftInv
  <2>7. reporting \subseteq Contacts /\ row \in [Contacts -> RowsUpTo(MaxCalls)]
    BY <2>1, <2>2 DEF RowInv
  <2>8. /\ vapi \in [Calls -> {"none", "live"} \cup Ends]
        /\ sale \in [Dispatchers -> [read : 0..MaxCalls, marked : BOOLEAN]]
    BY <2>1 DEF NumberedInv, ReadInv
  <2>9. TypesWith(RowsUpTo(MaxCalls))
    BY <1>2, <2>1, <2>3, <2>4, <2>5, <2>6, <2>7, <2>8 DEF TypesWith, PassTypes, TableTypes
  <2> QED BY <2>1, <2>8, <2>9 DEF SalesTypeOK, TableTypes
<1>3. SalesInit => unlocked \subseteq Contacts
  BY DEF SalesInit, Init
<1>4. unlocked \subseteq Contacts /\ [SalesNext]_allVars => (unlocked \subseteq Contacts)'
  BY UnlockedContacts
<1>5. SalesInv /\ unlocked \subseteq Contacts => SalesTypeOK
  BY <1>2
<1> QED BY <1>1, <1>3, <1>4, <1>5, SalesInitInv, PTL DEF SalesSpec

=============================================================================
