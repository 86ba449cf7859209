---------------------------- MODULE PrivateProofs ----------------------------
(***************************************************************************)
(* Theorems about the private product: PrivateCalls, for every finite set of *)
(* tasks, every bound and any means, and Subscriptions, for any number of     *)
(* Checkouts, credit packs and processes.  CallInv says what a call's columns,  *)
(* its dialling thread, Vapi and the ledger say of each other; LockInv what     *)
(* approve() holds between its decision and its commit; MeansInv adds what     *)
(* the decision rests on.  StoreInv and RightsInv are about the shop.          *)
(***************************************************************************)
EXTENDS PrivateCalls, Subscriptions, FiniteSetTheorems, TLAPS

Unstarted == {"absent", "proposed", "scheduled", "approved"}

\* Before a call is dialled nothing is known of it and no credits have moved back.
Untouched(c) ==
    /\ result[c] = "null" /\ posts[c] = 0 /\ vapi[c] = "none"
    /\ c \notin old \cup recorded \cup overwritten
    /\ dialler[c] # "posting"
    /\ <<c, "capture">> \notin ledger /\ <<c, "release">> \notin ledger

PaidInv(c) ==
    /\ status[c] \in {"absent", "proposed"} => paid_via[c] = "null" /\ dialler[c] = "none"
    /\ status[c] \in Running \cup {"scheduled", "approved"} => paid_via[c] # "null"
    /\ paid_via[c] = "credits" <=> Held(c)
    /\ <<c, "capture">> \in ledger \/ <<c, "release">> \in ledger => Held(c)

DialInv(c) ==
    /\ status[c] \in Unstarted => Untouched(c)
    /\ status[c] = "declined" => posts[c] = 0 /\ vapi[c] = "none" /\ dialler[c] = "none"
    /\ dialler[c] = "started" => status[c] = "approved"
    /\ dialler[c] = "posting" => c \notin old /\ posts[c] = 1 /\ status[c] \in Running \cup Ended
    /\ posts[c] <= 1
    /\ posts[c] = 1 => paid_via[c] # "null"
    /\ posts[c] = 0 => vapi[c] = "none"
    /\ callback[c] # "none" => posts[c] = 1

SettleInv(c) ==
    /\ c \in recorded => vapi[c] \in Ended
    /\ <<c, "capture">> \in ledger => c \in recorded /\ (status[c] = "answered" \/ c \in overwritten)
    /\ <<c, "release">> \in ledger => c \in recorded \/ status[c] \in {"declined", "failed"}
    /\ result[c] \in {"no_answer", "failed"} => c \in recorded \/ status[c] = "failed"
    /\ {<<c, "capture">>, <<c, "release">>} \subseteq ledger => c \in overwritten

CallInv == \A c \in Calls : PaidInv(c) /\ DialInv(c) /\ SettleInv(c)

LockInv ==
    /\ \A t, u \in Tasks : approving[t] # "no" /\ approving[u] # "no" => t = u
    /\ \A t \in Tasks :
        /\ approving[t] # "no" => newest[t] # 0 /\ status[Newest(t)] = "proposed"
        /\ task[t] = "absent" => newest[t] = 0
        /\ task[t] # "absent" => newest[t] # 0
    /\ \A c \in Calls : c[2] > newest[c[1]] => status[c] = "absent"

RowsInv == TypeOK /\ CallInv /\ LockInv

\* The decision stands until the commit: nothing else is paid for meanwhile.
MeansInv ==
    /\ WithinMeans
    /\ \A t \in Tasks :
        /\ approving[t] = "plan" => Cardinality(Counted) < means.quota
        /\ approving[t] = "credits" => Balance >= CALL_CREDITS

LEMMA NewestIsCall ==
    ASSUME TypeOK, NEW t \in Tasks, newest[t] # 0
    PROVE  Newest(t) \in Calls /\ Newest(t)[1] = t /\ Newest(t)[2] = newest[t]
BY ConstantsAssumption DEF TypeOK, Newest, Calls

LEMMA CallsAreOfTasks == \A c \in Calls : c[1] \in Tasks
BY DEF Calls

LEMMA InitRowsInv == Init => RowsInv
BY ConstantsAssumption, CallsAreOfTasks DEF Init, RowsInv, TypeOK, CallInv, LockInv, PaidInv,
   DialInv, SettleInv, Untouched, Unstarted, Running, Final, Held, Ended, TaskStatuses, Kinds, Statuses

-----------------------------------------------------------------------------
(* Dialling, reports and the sweep concern one call, whose thread, status and *)
(* ledger entries they change.                                              *)

\* A step that does not touch a call's columns, its thread or its entries ...
Unmoved(d) ==
    /\ status'[d] = status[d] /\ result'[d] = result[d] /\ paid_via'[d] = paid_via[d]
    /\ posts'[d] = posts[d] /\ vapi'[d] = vapi[d] /\ dialler'[d] = dialler[d] /\ callback'[d] = callback[d]
    /\ d \in old' <=> d \in old
    /\ d \in recorded' <=> d \in recorded
    /\ d \in overwritten' <=> d \in overwritten
    /\ \A k \in Kinds : <<d, k>> \in ledger' <=> <<d, k>> \in ledger

\* ... keeps what is known of it.
LEMMA OtherCalls ==
    ASSUME NEW d, PaidInv(d), DialInv(d), SettleInv(d), Unmoved(d)
    PROVE  PaidInv(d)' /\ DialInv(d)' /\ SettleInv(d)'
BY DEF Unmoved, PaidInv, DialInv, SettleInv, Untouched, Unstarted, Held, Kinds

\* The locks are not concerned by what happens to a call that was approved.
LEMMA OtherLocks ==
    ASSUME TypeOK, LockInv, NEW c \in Calls, status[c] \notin {"absent", "proposed"},
           approving' = approving, newest' = newest,
           \A d \in Calls : d # c => status'[d] = status[d],
           \A t \in Tasks : task'[t] = task[t] \/ (t = c[1] /\ task'[t] # "absent")
    PROVE  LockInv'
<1>1. c[1] \in Tasks /\ newest[c[1]] # 0 /\ c[2] <= newest[c[1]]
  BY CallsAreOfTasks, ConstantsAssumption DEF TypeOK, LockInv, Calls
<1>2. ASSUME NEW t \in Tasks, approving[t] # "no"
      PROVE  Newest(t) \in Calls /\ Newest(t) # c
  BY <1>2, NewestIsCall DEF LockInv
<1>3. ASSUME NEW t \in Tasks
      PROVE  Newest(t)' = Newest(t) /\ (task'[t] = "absent" <=> task[t] = "absent")
  BY <1>1, <1>3 DEF LockInv, Newest
<1>4. \A d \in Calls : d[2] > newest'[d[1]] => status'[d] = "absent"
  BY <1>1 DEF LockInv, TypeOK, Calls
<1> QED BY <1>2, <1>3, <1>4 DEF LockInv

LEMMA CallDueInv ==
    ASSUME RowsInv, NEW c \in Calls, CallDue(c)
    PROVE  RowsInv'
<1>1. TypeOK /\ LockInv /\ PaidInv(c) /\ DialInv(c) /\ SettleInv(c)
  BY DEF RowsInv, CallInv
<1>2. ASSUME NEW d \in Calls, d # c
      PROVE  PaidInv(d)' /\ DialInv(d)' /\ SettleInv(d)'
  <2>1. Unmoved(d)
    BY <1>1, <1>2 DEF Unmoved, TypeOK, CallDue, DueNow, rows, tasks, threads, provider, history
  <2> QED BY <2>1, OtherCalls DEF RowsInv, CallInv
<1> USE DEF rows, tasks, threads, provider, history, Final, Running, Statuses, TaskStatuses, Kinds, Ended
<1>3. TypeOK'
  BY <1>1, CallsAreOfTasks, ConstantsAssumption DEF TypeOK, CallDue, DueNow
<1>4. PaidInv(c)'
  BY <1>1 DEF TypeOK, CallDue, DueNow, PaidInv, DialInv, SettleInv, Untouched, Unstarted, Held
<1>5. DialInv(c)'
  BY <1>1 DEF TypeOK, CallDue, DueNow, PaidInv, DialInv, SettleInv, Untouched, Unstarted, Held
<1>6. SettleInv(c)'
  BY <1>1 DEF TypeOK, CallDue, DueNow, PaidInv, DialInv, SettleInv, Untouched, Unstarted, Held
<1>7. LockInv'
  <2>1. status[c] \notin {"absent", "proposed"}
    BY <1>1 DEF TypeOK, CallDue, DueNow, DialInv, PaidInv, Untouched, Unstarted
  <2>2. approving' = approving /\ newest' = newest
    BY DEF CallDue, DueNow
  <2>3. \A d \in Calls : d # c => status'[d] = status[d]
    BY <1>1 DEF TypeOK, CallDue, DueNow
  <2>4. \A t \in Tasks : task'[t] = task[t] \/ (t = c[1] /\ task'[t] # "absent")
    BY <1>1 DEF TypeOK, CallDue, DueNow
  <2> QED BY <1>1, <2>1, <2>2, <2>3, <2>4, OtherLocks
<1> QED BY <1>2, <1>3, <1>4, <1>5, <1>6, <1>7 DEF RowsInv, CallInv

LEMMA DialStartInv ==
    ASSUME RowsInv, NEW c \in Calls, DialStart(c)
    PROVE  RowsInv'
<1>1. TypeOK /\ LockInv /\ PaidInv(c) /\ DialInv(c) /\ SettleInv(c)
  BY DEF RowsInv, CallInv
<1>2. ASSUME NEW d \in Calls, d # c
      PROVE  PaidInv(d)' /\ DialInv(d)' /\ SettleInv(d)'
  <2>1. Unmoved(d)
    BY <1>1, <1>2 DEF Unmoved, TypeOK, DialStart, rows, tasks, threads, provider, history
  <2> QED BY <2>1, OtherCalls DEF RowsInv, CallInv
<1> USE DEF rows, tasks, threads, provider, history, Final, Running, Statuses, TaskStatuses, Kinds, Ended
<1>3. TypeOK'
  BY <1>1, CallsAreOfTasks, ConstantsAssumption DEF TypeOK, DialStart
<1>4. PaidInv(c)'
  BY <1>1 DEF TypeOK, DialStart, PaidInv, DialInv, SettleInv, Untouched, Unstarted, Held
<1>5. DialInv(c)'
  BY <1>1 DEF TypeOK, DialStart, PaidInv, DialInv, SettleInv, Untouched, Unstarted, Held
<1>6. SettleInv(c)'
  BY <1>1 DEF TypeOK, DialStart, PaidInv, DialInv, SettleInv, Untouched, Unstarted, Held
<1>7. LockInv'
  <2>1. status[c] \notin {"absent", "proposed"}
    BY <1>1 DEF TypeOK, DialStart, DialInv, PaidInv, Untouched, Unstarted
  <2>2. approving' = approving /\ newest' = newest
    BY DEF DialStart
  <2>3. \A d \in Calls : d # c => status'[d] = status[d]
    BY <1>1 DEF TypeOK, DialStart
  <2>4. \A t \in Tasks : task'[t] = task[t] \/ (t = c[1] /\ task'[t] # "absent")
    BY <1>1 DEF TypeOK, DialStart
  <2> QED BY <1>1, <2>1, <2>2, <2>3, <2>4, OtherLocks
<1> QED BY <1>2, <1>3, <1>4, <1>5, <1>6, <1>7 DEF RowsInv, CallInv

LEMMA DialAcceptedInv ==
    ASSUME RowsInv, NEW c \in Calls, DialAccepted(c)
    PROVE  RowsInv'
<1>1. TypeOK /\ LockInv /\ PaidInv(c) /\ DialInv(c) /\ SettleInv(c)
  BY DEF RowsInv, CallInv
<1>2. ASSUME NEW d \in Calls, d # c
      PROVE  PaidInv(d)' /\ DialInv(d)' /\ SettleInv(d)'
  <2>1. Unmoved(d)
    BY <1>1, <1>2 DEF Unmoved, TypeOK, DialAccepted, DialEnd, rows, tasks, threads, provider, history
  <2> QED BY <2>1, OtherCalls DEF RowsInv, CallInv
<1> USE DEF rows, tasks, threads, provider, history, Final, Running, Statuses, TaskStatuses, Kinds, Ended
<1>3. TypeOK'
  BY <1>1, CallsAreOfTasks, ConstantsAssumption DEF TypeOK, DialAccepted, DialEnd
<1>4. PaidInv(c)'
  BY <1>1 DEF TypeOK, DialAccepted, DialEnd, PaidInv, DialInv, SettleInv, Untouched, Unstarted, Held
<1>5. DialInv(c)'
  BY <1>1 DEF TypeOK, DialAccepted, DialEnd, PaidInv, DialInv, SettleInv, Untouched, Unstarted, Held
<1>6. SettleInv(c)'
  BY <1>1 DEF TypeOK, DialAccepted, DialEnd, PaidInv, DialInv, SettleInv, Untouched, Unstarted, Held
<1>7. LockInv'
  <2>1. status[c] \notin {"absent", "proposed"}
    BY <1>1 DEF TypeOK, DialAccepted, DialEnd, DialInv, PaidInv, Untouched, Unstarted
  <2>2. approving' = approving /\ newest' = newest
    BY DEF DialAccepted, DialEnd
  <2>3. \A d \in Calls : d # c => status'[d] = status[d]
    BY <1>1 DEF TypeOK, DialAccepted, DialEnd
  <2>4. \A t \in Tasks : task'[t] = task[t] \/ (t = c[1] /\ task'[t] # "absent")
    BY <1>1 DEF TypeOK, DialAccepted, DialEnd
  <2> QED BY <1>1, <2>1, <2>2, <2>3, <2>4, OtherLocks
<1> QED BY <1>2, <1>3, <1>4, <1>5, <1>6, <1>7 DEF RowsInv, CallInv

LEMMA DialSilentInv ==
    ASSUME RowsInv, NEW c \in Calls, DialSilent(c)
    PROVE  RowsInv'
<1>1. TypeOK /\ LockInv /\ PaidInv(c) /\ DialInv(c) /\ SettleInv(c)
  BY DEF RowsInv, CallInv
<1>2. ASSUME NEW d \in Calls, d # c
      PROVE  PaidInv(d)' /\ DialInv(d)' /\ SettleInv(d)'
  <2>1. Unmoved(d)
    BY <1>1, <1>2 DEF Unmoved, TypeOK, DialSilent, DialEnd, rows, tasks, threads, provider, history
  <2> QED BY <2>1, OtherCalls DEF RowsInv, CallInv
<1> USE DEF rows, tasks, threads, provider, history, Final, Running, Statuses, TaskStatuses, Kinds, Ended
<1>3. TypeOK'
  BY <1>1, CallsAreOfTasks, ConstantsAssumption DEF TypeOK, DialSilent, DialEnd
<1>4. PaidInv(c)'
  BY <1>1 DEF TypeOK, DialSilent, DialEnd, PaidInv, DialInv, SettleInv, Untouched, Unstarted, Held
<1>5. DialInv(c)'
  BY <1>1 DEF TypeOK, DialSilent, DialEnd, PaidInv, DialInv, SettleInv, Untouched, Unstarted, Held
<1>6. SettleInv(c)'
  BY <1>1 DEF TypeOK, DialSilent, DialEnd, PaidInv, DialInv, SettleInv, Untouched, Unstarted, Held
<1>7. LockInv'
  <2>1. status[c] \notin {"absent", "proposed"}
    BY <1>1 DEF TypeOK, DialSilent, DialEnd, DialInv, PaidInv, Untouched, Unstarted
  <2>2. approving' = approving /\ newest' = newest
    BY DEF DialSilent, DialEnd
  <2>3. \A d \in Calls : d # c => status'[d] = status[d]
    BY <1>1 DEF TypeOK, DialSilent, DialEnd
  <2>4. \A t \in Tasks : task'[t] = task[t] \/ (t = c[1] /\ task'[t] # "absent")
    BY <1>1 DEF TypeOK, DialSilent, DialEnd
  <2> QED BY <1>1, <2>1, <2>2, <2>3, <2>4, OtherLocks
<1> QED BY <1>2, <1>3, <1>4, <1>5, <1>6, <1>7 DEF RowsInv, CallInv

LEMMA DialRejectedInv ==
    ASSUME RowsInv, NEW c \in Calls, DialRejected(c)
    PROVE  RowsInv'
<1>1. TypeOK /\ LockInv /\ PaidInv(c) /\ DialInv(c) /\ SettleInv(c)
  BY DEF RowsInv, CallInv
<1>2. ASSUME NEW d \in Calls, d # c
      PROVE  PaidInv(d)' /\ DialInv(d)' /\ SettleInv(d)'
  <2>1. Unmoved(d)
    BY <1>1, <1>2 DEF Unmoved, TypeOK, DialRejected, DialEnd, Release, Book, TaskFree, rows, tasks,
       threads, provider, history
  <2> QED BY <2>1, OtherCalls DEF RowsInv, CallInv
<1> USE DEF rows, tasks, threads, provider, history, Final, Running, Statuses, TaskStatuses, Kinds, Ended
<1>3. TypeOK'
  BY <1>1, CallsAreOfTasks, ConstantsAssumption DEF TypeOK, DialRejected, DialEnd, Release, Book,
     TaskFree
<1>4. PaidInv(c)'
  BY <1>1 DEF TypeOK, DialRejected, DialEnd, Release, Book, TaskFree, PaidInv, DialInv, SettleInv,
     Untouched, Unstarted, Held
<1>5. DialInv(c)'
  BY <1>1 DEF TypeOK, DialRejected, DialEnd, Release, Book, TaskFree, PaidInv, DialInv, SettleInv,
     Untouched, Unstarted, Held
<1>6. SettleInv(c)'
  BY <1>1 DEF TypeOK, DialRejected, DialEnd, Release, Book, TaskFree, PaidInv, DialInv, SettleInv,
     Untouched, Unstarted, Held
<1>7. LockInv'
  <2>1. status[c] \notin {"absent", "proposed"}
    BY <1>1 DEF TypeOK, DialRejected, DialEnd, Release, Book, TaskFree, DialInv, PaidInv,
       Untouched, Unstarted
  <2>2. approving' = approving /\ newest' = newest
    BY DEF DialRejected, DialEnd, Release, Book, TaskFree
  <2>3. \A d \in Calls : d # c => status'[d] = status[d]
    BY <1>1 DEF TypeOK, DialRejected, DialEnd, Release, Book, TaskFree
  <2>4. \A t \in Tasks : task'[t] = task[t] \/ (t = c[1] /\ task'[t] # "absent")
    BY <1>1 DEF TypeOK, DialRejected, DialEnd, Release, Book, TaskFree
  <2> QED BY <1>1, <2>1, <2>2, <2>3, <2>4, OtherLocks
<1> QED BY <1>2, <1>3, <1>4, <1>5, <1>6, <1>7 DEF RowsInv, CallInv

LEMMA CrashInv ==
    ASSUME RowsInv, NEW c \in Calls, Crash(c)
    PROVE  RowsInv'
<1>1. TypeOK /\ LockInv /\ PaidInv(c) /\ DialInv(c) /\ SettleInv(c)
  BY DEF RowsInv, CallInv
<1>2. ASSUME NEW d \in Calls, d # c
      PROVE  PaidInv(d)' /\ DialInv(d)' /\ SettleInv(d)'
  <2>1. Unmoved(d)
    BY <1>1, <1>2 DEF Unmoved, TypeOK, Crash, rows, tasks, threads, provider, history
  <2> QED BY <2>1, OtherCalls DEF RowsInv, CallInv
<1> USE DEF rows, tasks, threads, provider, history, Final, Running, Statuses, TaskStatuses, Kinds, Ended
<1>3. TypeOK'
  BY <1>1, CallsAreOfTasks, ConstantsAssumption DEF TypeOK, Crash
<1>4. PaidInv(c)'
  BY <1>1 DEF TypeOK, Crash, PaidInv, DialInv, SettleInv, Untouched, Unstarted, Held
<1>5. DialInv(c)'
  BY <1>1 DEF TypeOK, Crash, PaidInv, DialInv, SettleInv, Untouched, Unstarted, Held
<1>6. SettleInv(c)'
  BY <1>1 DEF TypeOK, Crash, PaidInv, DialInv, SettleInv, Untouched, Unstarted, Held
<1>7. LockInv'
  <2>1. status[c] \notin {"absent", "proposed"}
    BY <1>1 DEF TypeOK, Crash, DialInv, PaidInv, Untouched, Unstarted
  <2>2. approving' = approving /\ newest' = newest
    BY DEF Crash
  <2>3. \A d \in Calls : d # c => status'[d] = status[d]
    BY <1>1 DEF TypeOK, Crash
  <2>4. \A t \in Tasks : task'[t] = task[t] \/ (t = c[1] /\ task'[t] # "absent")
    BY <1>1 DEF TypeOK, Crash
  <2> QED BY <1>1, <2>1, <2>2, <2>3, <2>4, OtherLocks
<1> QED BY <1>2, <1>3, <1>4, <1>5, <1>6, <1>7 DEF RowsInv, CallInv

LEMMA VapiTakesInv ==
    ASSUME RowsInv, NEW c \in Calls, VapiTakes(c)
    PROVE  RowsInv'
<1>1. TypeOK /\ LockInv /\ PaidInv(c) /\ DialInv(c) /\ SettleInv(c)
  BY DEF RowsInv, CallInv
<1>2. ASSUME NEW d \in Calls, d # c
      PROVE  PaidInv(d)' /\ DialInv(d)' /\ SettleInv(d)'
  <2>1. Unmoved(d)
    BY <1>1, <1>2 DEF Unmoved, TypeOK, VapiTakes, rows, tasks, threads, provider, history
  <2> QED BY <2>1, OtherCalls DEF RowsInv, CallInv
<1> USE DEF rows, tasks, threads, provider, history, Final, Running, Statuses, TaskStatuses, Kinds, Ended
<1>3. TypeOK'
  BY <1>1, CallsAreOfTasks, ConstantsAssumption DEF TypeOK, VapiTakes
<1>4. PaidInv(c)'
  BY <1>1 DEF TypeOK, VapiTakes, PaidInv, DialInv, SettleInv, Untouched, Unstarted, Held
<1>5. DialInv(c)'
  BY <1>1 DEF TypeOK, VapiTakes, PaidInv, DialInv, SettleInv, Untouched, Unstarted, Held
<1>6. SettleInv(c)'
  BY <1>1 DEF TypeOK, VapiTakes, PaidInv, DialInv, SettleInv, Untouched, Unstarted, Held
<1>7. LockInv'
  <2>1. status[c] \notin {"absent", "proposed"}
    BY <1>1 DEF TypeOK, VapiTakes, DialInv, PaidInv, Untouched, Unstarted
  <2>2. approving' = approving /\ newest' = newest
    BY DEF VapiTakes
  <2>3. \A d \in Calls : d # c => status'[d] = status[d]
    BY <1>1 DEF TypeOK, VapiTakes
  <2>4. \A t \in Tasks : task'[t] = task[t] \/ (t = c[1] /\ task'[t] # "absent")
    BY <1>1 DEF TypeOK, VapiTakes
  <2> QED BY <1>1, <2>1, <2>2, <2>3, <2>4, OtherLocks
<1> QED BY <1>2, <1>3, <1>4, <1>5, <1>6, <1>7 DEF RowsInv, CallInv

LEMMA CallEndsInv ==
    ASSUME RowsInv, NEW c \in Calls, CallEnds(c)
    PROVE  RowsInv'
<1>1. TypeOK /\ LockInv /\ PaidInv(c) /\ DialInv(c) /\ SettleInv(c)
  BY DEF RowsInv, CallInv
<1>2. ASSUME NEW d \in Calls, d # c
      PROVE  PaidInv(d)' /\ DialInv(d)' /\ SettleInv(d)'
  <2>1. Unmoved(d)
    BY <1>1, <1>2 DEF Unmoved, TypeOK, CallEnds, rows, tasks, threads, provider, history
  <2> QED BY <2>1, OtherCalls DEF RowsInv, CallInv
<1> USE DEF rows, tasks, threads, provider, history, Final, Running, Statuses, TaskStatuses, Kinds, Ended
<1>3. TypeOK'
  BY <1>1, CallsAreOfTasks, ConstantsAssumption DEF TypeOK, CallEnds
<1>4. PaidInv(c)'
  BY <1>1 DEF TypeOK, CallEnds, PaidInv, DialInv, SettleInv, Untouched, Unstarted, Held
<1>5. DialInv(c)'
  BY <1>1 DEF TypeOK, CallEnds, PaidInv, DialInv, SettleInv, Untouched, Unstarted, Held
<1>6. SettleInv(c)'
  BY <1>1 DEF TypeOK, CallEnds, PaidInv, DialInv, SettleInv, Untouched, Unstarted, Held
<1>7. LockInv'
  <2>1. status[c] \notin {"absent", "proposed"}
    BY <1>1 DEF TypeOK, CallEnds, DialInv, PaidInv, Untouched, Unstarted
  <2>2. approving' = approving /\ newest' = newest
    BY DEF CallEnds
  <2>3. \A d \in Calls : d # c => status'[d] = status[d]
    BY <1>1 DEF TypeOK, CallEnds
  <2>4. \A t \in Tasks : task'[t] = task[t] \/ (t = c[1] /\ task'[t] # "absent")
    BY <1>1 DEF TypeOK, CallEnds
  <2> QED BY <1>1, <2>1, <2>2, <2>3, <2>4, OtherLocks
<1> QED BY <1>2, <1>3, <1>4, <1>5, <1>6, <1>7 DEF RowsInv, CallInv

LEMMA ReportNoAnswerInv ==
    ASSUME RowsInv, NEW c \in Calls, ReportNoAnswer(c)
    PROVE  RowsInv'
<1>1. TypeOK /\ LockInv /\ PaidInv(c) /\ DialInv(c) /\ SettleInv(c)
  BY DEF RowsInv, CallInv
<1>2. ASSUME NEW d \in Calls, d # c
      PROVE  PaidInv(d)' /\ DialInv(d)' /\ SettleInv(d)'
  <2>1. Unmoved(d)
    BY <1>1, <1>2 DEF Unmoved, TypeOK, ReportNoAnswer, Reportable, Release, Book, TaskFree, rows,
       tasks, threads, provider, history
  <2> QED BY <2>1, OtherCalls DEF RowsInv, CallInv
<1> USE DEF rows, tasks, threads, provider, history, Final, Running, Statuses, TaskStatuses, Kinds, Ended
<1>3. TypeOK'
  BY <1>1, CallsAreOfTasks, ConstantsAssumption DEF TypeOK, ReportNoAnswer, Reportable, Release,
     Book, TaskFree
<1>4. PaidInv(c)'
  BY <1>1 DEF TypeOK, ReportNoAnswer, Reportable, Release, Book, TaskFree, PaidInv, DialInv,
     SettleInv, Untouched, Unstarted, Held
<1>5. DialInv(c)'
  BY <1>1 DEF TypeOK, ReportNoAnswer, Reportable, Release, Book, TaskFree, PaidInv, DialInv,
     SettleInv, Untouched, Unstarted, Held
<1>6. SettleInv(c)'
  BY <1>1 DEF TypeOK, ReportNoAnswer, Reportable, Release, Book, TaskFree, PaidInv, DialInv,
     SettleInv, Untouched, Unstarted, Held
<1>7. LockInv'
  <2>1. status[c] \notin {"absent", "proposed"}
    BY <1>1 DEF TypeOK, ReportNoAnswer, Reportable, Release, Book, TaskFree, DialInv, PaidInv,
       Untouched, Unstarted
  <2>2. approving' = approving /\ newest' = newest
    BY DEF ReportNoAnswer, Reportable, Release, Book, TaskFree
  <2>3. \A d \in Calls : d # c => status'[d] = status[d]
    BY <1>1 DEF TypeOK, ReportNoAnswer, Reportable, Release, Book, TaskFree
  <2>4. \A t \in Tasks : task'[t] = task[t] \/ (t = c[1] /\ task'[t] # "absent")
    BY <1>1 DEF TypeOK, ReportNoAnswer, Reportable, Release, Book, TaskFree
  <2> QED BY <1>1, <2>1, <2>2, <2>3, <2>4, OtherLocks
<1> QED BY <1>2, <1>3, <1>4, <1>5, <1>6, <1>7 DEF RowsInv, CallInv

LEMMA ReportAnsweredInv ==
    ASSUME RowsInv, NEW c \in Calls, ReportAnswered(c)
    PROVE  RowsInv'
<1>1. TypeOK /\ LockInv /\ PaidInv(c) /\ DialInv(c) /\ SettleInv(c)
  BY DEF RowsInv, CallInv
<1>2. ASSUME NEW d \in Calls, d # c
      PROVE  PaidInv(d)' /\ DialInv(d)' /\ SettleInv(d)'
  <2>1. Unmoved(d)
    BY <1>1, <1>2 DEF Unmoved, TypeOK, ReportAnswered, Reportable, Book, TaskFree, rows, tasks,
       threads, provider, history
  <2> QED BY <2>1, OtherCalls DEF RowsInv, CallInv
<1> USE DEF rows, tasks, threads, provider, history, Final, Running, Statuses, TaskStatuses, Kinds, Ended
<1>3. TypeOK'
  BY <1>1, CallsAreOfTasks, ConstantsAssumption DEF TypeOK, ReportAnswered, Reportable, Book, TaskFree
<1>4. PaidInv(c)'
  BY <1>1 DEF TypeOK, ReportAnswered, Reportable, Book, TaskFree, PaidInv, DialInv, SettleInv,
     Untouched, Unstarted, Held
<1>5. DialInv(c)'
  BY <1>1 DEF TypeOK, ReportAnswered, Reportable, Book, TaskFree, PaidInv, DialInv, SettleInv,
     Untouched, Unstarted, Held
<1>6. SettleInv(c)'
  BY <1>1 DEF TypeOK, ReportAnswered, Reportable, Book, TaskFree, PaidInv, DialInv, SettleInv,
     Untouched, Unstarted, Held
<1>7. LockInv'
  <2>1. status[c] \notin {"absent", "proposed"}
    BY <1>1 DEF TypeOK, ReportAnswered, Reportable, Book, TaskFree, DialInv, PaidInv, Untouched,
       Unstarted
  <2>2. approving' = approving /\ newest' = newest
    BY DEF ReportAnswered, Reportable, Book, TaskFree
  <2>3. \A d \in Calls : d # c => status'[d] = status[d]
    BY <1>1 DEF TypeOK, ReportAnswered, Reportable, Book, TaskFree
  <2>4. \A t \in Tasks : task'[t] = task[t] \/ (t = c[1] /\ task'[t] # "absent")
    BY <1>1 DEF TypeOK, ReportAnswered, Reportable, Book, TaskFree
  <2> QED BY <1>1, <2>1, <2>2, <2>3, <2>4, OtherLocks
<1> QED BY <1>2, <1>3, <1>4, <1>5, <1>6, <1>7 DEF RowsInv, CallInv

LEMMA CallbackReadInv ==
    ASSUME RowsInv, NEW c \in Calls, CallbackRead(c)
    PROVE  RowsInv'
<1>1. TypeOK /\ LockInv /\ PaidInv(c) /\ DialInv(c) /\ SettleInv(c)
  BY DEF RowsInv, CallInv
<1>2. ASSUME NEW d \in Calls, d # c
      PROVE  PaidInv(d)' /\ DialInv(d)' /\ SettleInv(d)'
  <2>1. Unmoved(d)
    BY <1>1, <1>2 DEF Unmoved, TypeOK, CallbackRead, rows, tasks, threads, provider, history
  <2> QED BY <2>1, OtherCalls DEF RowsInv, CallInv
<1> USE DEF rows, tasks, threads, provider, history, Final, Running, Statuses, TaskStatuses, Kinds, Ended
<1>3. TypeOK'
  BY <1>1, CallsAreOfTasks, ConstantsAssumption DEF TypeOK, CallbackRead
<1>4. PaidInv(c)'
  BY <1>1 DEF TypeOK, CallbackRead, PaidInv, DialInv, SettleInv, Untouched, Unstarted, Held
<1>5. DialInv(c)'
  BY <1>1 DEF TypeOK, CallbackRead, PaidInv, DialInv, SettleInv, Untouched, Unstarted, Held
<1>6. SettleInv(c)'
  BY <1>1 DEF TypeOK, CallbackRead, PaidInv, DialInv, SettleInv, Untouched, Unstarted, Held
<1>7. LockInv'
  <2>1. status[c] \notin {"absent", "proposed"}
    BY <1>1 DEF TypeOK, CallbackRead, DialInv, PaidInv, Untouched, Unstarted
  <2>2. approving' = approving /\ newest' = newest
    BY DEF CallbackRead
  <2>3. \A d \in Calls : d # c => status'[d] = status[d]
    BY <1>1 DEF TypeOK, CallbackRead
  <2>4. \A t \in Tasks : task'[t] = task[t] \/ (t = c[1] /\ task'[t] # "absent")
    BY <1>1 DEF TypeOK, CallbackRead
  <2> QED BY <1>1, <2>1, <2>2, <2>3, <2>4, OtherLocks
<1> QED BY <1>2, <1>3, <1>4, <1>5, <1>6, <1>7 DEF RowsInv, CallInv

LEMMA CallbackWriteInv ==
    ASSUME RowsInv, NEW c \in Calls, CallbackWrite(c)
    PROVE  RowsInv'
<1>1. TypeOK /\ LockInv /\ PaidInv(c) /\ DialInv(c) /\ SettleInv(c)
  BY DEF RowsInv, CallInv
<1>2. ASSUME NEW d \in Calls, d # c
      PROVE  PaidInv(d)' /\ DialInv(d)' /\ SettleInv(d)'
  <2>1. Unmoved(d)
    BY <1>1, <1>2 DEF Unmoved, TypeOK, CallbackWrite, TaskFree, rows, tasks, threads, provider, history
  <2> QED BY <2>1, OtherCalls DEF RowsInv, CallInv
<1> USE DEF rows, tasks, threads, provider, history, Final, Running, Statuses, TaskStatuses, Kinds, Ended
<1>3. TypeOK'
  BY <1>1, CallsAreOfTasks, ConstantsAssumption DEF TypeOK, CallbackWrite, TaskFree
<1>4. PaidInv(c)'
  BY <1>1 DEF TypeOK, CallbackWrite, TaskFree, PaidInv, DialInv, SettleInv, Untouched, Unstarted, Held
<1>5. DialInv(c)'
  BY <1>1 DEF TypeOK, CallbackWrite, TaskFree, PaidInv, DialInv, SettleInv, Untouched, Unstarted, Held
<1>6. SettleInv(c)'
  BY <1>1 DEF TypeOK, CallbackWrite, TaskFree, PaidInv, DialInv, SettleInv, Untouched, Unstarted, Held
<1>7. LockInv'
  <2>1. status[c] \notin {"absent", "proposed"}
    BY <1>1 DEF TypeOK, CallbackWrite, TaskFree, DialInv, PaidInv, Untouched, Unstarted
  <2>2. approving' = approving /\ newest' = newest
    BY DEF CallbackWrite, TaskFree
  <2>3. \A d \in Calls : d # c => status'[d] = status[d]
    BY <1>1 DEF TypeOK, CallbackWrite, TaskFree
  <2>4. \A t \in Tasks : task'[t] = task[t] \/ (t = c[1] /\ task'[t] # "absent")
    BY <1>1 DEF TypeOK, CallbackWrite, TaskFree
  <2> QED BY <1>1, <2>1, <2>2, <2>3, <2>4, OtherLocks
<1> QED BY <1>2, <1>3, <1>4, <1>5, <1>6, <1>7 DEF RowsInv, CallInv

LEMMA GetsOldInv ==
    ASSUME RowsInv, NEW c \in Calls, GetsOld(c)
    PROVE  RowsInv'
<1>1. TypeOK /\ LockInv /\ PaidInv(c) /\ DialInv(c) /\ SettleInv(c)
  BY DEF RowsInv, CallInv
<1>2. ASSUME NEW d \in Calls, d # c
      PROVE  PaidInv(d)' /\ DialInv(d)' /\ SettleInv(d)'
  <2>1. Unmoved(d)
    BY <1>1, <1>2 DEF Unmoved, TypeOK, GetsOld, rows, tasks, threads, provider, history
  <2> QED BY <2>1, OtherCalls DEF RowsInv, CallInv
<1> USE DEF rows, tasks, threads, provider, history, Final, Running, Statuses, TaskStatuses, Kinds, Ended
<1>3. TypeOK'
  BY <1>1, CallsAreOfTasks, ConstantsAssumption DEF TypeOK, GetsOld
<1>4. PaidInv(c)'
  BY <1>1 DEF TypeOK, GetsOld, PaidInv, DialInv, SettleInv, Untouched, Unstarted, Held
<1>5. DialInv(c)'
  BY <1>1 DEF TypeOK, GetsOld, PaidInv, DialInv, SettleInv, Untouched, Unstarted, Held
<1>6. SettleInv(c)'
  BY <1>1 DEF TypeOK, GetsOld, PaidInv, DialInv, SettleInv, Untouched, Unstarted, Held
<1>7. LockInv'
  <2>1. status[c] \notin {"absent", "proposed"}
    BY <1>1 DEF TypeOK, GetsOld, DialInv, PaidInv, Untouched, Unstarted
  <2>2. approving' = approving /\ newest' = newest
    BY DEF GetsOld
  <2>3. \A d \in Calls : d # c => status'[d] = status[d]
    BY <1>1 DEF TypeOK, GetsOld
  <2>4. \A t \in Tasks : task'[t] = task[t] \/ (t = c[1] /\ task'[t] # "absent")
    BY <1>1 DEF TypeOK, GetsOld
  <2> QED BY <1>1, <2>1, <2>2, <2>3, <2>4, OtherLocks
<1> QED BY <1>2, <1>3, <1>4, <1>5, <1>6, <1>7 DEF RowsInv, CallInv

LEMMA SweepInv ==
    ASSUME RowsInv, NEW c \in Calls, Sweep(c)
    PROVE  RowsInv'
<1>1. TypeOK /\ LockInv /\ PaidInv(c) /\ DialInv(c) /\ SettleInv(c)
  BY DEF RowsInv, CallInv
<1>2. ASSUME NEW d \in Calls, d # c
      PROVE  PaidInv(d)' /\ DialInv(d)' /\ SettleInv(d)'
  <2>1. Unmoved(d)
    BY <1>1, <1>2 DEF Unmoved, TypeOK, Sweep, Sweepable, Release, Book, TaskFree, rows, tasks,
       threads, provider, history
  <2> QED BY <2>1, OtherCalls DEF RowsInv, CallInv
<1> USE DEF rows, tasks, threads, provider, history, Final, Running, Statuses, TaskStatuses, Kinds, Ended
<1>3. TypeOK'
  BY <1>1, CallsAreOfTasks, ConstantsAssumption DEF TypeOK, Sweep, Sweepable, Release, Book, TaskFree
<1>4. PaidInv(c)'
  BY <1>1 DEF TypeOK, Sweep, Sweepable, Release, Book, TaskFree, PaidInv, DialInv, SettleInv,
     Untouched, Unstarted, Held
<1>5. DialInv(c)'
  BY <1>1 DEF TypeOK, Sweep, Sweepable, Release, Book, TaskFree, PaidInv, DialInv, SettleInv,
     Untouched, Unstarted, Held
<1>6. SettleInv(c)'
  BY <1>1 DEF TypeOK, Sweep, Sweepable, Release, Book, TaskFree, PaidInv, DialInv, SettleInv,
     Untouched, Unstarted, Held
<1>7. LockInv'
  <2>1. status[c] \notin {"absent", "proposed"}
    BY <1>1 DEF TypeOK, Sweep, Sweepable, Release, Book, TaskFree, DialInv, PaidInv, Untouched,
       Unstarted
  <2>2. approving' = approving /\ newest' = newest
    BY DEF Sweep, Sweepable, Release, Book, TaskFree
  <2>3. \A d \in Calls : d # c => status'[d] = status[d]
    BY <1>1 DEF TypeOK, Sweep, Sweepable, Release, Book, TaskFree
  <2>4. \A t \in Tasks : task'[t] = task[t] \/ (t = c[1] /\ task'[t] # "absent")
    BY <1>1 DEF TypeOK, Sweep, Sweepable, Release, Book, TaskFree
  <2> QED BY <1>1, <2>1, <2>2, <2>3, <2>4, OtherLocks
<1> QED BY <1>2, <1>3, <1>4, <1>5, <1>6, <1>7 DEF RowsInv, CallInv

-----------------------------------------------------------------------------
(* The user's requests concern the newest call of a task, or make a new one.  *)

LEMMA NewCallInv ==
    ASSUME RowsInv, NEW t \in Tasks, approving[t] = "no", NewCall(t)
    PROVE  RowsInv'
<1>1. TypeOK /\ LockInv /\ newest[t] + 1 \in 1..MaxCalls
  BY ConstantsAssumption DEF RowsInv, TypeOK, NewCall
<1>2. PICK c \in Calls : c = <<t, newest[t] + 1>>
  BY <1>1 DEF Calls
<1>3. status[c] = "absent"
  BY <1>1, <1>2 DEF LockInv, TypeOK
<1>4. PaidInv(c) /\ DialInv(c) /\ SettleInv(c)
  BY DEF RowsInv, CallInv
<1>5. /\ status' = [status EXCEPT ![c] = "proposed"]
      /\ newest' = [newest EXCEPT ![t] = @ + 1]
      /\ task' = [task EXCEPT ![t] = "awaiting_user"]
      /\ UNCHANGED <<means, result, paid_via, old, ledger, recorded>>
      /\ UNCHANGED <<approving, dialler, callback, vapi, posts, overwritten, crashes>>
  BY <1>2 DEF NewCall, threads, provider, history
<1>6. TypeOK'
  BY <1>1, <1>5, ConstantsAssumption DEF TypeOK, Final, Running, Statuses, TaskStatuses, Kinds, Ended
<1>7. ASSUME NEW d \in Calls, d # c
      PROVE  PaidInv(d)' /\ DialInv(d)' /\ SettleInv(d)'
  BY <1>7, <1>1, <1>5, OtherCalls DEF Unmoved, RowsInv, CallInv, TypeOK
<1>8. PaidInv(c)'
  BY <1>1, <1>3, <1>4, <1>5 DEF TypeOK, PaidInv, DialInv, SettleInv, Untouched, Unstarted, Held,
     Final, Running, Statuses, TaskStatuses, Kinds, Ended
<1>9. DialInv(c)'
  BY <1>1, <1>3, <1>4, <1>5 DEF TypeOK, PaidInv, DialInv, SettleInv, Untouched, Unstarted, Held,
     Final, Running, Statuses, TaskStatuses, Kinds, Ended
<1>10. SettleInv(c)'
  BY <1>1, <1>3, <1>4, <1>5 DEF TypeOK, PaidInv, DialInv, SettleInv, Untouched, Unstarted, Held,
     Final, Running, Statuses, TaskStatuses, Kinds, Ended
<1>11. LockInv'
  <2>1. \A u \in Tasks : u # t => newest'[u] = newest[u] /\ task'[u] = task[u]
    BY <1>1, <1>5 DEF TypeOK
  <2>2. newest'[t] = newest[t] + 1 /\ newest[t] \in Nat /\ task'[t] = "awaiting_user" /\ approving' = approving
    BY <1>1, <1>5 DEF TypeOK
  <2>3. \A d \in Calls : d # c => status'[d] = status[d]
    BY <1>1, <1>5 DEF TypeOK
  <2>4. ASSUME NEW u \in Tasks, approving'[u] # "no"
        PROVE  newest'[u] # 0 /\ status'[Newest(u)'] = "proposed"
    <3>1. u # t /\ newest[u] # 0 /\ status[Newest(u)] = "proposed" /\ newest'[u] = newest[u]
      BY <1>1, <2>1, <2>2, <2>4 DEF LockInv
    <3>2. Newest(u) \in Calls /\ Newest(u) # c
      BY <1>1, <1>2, <3>1, NewestIsCall DEF Newest
    <3>3. Newest(u)' = Newest(u)
      BY <3>1 DEF Newest
    <3> QED BY <2>3, <3>1, <3>2, <3>3
  <2>5. ASSUME NEW d \in Calls, d[2] > newest'[d[1]]
        PROVE  status'[d] = "absent"
    <3>1. d[1] \in Tasks /\ d[2] \in Nat /\ newest[d[1]] \in Nat
      BY <1>1, ConstantsAssumption DEF TypeOK, Calls
    <3>2. d # c /\ d[2] > newest[d[1]]
      BY <1>2, <2>1, <2>2, <2>5, <3>1
    <3> QED BY <1>1, <2>3, <3>2 DEF LockInv
  <2>6. ASSUME NEW u \in Tasks
        PROVE  (task'[u] = "absent" => newest'[u] = 0) /\ (task'[u] # "absent" => newest'[u] # 0)
    BY <1>1, <2>1, <2>2, <2>6 DEF LockInv
  <2>7. \A u, v \in Tasks : approving'[u] # "no" /\ approving'[v] # "no" => u = v
    BY <1>1, <2>2 DEF LockInv
  <2> QED BY <2>4, <2>5, <2>6, <2>7 DEF LockInv
<1> QED BY <1>6, <1>7, <1>8, <1>9, <1>10, <1>11 DEF RowsInv, CallInv

LEMMA ProposeInv ==
    ASSUME RowsInv, NEW t \in Tasks, Propose(t)
    PROVE  RowsInv'
BY NewCallInv DEF RowsInv, LockInv, Propose, TypeOK

LEMMA RetryInv ==
    ASSUME RowsInv, NEW t \in Tasks, Retry(t)
    PROVE  RowsInv'
BY NewCallInv DEF Retry

\* What happens to the newest call of one task, and to the locks of that task or to
\* none, leaves the locks in order.
LEMMA TaskLocks ==
    ASSUME TypeOK, LockInv, NEW t \in Tasks, newest[t] # 0,
           newest' = newest,
           \A d \in Calls : d # Newest(t) => status'[d] = status[d],
           task'[t] # "absent",
           \A u \in Tasks : u # t => task'[u] = task[u] /\ approving'[u] = approving[u],
           approving'[t] = "no"
    PROVE  LockInv'
<1>1. Newest(t) \in Calls /\ Newest(t)[1] = t /\ Newest(t)[2] = newest[t]
  BY NewestIsCall
<1>2. ASSUME NEW u \in Tasks, approving'[u] # "no"
      PROVE  newest'[u] # 0 /\ status'[Newest(u)'] = "proposed"
  <2>1. u # t /\ newest[u] # 0 /\ status[Newest(u)] = "proposed"
    BY <1>2 DEF LockInv
  <2>2. Newest(u) \in Calls /\ Newest(u) # Newest(t)
    BY <1>1, <2>1, NewestIsCall
  <2>3. Newest(u)' = Newest(u)
    BY DEF Newest
  <2> QED BY <2>1, <2>2, <2>3
<1>3. ASSUME NEW d \in Calls, d[2] > newest'[d[1]]
      PROVE  status'[d] = "absent"
  <2>1. d # Newest(t)
    BY <1>1, <1>3, ConstantsAssumption DEF TypeOK, Calls
  <2> QED BY <1>3, <2>1 DEF LockInv
<1>4. \A u \in Tasks : (task'[u] = "absent" => newest'[u] = 0) /\ (task'[u] # "absent" => newest'[u] # 0)
  BY DEF LockInv
<1>5. \A u, v \in Tasks : approving'[u] # "no" /\ approving'[v] # "no" => u = v
  BY DEF LockInv
<1> QED BY <1>2, <1>3, <1>4, <1>5 DEF LockInv

\* The newest call of a task, proposed or planned, is declined.
LEMMA DeclineInv ==
    ASSUME RowsInv, NEW t \in Tasks, Decline(t)
    PROVE  RowsInv'
<1>1. TypeOK /\ LockInv /\ newest[t] # 0
  BY DEF RowsInv, LockInv, Decline
<1>2. PICK c \in Calls : c = Newest(t)
  BY <1>1, NewestIsCall
<1>3. PaidInv(c) /\ DialInv(c) /\ SettleInv(c) /\ status[c] \in {"proposed", "scheduled"} /\ approving[t] = "no"
  BY <1>1, <1>2 DEF RowsInv, CallInv, LockInv, TypeOK, Decline, Declinable, Book
<1>4. /\ status' = [status EXCEPT ![c] = "declined"]
      /\ result' = [result EXCEPT ![c] = "declined"]
      /\ task' = [task EXCEPT ![t] = "declined"]
      /\ (status[c] = "scheduled" /\ paid_via[c] = "credits") => ledger' = ledger \cup {<<c, "release">>}
      /\ ~(status[c] = "scheduled" /\ paid_via[c] = "credits") => ledger' = ledger
      /\ UNCHANGED <<means, paid_via, old, newest, recorded>>
      /\ UNCHANGED <<approving, dialler, callback, vapi, posts, overwritten, crashes>>
  BY <1>2 DEF Decline, Declinable, Book, rows, tasks, threads, provider, history
<1>5. TypeOK'
  BY <1>1, <1>3, <1>4 DEF TypeOK, Final, Running, Statuses, TaskStatuses, Kinds, Ended
<1>6. ASSUME NEW d \in Calls, d # c
      PROVE  PaidInv(d)' /\ DialInv(d)' /\ SettleInv(d)'
  BY <1>6, <1>1, <1>4, OtherCalls DEF Unmoved, RowsInv, CallInv, TypeOK
<1>7. PaidInv(c)'
  BY <1>1, <1>3, <1>4 DEF TypeOK, PaidInv, DialInv, SettleInv, Untouched, Unstarted, Held, Final,
     Running, Statuses, TaskStatuses, Kinds, Ended
<1>8. DialInv(c)'
  BY <1>1, <1>3, <1>4 DEF TypeOK, PaidInv, DialInv, SettleInv, Untouched, Unstarted, Held, Final,
     Running, Statuses, TaskStatuses, Kinds, Ended
<1>9. SettleInv(c)'
  BY <1>1, <1>3, <1>4 DEF TypeOK, PaidInv, DialInv, SettleInv, Untouched, Unstarted, Held, Final,
     Running, Statuses, TaskStatuses, Kinds, Ended
<1>10. LockInv'
  BY <1>1, <1>2, <1>3, <1>4, TaskLocks DEF TypeOK
<1> QED BY <1>5, <1>6, <1>7, <1>8, <1>9, <1>10 DEF RowsInv, CallInv

\* approve() commits: the proposal is paid for and this request dials.
LEMMA ApproveNowInv ==
    ASSUME RowsInv, NEW t \in Tasks, ApproveNow(t)
    PROVE  RowsInv'
<1>1. TypeOK /\ LockInv /\ newest[t] # 0
  BY DEF RowsInv, LockInv, ApproveNow
<1>2. PICK c \in Calls : c = Newest(t)
  BY <1>1, NewestIsCall
<1>3. PaidInv(c) /\ DialInv(c) /\ SettleInv(c) /\ status[c] = "proposed" /\ approving[t] \in {"plan", "credits"}
  BY <1>1, <1>2 DEF RowsInv, CallInv, LockInv, TypeOK, ApproveNow, Pay, Book
<1>4. /\ status' = [status EXCEPT ![c] = "approved"]
      /\ paid_via' = [paid_via EXCEPT ![c] = approving[t]]
      /\ approving[t] = "credits" => ledger' = ledger \cup {<<c, "reserve">>}
      /\ approving[t] # "credits" => ledger' = ledger
      /\ task' = [task EXCEPT ![t] = "in_progress"]
      /\ approving' = [approving EXCEPT ![t] = "no"]
      /\ dialler' = [dialler EXCEPT ![c] = "started"]
      /\ UNCHANGED <<means, result, old, newest, recorded>>
      /\ UNCHANGED <<callback, vapi, posts, overwritten, crashes>>
  BY <1>2 DEF ApproveNow, Pay, Book, rows, tasks, threads, provider, history
<1>5. TypeOK'
  BY <1>1, <1>3, <1>4 DEF TypeOK, Final, Running, Statuses, TaskStatuses, Kinds, Ended
<1>6. ASSUME NEW d \in Calls, d # c
      PROVE  PaidInv(d)' /\ DialInv(d)' /\ SettleInv(d)'
  BY <1>6, <1>1, <1>4, OtherCalls DEF Unmoved, RowsInv, CallInv, TypeOK
<1>7. PaidInv(c)'
  BY <1>1, <1>3, <1>4 DEF TypeOK, PaidInv, DialInv, SettleInv, Untouched, Unstarted, Held, Final,
     Running, Statuses, TaskStatuses, Kinds, Ended
<1>8. DialInv(c)'
  BY <1>1, <1>3, <1>4 DEF TypeOK, PaidInv, DialInv, SettleInv, Untouched, Unstarted, Held, Final,
     Running, Statuses, TaskStatuses, Kinds, Ended
<1>9. SettleInv(c)'
  BY <1>1, <1>3, <1>4 DEF TypeOK, PaidInv, DialInv, SettleInv, Untouched, Unstarted, Held, Final,
     Running, Statuses, TaskStatuses, Kinds, Ended
<1>10. LockInv'
  BY <1>1, <1>2, <1>3, <1>4, TaskLocks DEF TypeOK
<1> QED BY <1>5, <1>6, <1>7, <1>8, <1>9, <1>10 DEF RowsInv, CallInv

\* approve() commits: the proposal is paid for and planned.
LEMMA ApproveLaterInv ==
    ASSUME RowsInv, NEW t \in Tasks, ApproveLater(t)
    PROVE  RowsInv'
<1>1. TypeOK /\ LockInv /\ newest[t] # 0
  BY DEF RowsInv, LockInv, ApproveLater
<1>2. PICK c \in Calls : c = Newest(t)
  BY <1>1, NewestIsCall
<1>3. PaidInv(c) /\ DialInv(c) /\ SettleInv(c) /\ status[c] = "proposed" /\ approving[t] \in {"plan", "credits"}
  BY <1>1, <1>2 DEF RowsInv, CallInv, LockInv, TypeOK, ApproveLater, Pay, Book
<1>4. /\ status' = [status EXCEPT ![c] = "scheduled"]
      /\ paid_via' = [paid_via EXCEPT ![c] = approving[t]]
      /\ approving[t] = "credits" => ledger' = ledger \cup {<<c, "reserve">>}
      /\ approving[t] # "credits" => ledger' = ledger
      /\ task' = [task EXCEPT ![t] = "planned"]
      /\ approving' = [approving EXCEPT ![t] = "no"]
      /\ dialler' = dialler
      /\ UNCHANGED <<means, result, old, newest, recorded>>
      /\ UNCHANGED <<callback, vapi, posts, overwritten, crashes>>
  BY <1>2 DEF ApproveLater, Pay, Book, rows, tasks, threads, provider, history
<1>5. TypeOK'
  BY <1>1, <1>3, <1>4 DEF TypeOK, Final, Running, Statuses, TaskStatuses, Kinds, Ended
<1>6. ASSUME NEW d \in Calls, d # c
      PROVE  PaidInv(d)' /\ DialInv(d)' /\ SettleInv(d)'
  BY <1>6, <1>1, <1>4, OtherCalls DEF Unmoved, RowsInv, CallInv, TypeOK
<1>7. PaidInv(c)'
  BY <1>1, <1>3, <1>4 DEF TypeOK, PaidInv, DialInv, SettleInv, Untouched, Unstarted, Held, Final,
     Running, Statuses, TaskStatuses, Kinds, Ended
<1>8. DialInv(c)'
  BY <1>1, <1>3, <1>4 DEF TypeOK, PaidInv, DialInv, SettleInv, Untouched, Unstarted, Held, Final,
     Running, Statuses, TaskStatuses, Kinds, Ended
<1>9. SettleInv(c)'
  BY <1>1, <1>3, <1>4 DEF TypeOK, PaidInv, DialInv, SettleInv, Untouched, Unstarted, Held, Final,
     Running, Statuses, TaskStatuses, Kinds, Ended
<1>10. LockInv'
  BY <1>1, <1>2, <1>3, <1>4, TaskLocks DEF TypeOK
<1> QED BY <1>5, <1>6, <1>7, <1>8, <1>9, <1>10 DEF RowsInv, CallInv

\* Taking and giving back the locks changes no row.
LEMMA ApproveCheckInv ==
    ASSUME RowsInv, NEW t \in Tasks, ApproveCheck(t)
    PROVE  RowsInv'
<1>1. TypeOK /\ LockInv /\ CallInv
  BY DEF RowsInv
<1>2. /\ approving' = [approving EXCEPT ![t] = IF CallsLeft > 0 THEN "plan" ELSE "credits"]
      /\ UNCHANGED <<means, status, result, paid_via, old, task, newest, ledger, recorded>>
      /\ UNCHANGED <<dialler, callback, vapi, posts, overwritten, crashes>>
  BY DEF ApproveCheck, Decide, rows, tasks, provider, history
<1>3. TypeOK'
  BY <1>1, <1>2 DEF TypeOK
<1>4. CallInv'
  BY <1>1, <1>2, OtherCalls DEF Unmoved, CallInv
<1>5. LockInv'
  <2>1. \A u \in Tasks : Newest(u)' = Newest(u)
    BY <1>2 DEF Newest
  <2>2. task[t] = "awaiting_user" /\ status[Newest(t)] = "proposed" /\ \A u \in Tasks : approving[u] = "no"
    BY DEF ApproveCheck, Approvable, ProfileLocked
  <2>3. \A u \in Tasks : u # t => approving'[u] = "no"
    BY <1>1, <1>2, <2>2 DEF TypeOK
  <2> QED BY <1>1, <1>2, <2>1, <2>2, <2>3 DEF LockInv
<1> QED BY <1>3, <1>4, <1>5 DEF RowsInv

LEMMA ApproveRefusedInv ==
    ASSUME RowsInv, NEW t \in Tasks, ApproveRefused(t)
    PROVE  RowsInv'
<1>1. TypeOK /\ LockInv /\ CallInv
  BY DEF RowsInv
<1>2. /\ approving' = [approving EXCEPT ![t] = "no"]
      /\ UNCHANGED <<means, status, result, paid_via, old, task, newest, ledger, recorded>>
      /\ UNCHANGED <<dialler, callback, vapi, posts, overwritten, crashes>>
  BY DEF ApproveRefused, rows, tasks, provider, history
<1>3. TypeOK'
  BY <1>1, <1>2 DEF TypeOK
<1>4. CallInv'
  BY <1>1, <1>2, OtherCalls DEF Unmoved, CallInv
<1>5. LockInv'
  <2>1. \A u \in Tasks : Newest(u)' = Newest(u)
    BY <1>2 DEF Newest
  <2>2. \A u \in Tasks : approving'[u] # "no" => u # t /\ approving[u] # "no"
    BY <1>1, <1>2 DEF TypeOK
  <2> QED BY <1>1, <1>2, <2>1, <2>2 DEF LockInv
<1> QED BY <1>3, <1>4, <1>5 DEF RowsInv

LEMMA NextRowsInv == RowsInv /\ [Next]_vars => RowsInv'
<1> SUFFICES ASSUME RowsInv, [Next]_vars PROVE RowsInv'
  OBVIOUS
<1>1. CASE UNCHANGED vars
  <2>1. TypeOK /\ LockInv /\ CallInv
    BY DEF RowsInv
  <2>2. /\ UNCHANGED <<means, status, result, paid_via, old, task, newest, ledger, recorded>>
        /\ UNCHANGED <<approving, dialler, callback, vapi, posts, overwritten, crashes>>
    BY <1>1 DEF vars, rows, tasks, threads, provider, history
  <2>3. TypeOK'
    BY <2>1, <2>2 DEF TypeOK
  <2>4. CallInv'
    BY <2>1, <2>2, OtherCalls DEF Unmoved, CallInv
  <2>5. LockInv'
    BY <2>1, <2>2 DEF LockInv, Newest
  <2> QED BY <2>3, <2>4, <2>5 DEF RowsInv
<1>2. CASE \E t \in Tasks : UserStep(t)
  BY <1>2, ProposeInv, ApproveCheckInv, DeclineInv, RetryInv DEF UserStep
<1>3. CASE \E t \in Tasks : CommitStep(t)
  BY <1>3, ApproveNowInv, ApproveLaterInv, ApproveRefusedInv DEF CommitStep
<1>4. CASE \E c \in Calls : CallDue(c) \/ DialStep(c) \/ Crash(c)
  BY <1>4, CallDueInv, DialStartInv, DialAcceptedInv, DialSilentInv, DialRejectedInv,
     CrashInv DEF DialStep
<1>5. CASE \E c \in Calls : VapiStep(c) \/ ReportStep(c) \/ GetsOld(c) \/ Sweep(c)
  BY <1>5, VapiTakesInv, CallEndsInv, ReportNoAnswerInv, ReportAnsweredInv, CallbackReadInv,
     CallbackWriteInv,
     GetsOldInv, SweepInv DEF VapiStep, ReportStep
<1> QED BY <1>1, <1>2, <1>3, <1>4, <1>5 DEF Next

-----------------------------------------------------------------------------
(* What is paid for: the calls counted against the month, and the credits.     *)

LEMMA CallsAreFinite == IsFiniteSet(Calls)
<1>1. IsFiniteSet(1..MaxCalls)
  BY ConstantsAssumption, FS_Interval
<1> QED BY <1>1, ConstantsAssumption, FS_Product DEF Calls

LEMMA CountOfCalls ==
    ASSUME NEW S \in SUBSET Calls
    PROVE  IsFiniteSet(S) /\ Cardinality(S) \in Nat
<1>1. IsFiniteSet(S)
  BY CallsAreFinite, FS_Subset
<1> QED BY <1>1, FS_CardinalityType

LEMMA CountsOfCalls ==
    /\ Cardinality(Counted) \in Nat /\ Cardinality(Counted)' \in Nat
    /\ Cardinality(Entries("reserve")) \in Nat /\ Cardinality(Entries("reserve"))' \in Nat
    /\ Cardinality(Entries("release")) \in Nat /\ Cardinality(Entries("release"))' \in Nat
<1>1. /\ Counted \in SUBSET Calls /\ Counted' \in SUBSET Calls
      /\ Entries("reserve") \in SUBSET Calls /\ Entries("reserve")' \in SUBSET Calls
      /\ Entries("release") \in SUBSET Calls /\ Entries("release")' \in SUBSET Calls
  BY DEF Counted, Entries
<1> QED BY <1>1, CountOfCalls

\* The means in terms of three numbers: calls counted, reserved and released.
LEMMA MeansAreNumbers == TypeOK => means.quota \in Nat /\ means.grant \in Nat
BY ConstantsAssumption DEF TypeOK

\* A step that pays for no call, and gives back what it likes, keeps within the means.
LEMMA NothingPaid ==
    ASSUME TypeOK, MeansInv, means' = means,
           \A t \in Tasks : approving'[t] \in {"no", approving[t]},
           Entries("reserve")' = Entries("reserve"),
           Entries("release") \subseteq Entries("release")',
           Counted' \subseteq Counted
    PROVE  MeansInv'
<1>1. Cardinality(Counted)' <= Cardinality(Counted)
  <2>1. IsFiniteSet(Counted)
    BY CountOfCalls DEF Counted
  <2> QED BY <2>1, FS_Subset
<1>2. Cardinality(Entries("release")) <= Cardinality(Entries("release"))'
  <2>1. IsFiniteSet(Entries("release")')
    BY CountOfCalls DEF Entries
  <2> QED BY <2>1, FS_Subset
<1>3. Balance' >= Balance /\ Balance \in Int /\ Balance' \in Int
  BY <1>2, CountsOfCalls, MeansAreNumbers DEF Balance, CALL_CREDITS
<1>4. WithinMeans'
  BY <1>1, <1>3, CountsOfCalls, MeansAreNumbers DEF MeansInv, WithinMeans
<1>5. ASSUME NEW t \in Tasks
      PROVE  /\ approving'[t] = "plan" => Cardinality(Counted)' < means'.quota
             /\ approving'[t] = "credits" => Balance' >= CALL_CREDITS
  <2>1. approving'[t] = "plan" => Cardinality(Counted) < means.quota
    BY DEF MeansInv
  <2>2. approving'[t] = "credits" => Balance >= CALL_CREDITS
    BY DEF MeansInv
  <2> QED BY <1>1, <1>3, <2>1, <2>2, CountsOfCalls, MeansAreNumbers DEF CALL_CREDITS
<1> QED BY <1>4, <1>5 DEF MeansInv

\* The decision: a plan call is left, or the credits are.
LEMMA ApproveCheckMeans ==
    ASSUME TypeOK, MeansInv, NEW t \in Tasks, ApproveCheck(t)
    PROVE  MeansInv'
<1>1. /\ approving' = [approving EXCEPT ![t] = IF CallsLeft > 0 THEN "plan" ELSE "credits"]
      /\ CallsLeft > 0 \/ Balance >= CALL_CREDITS
      /\ UNCHANGED <<means, paid_via, result, ledger>>
      /\ \A u \in Tasks : approving[u] = "no"
  BY DEF ApproveCheck, Decide, ProfileLocked, rows
<1>2. Cardinality(Counted)' = Cardinality(Counted) /\ Balance' = Balance
  BY <1>1 DEF Counted, Balance, Entries
<1>3. CallsLeft > 0 => Cardinality(Counted) < means.quota
  BY CountsOfCalls, MeansAreNumbers DEF CallsLeft
<1>4. ASSUME NEW u \in Tasks
      PROVE  /\ approving'[u] = "plan" => Cardinality(Counted)' < means'.quota
             /\ approving'[u] = "credits" => Balance' >= CALL_CREDITS
  BY <1>1, <1>2, <1>3 DEF TypeOK
<1> QED BY <1>1, <1>2, <1>4 DEF MeansInv, WithinMeans

\* The commit: what was decided is spent, and nobody else had decided anything.
LEMMA ApproveMeans ==
    ASSUME RowsInv, MeansInv, NEW t \in Tasks, ApproveNow(t) \/ ApproveLater(t)
    PROVE  MeansInv'
<1>1. TypeOK /\ LockInv /\ newest[t] # 0 /\ approving[t] \in {"plan", "credits"}
  BY DEF RowsInv, LockInv, TypeOK, ApproveNow, ApproveLater
<1>2. PICK c \in Calls : c = Newest(t)
  BY <1>1, NewestIsCall
<1>3. paid_via[c] = "null"
  BY <1>1, <1>2 DEF RowsInv, CallInv, PaidInv, LockInv
<1>4. /\ paid_via' = [paid_via EXCEPT ![c] = approving[t]]
      /\ approving[t] = "credits" => ledger' = ledger \cup {<<c, "reserve">>}
      /\ approving[t] # "credits" => ledger' = ledger
      /\ approving' = [approving EXCEPT ![t] = "no"]
      /\ UNCHANGED <<means, result>>
  BY <1>2 DEF ApproveNow, ApproveLater, Pay, Book
<1>5. \A u \in Tasks : approving'[u] = "no"
  BY <1>1, <1>4 DEF LockInv, TypeOK
<1>6. Entries("release")' = Entries("release")
  BY <1>1, <1>4 DEF Entries
<1>7. CASE approving[t] = "plan"
  <2>1. Balance' = Balance
    BY <1>4, <1>6, <1>7 DEF Balance, Entries
  <2>2. Counted' \in SUBSET (Counted \cup {c})
    BY <1>1, <1>4 DEF Counted, TypeOK
  <2>3. IsFiniteSet(Counted) /\ IsFiniteSet(Counted \cup {c})
    BY CountOfCalls, FS_AddElement DEF Counted
  <2>4. Cardinality(Counted \cup {c}) <= Cardinality(Counted) + 1 /\ Cardinality(Counted \cup {c}) \in Nat
    BY <2>3, FS_AddElement, CountsOfCalls
  <2>5. Cardinality(Counted)' <= Cardinality(Counted \cup {c})
    BY <2>2, <2>3, FS_Subset
  <2>6. Cardinality(Counted) < means.quota /\ Balance >= 0
    BY <1>7 DEF MeansInv, WithinMeans
  <2>7. Cardinality(Counted)' <= means'.quota
    BY <1>1, <1>4, <2>4, <2>5, <2>6, CountsOfCalls, MeansAreNumbers
  <2> QED BY <1>5, <2>1, <2>6, <2>7 DEF MeansInv, WithinMeans
<1>8. CASE approving[t] = "credits"
  <2>1. Counted' = Counted
    BY <1>1, <1>3, <1>4, <1>8 DEF Counted, TypeOK
  <2>2. Entries("reserve")' \in SUBSET (Entries("reserve") \cup {c})
    BY <1>4, <1>8 DEF Entries
  <2>3. IsFiniteSet(Entries("reserve")) /\ IsFiniteSet(Entries("reserve") \cup {c})
    BY CountOfCalls, FS_AddElement DEF Entries
  <2>4. /\ Cardinality(Entries("reserve") \cup {c}) <= Cardinality(Entries("reserve")) + 1
        /\ Cardinality(Entries("reserve") \cup {c}) \in Nat
    BY <2>3, FS_AddElement, CountsOfCalls
  <2>5. Cardinality(Entries("reserve"))' <= Cardinality(Entries("reserve") \cup {c})
    BY <2>2, <2>3, FS_Subset
  <2>6. Balance >= CALL_CREDITS /\ Cardinality(Counted) <= means.quota
    BY <1>8 DEF MeansInv, WithinMeans
  <2>7. Balance' >= 0
    BY <1>1, <1>4, <1>6, <2>4, <2>5, <2>6, CountsOfCalls, MeansAreNumbers DEF Balance, CALL_CREDITS
  <2> QED BY <1>4, <1>5, <2>1, <2>6, <2>7 DEF MeansInv, WithinMeans
<1> QED BY <1>1, <1>7, <1>8

\* A call that comes to nothing gives back what was reserved for it, or no longer counts.
LEMMA ReleaseMeans ==
    ASSUME TypeOK, MeansInv, NEW c \in Calls, NEW how \in {"no_answer", "failed"},
           Release(c, how), UNCHANGED <<means, paid_via, approving>>
    PROVE  MeansInv'
<1>1. Counted' \subseteq Counted
  BY DEF Release, Counted, TypeOK
<1>2. Entries("reserve")' = Entries("reserve") /\ Entries("release") \subseteq Entries("release")'
  BY DEF Release, Book, Entries
<1> QED BY <1>1, <1>2, NothingPaid

\* Most steps leave what was paid, how calls ended and the ledger alone.
LEMMA MeansUntouched ==
    ASSUME TypeOK, MeansInv, UNCHANGED <<means, result, paid_via, ledger>>,
           \A t \in Tasks : approving'[t] \in {"no", approving[t]}
    PROVE  MeansInv'
BY NothingPaid DEF Counted, Entries

LEMMA DeclineMeans ==
    ASSUME RowsInv, MeansInv, NEW t \in Tasks, Decline(t)
    PROVE  MeansInv'
<1>1. TypeOK /\ newest[t] # 0
  BY DEF RowsInv, LockInv, Decline
<1>2. PICK c \in Calls : c = Newest(t)
  BY <1>1, NewestIsCall
<1>3. result[c] = "null"
  BY <1>2 DEF RowsInv, CallInv, DialInv, Decline, Declinable, Unstarted, Untouched
<1>4. /\ result' = [result EXCEPT ![c] = "declined"]
      /\ ledger' = ledger \/ ledger' = ledger \cup {<<c, "release">>}
      /\ UNCHANGED <<means, paid_via, approving>>
  BY <1>2 DEF Decline, Book, threads
<1>5. Counted' \subseteq Counted
  BY <1>1, <1>3, <1>4 DEF Counted, TypeOK
<1>6. Entries("reserve")' = Entries("reserve") /\ Entries("release") \subseteq Entries("release")'
  BY <1>4 DEF Entries
<1> QED BY <1>1, <1>4, <1>5, <1>6, NothingPaid

\* An answered call was not counted out before: it had not ended.
LEMMA ReportAnsweredMeans ==
    ASSUME RowsInv, MeansInv, NEW c \in Calls, ReportAnswered(c)
    PROVE  MeansInv'
<1>1. TypeOK /\ result[c] \notin {"no_answer", "failed"}
  BY DEF RowsInv, CallInv, SettleInv, ReportAnswered, Reportable, Final
<1>2. /\ result' = [result EXCEPT ![c] = "answered"]
      /\ ledger' = ledger \/ ledger' = ledger \cup {<<c, "capture">>}
      /\ UNCHANGED <<means, paid_via, approving>>
  BY DEF ReportAnswered, Book, threads
<1>3. Counted' \subseteq Counted
  BY <1>1, <1>2 DEF Counted, TypeOK
<1>4. Entries("reserve")' = Entries("reserve") /\ Entries("release") \subseteq Entries("release")'
  BY <1>2 DEF Entries
<1> QED BY <1>1, <1>2, <1>3, <1>4, NothingPaid

LEMMA NextMeansInv == RowsInv /\ MeansInv /\ [Next]_vars => MeansInv'
<1> SUFFICES ASSUME RowsInv, MeansInv, [Next]_vars PROVE MeansInv'
  OBVIOUS
<1>1. TypeOK
  BY DEF RowsInv
<1>2. CASE UNCHANGED vars
  BY <1>1, <1>2, MeansUntouched DEF vars, rows, threads
<1>3. ASSUME NEW t \in Tasks, UserStep(t)
      PROVE  MeansInv'
  <2>1. CASE ApproveCheck(t)
    BY <1>1, <2>1, ApproveCheckMeans
  <2>2. CASE Decline(t)
    BY <2>2, DeclineMeans
  <2>3. CASE Propose(t) \/ Retry(t)
    BY <1>1, <2>3, MeansUntouched DEF Propose, Retry, NewCall, threads
  <2> QED BY <1>3, <2>1, <2>2, <2>3 DEF UserStep
<1>4. ASSUME NEW t \in Tasks, CommitStep(t)
      PROVE  MeansInv'
  <2>1. CASE ApproveNow(t) \/ ApproveLater(t)
    BY <2>1, ApproveMeans
  <2>2. CASE ApproveRefused(t)
    BY <1>1, <2>2, MeansUntouched DEF ApproveRefused, rows, TypeOK
  <2> QED BY <1>4, <2>1, <2>2 DEF CommitStep
<1>5. ASSUME NEW c \in Calls, DialRejected(c) \/ ReportNoAnswer(c) \/ Sweep(c)
      PROVE  MeansInv'
  BY <1>1, <1>5, ReleaseMeans DEF DialRejected, DialEnd, ReportNoAnswer, Sweep, threads
<1>6. ASSUME NEW c \in Calls, CallDue(c) \/ DialStart(c) \/ DialAccepted(c) \/ DialSilent(c) \/ Crash(c)
      PROVE  MeansInv'
  BY <1>1, <1>6, MeansUntouched DEF CallDue, DialStart, DialAccepted, DialSilent, DialEnd, Crash, rows
<1>7. ASSUME NEW c \in Calls, VapiStep(c) \/ CallbackRead(c) \/ CallbackWrite(c) \/ GetsOld(c)
      PROVE  MeansInv'
  BY <1>1, <1>7, MeansUntouched DEF VapiStep, VapiTakes, CallEnds, CallbackRead, CallbackWrite,
     GetsOld, rows, threads
<1>8. ASSUME NEW c \in Calls, ReportAnswered(c)
      PROVE  MeansInv'
  BY <1>8, ReportAnsweredMeans
<1> QED BY <1>2, <1>3, <1>4, <1>5, <1>6, <1>7, <1>8 DEF Next, DialStep, ReportStep

LEMMA InitMeansInv == Init => MeansInv
<1> SUFFICES ASSUME Init PROVE MeansInv
  OBVIOUS
<1>1. Counted = {} /\ Entries("reserve") = {} /\ Entries("release") = {}
  BY DEF Init, Counted, Entries
<1>2. means.quota \in Nat /\ means.grant \in Nat
  BY ConstantsAssumption DEF Init
<1>3. Cardinality(Counted) = 0 /\ Balance = means.grant
  <2>1. Cardinality({}) = 0
    BY FS_EmptySet
  <2>2. Cardinality(Counted) = 0 /\ Cardinality(Entries("reserve")) = 0 /\ Cardinality(Entries("release")) = 0
    BY <1>1, <2>1
  <2> QED BY <1>2, <2>2 DEF Balance, CALL_CREDITS
<1>4. \A t \in Tasks : approving[t] = "no"
  BY DEF Init
<1> QED BY <1>2, <1>3, <1>4 DEF MeansInv, WithinMeans

-----------------------------------------------------------------------------
(* Theorems of the specification.                                            *)

\* Every column, lock, thread and ledger entry of the private calls has its type.
THEOREM PrivateCallsTypeCorrect == Spec => []TypeOK
<1>1. RowsInv => TypeOK
  BY DEF RowsInv
<1> QED BY <1>1, InitRowsInv, NextRowsInv, PTL DEF Spec

\* However many calls, retries, crashes and redelivered events: Vapi is asked at most
\* once for a call, only for a paid one, and never for one the user declined
\* (calls.py dial, handle_call_due).
THEOREM CallsDialledOnce == Spec => []DialledOnce
<1>1. RowsInv => DialledOnce
  BY DEF RowsInv, CallInv, DialInv, DialledOnce
<1> QED BY <1>1, InitRowsInv, NextRowsInv, PTL DEF Spec

\* Whatever order reports, the sweep and the end of dial() come in: a reservation is
\* captured or released, not both, but for the overwritten call (calls.py on_report,
\* _release, sweep_stale).
THEOREM ReservationsSettledOnce == Spec => []SettledOnce
<1>1. RowsInv => SettledOnce
  BY DEF RowsInv, CallInv, PaidInv, SettleInv, SettledOnce
<1> QED BY <1>1, InitRowsInv, NextRowsInv, PTL DEF Spec

\* Any number of tasks approved at once spend no more plan calls and no more credits
\* than there are: the decision is made under the profile's lock (calls.py approve).
THEOREM CallsWithinMeans == Spec => []WithinMeans
<1>1. MeansInv => WithinMeans
  BY DEF MeansInv
<1> QED BY <1>1, InitRowsInv, NextRowsInv, InitMeansInv, NextMeansInv, PTL DEF Spec

-----------------------------------------------------------------------------
\* A call that is over, with no thread inside dial() for it.
OverAndLeft(d) == status[d] \in Final /\ dialler[d] = "none"

KeptAsItIs(d) ==
    /\ status'[d] = status[d] /\ result'[d] = result[d]
    /\ \A k \in Kinds : <<d, k>> \in ledger' => <<d, k>> \in ledger

\* A step that does not concern the call keeps it as it is.
LEMMA NextKeeps ==
    ASSUME RowsInv, NEW d \in Calls, OverAndLeft(d), [Next]_vars
    PROVE  KeptAsItIs(d)
<1>1. TypeOK /\ LockInv
  BY DEF RowsInv
<1>2. CASE UNCHANGED vars
  BY <1>2 DEF vars, rows, KeptAsItIs
<1>3. ASSUME NEW t \in Tasks, UserStep(t)
      PROVE  KeptAsItIs(d)
  <2>1. CASE ApproveCheck(t)
    BY <2>1 DEF ApproveCheck, Decide, rows, KeptAsItIs
  <2>2. CASE Decline(t)
    <3>1. d # Newest(t)
      BY <2>2 DEF Decline, Declinable, OverAndLeft, Final
    <3>2. status'[d] = status[d] /\ result'[d] = result[d]
      BY <1>1, <2>2, <3>1 DEF TypeOK, Decline
    <3>3. ledger' = ledger \/ ledger' = ledger \cup {<<Newest(t), "release">>}
      BY <2>2 DEF Decline, Book
    <3> QED BY <3>1, <3>2, <3>3 DEF KeptAsItIs
  <2>3. CASE Propose(t) \/ Retry(t)
    <3>1. d # <<t, newest[t] + 1>>
      <4>1. status[d] # "absent"
        BY DEF OverAndLeft, Final
      <4>2. ~(d[2] > newest[d[1]])
        BY <1>1, <4>1 DEF LockInv
      <4> QED BY <1>1, <4>2, ConstantsAssumption DEF TypeOK
    <3> QED BY <1>1, <2>3, <3>1 DEF TypeOK, Propose, Retry, NewCall, KeptAsItIs
  <2> QED BY <1>3, <2>1, <2>2, <2>3 DEF UserStep
<1>4. ASSUME NEW t \in Tasks, CommitStep(t)
      PROVE  KeptAsItIs(d)
  <2>1. d # Newest(t)
    BY <1>1, <1>4 DEF CommitStep, ApproveNow, ApproveLater, ApproveRefused, LockInv, OverAndLeft, Final
  <2> QED BY <1>1, <1>4, <2>1 DEF TypeOK, CommitStep, ApproveNow, ApproveLater, ApproveRefused,
     Pay, Book, rows, KeptAsItIs
<1>5. ASSUME NEW c \in Calls, CallDue(c) \/ DialStart(c) \/ DialAccepted(c) \/ DialSilent(c) \/ DialRejected(c)
      PROVE  KeptAsItIs(d)
  <2>1. d # c
    BY <1>5 DEF CallDue, DueNow, DialStart, DialAccepted, DialSilent, DialRejected, DialEnd,
       OverAndLeft, Final
  <2> QED BY <1>1, <1>5, <2>1 DEF TypeOK, CallDue, DialStart, DialAccepted, DialSilent,
     DialRejected, DialEnd, Release, Book, KeptAsItIs
<1>6. ASSUME NEW c \in Calls, ReportNoAnswer(c) \/ ReportAnswered(c) \/ Sweep(c)
      PROVE  KeptAsItIs(d)
  <2>1. d # c
    BY <1>6 DEF ReportNoAnswer, ReportAnswered, Reportable, Sweep, Sweepable, OverAndLeft, Final,
       Running
  <2> QED BY <1>1, <1>6, <2>1 DEF TypeOK, ReportNoAnswer, ReportAnswered, Sweep, Release, Book,
     KeptAsItIs
<1>7. ASSUME NEW c \in Calls, Crash(c) \/ VapiStep(c) \/ CallbackRead(c) \/ CallbackWrite(c) \/ GetsOld(c)
      PROVE  KeptAsItIs(d)
  BY <1>7 DEF Crash, VapiStep, VapiTakes, CallEnds, CallbackRead, CallbackWrite, GetsOld, rows,
     KeptAsItIs
<1> QED BY <1>2, <1>3, <1>4, <1>5, <1>6, <1>7 DEF Next, DialStep, ReportStep

\* A late or repeated report, a sweep, a retry or a second dialling thread changes
\* nothing about a call that is over (calls.py on_report, sweep_stale, retry).
THEOREM CallsStayOver == Spec => OverIsOver
<1>1. RowsInv /\ [Next]_vars =>
        [\A c \in Calls :
            status[c] \in Final /\ dialler[c] = "none" =>
                status'[c] = status[c] /\ result'[c] = result[c]
                /\ \A k \in Kinds : <<c, k>> \in ledger' => <<c, k>> \in ledger]_vars
  BY NextKeeps DEF OverAndLeft, KeptAsItIs
<1> QED BY <1>1, InitRowsInv, NextRowsInv, PTL DEF Spec, OverIsOver

-----------------------------------------------------------------------------
(* Messages are about what Stripe has, and paid is for good.                 *)

MessageOK(m) ==
    \/ m.type = "subscribed" /\ m.of \in Subs /\ stripe[m.of].status \in AtStripe
    \/ /\ m.type = "updated" /\ m.of \in Subs /\ stripe[m.of].status \in AtStripe
       /\ m.status \in AtStripe /\ m.at \in Nat
    \/ IsPack(m) /\ m.of \in Packs /\ (m.status = "paid" => pack[m.of] = "paid")

WorkOK(h) ==
    \/ work[h] = NoWork
    \/ /\ work[h].msg.type \in {"subscribed", "returned"}
       /\ work[h].msg.of \in Subs /\ work[h].got \in AtStripe
       /\ stripe[work[h].msg.of].status \in AtStripe
    \/ /\ IsPack(work[h].msg)
       /\ work[h].msg.of \in Packs /\ work[h].got \in {"new", "known"}
       /\ work[h].got = "new" => pack[work[h].msg.of] = "paid"

StoreInv ==
    /\ ShopTypeOK
    /\ DOMAIN work = Handlers
    /\ \A e \in events : MessageOK(e)
    /\ \A h \in Handlers : WorkOK(h)
    /\ \A s \in Subs : /\ session[s].status = "complete" <=> stripe[s].status \in AtStripe
                       /\ stripe[s].status = "none" => stripe[s].at = 0
    /\ \A p \in Packs : granted[p] = IF p \in purchases THEN 1 ELSE 0
    /\ \A p \in purchases : pack[p] = "paid"

\* Nothing was bought in the initial state.
LEMMA InitStoreInv == ShopInit => StoreInv
<1> SUFFICES ASSUME ShopInit PROVE StoreInv
  OBVIOUS
<1>1. row \in Rows
  <2>1. [sub |-> NoSub, status |-> "none", tried |-> FALSE, over |-> FALSE] \in Rows
    BY DEF Rows
  <2>2. [sub |-> NoSub, status |-> "trial", tried |-> TRUE, over |-> FALSE] \in Rows
    BY DEF Rows
  <2> QED BY <2>1, <2>2 DEF ShopInit
<1>2. /\ session \in [Subs -> [status : {"none", "open", "complete"}, trial : BOOLEAN]]
      /\ stripe \in [Subs -> [status : AtStripe \cup {"none"}, at : Nat]]
  BY DEF ShopInit
<1>3. \A h \in Handlers : work[h] = NoWork /\ NoWork.msg.of = NoSub /\ NoWork.got = "none" /\ NoWork.at = 0
  BY DEF ShopInit, NoWork, Message
<1> QED BY <1>1, <1>2, <1>3, SubscriptionsAssumption DEF ShopInit, StoreInv, ShopTypeOK, AtStripe, Live, WorkOK

\* What the account's row is written with is a row, and the histories keep their types.
LEMMA MirrorTypes ==
    ASSUME ShopTypeOK, NEW s \in Subs, NEW said \in AtStripe, NEW at \in Nat, Mirror(s, said, at)
    PROVE  /\ row' \in Rows
           /\ seen' \in [Subs -> Nat] /\ late' \subseteq Subs /\ left' \subseteq Subs
<1>1. row' \in Rows
  BY DEF Mirror, Upsert, ShopTypeOK, Rows, STRIPE_STATUS, AtStripe, Live
<1>2. seen' \in [Subs -> Nat] /\ late' \subseteq Subs
  BY DEF Mirror, ShopTypeOK
<1>3. left' \subseteq Subs
  BY DEF Mirror, ShopTypeOK, Rows
<1> QED BY <1>1, <1>2, <1>3

\* The user's requests keep StoreInv.
LEMMA UserStoreInv == StoreInv /\ BuyerStep => StoreInv'
<1> SUFFICES ASSUME StoreInv, BuyerStep PROVE StoreInv'
  OBVIOUS
<1>1. ASSUME NEW s \in Subs, Checkout(s) PROVE StoreInv'
  <2>1. PICK trial \in BOOLEAN : session' = [session EXCEPT ![s] = [status |-> "open", trial |-> trial]]
    BY <1>1 DEF Checkout, TrialAvailable
  <2>2. /\ session' \in [Subs -> [status : {"none", "open", "complete"}, trial : BOOLEAN]]
        /\ \A r \in Subs : session'[r].status = "complete" <=> session[r].status = "complete"
    BY <1>1, <2>1 DEF Checkout, StoreInv, ShopTypeOK
  <2>3. ShopTypeOK'
    BY <1>1, <2>2 DEF Checkout, told, StoreInv, ShopTypeOK
  <2> QED BY <1>1, <2>2, <2>3 DEF Checkout, StoreInv, MessageOK, WorkOK, IsPack
<1>2. ASSUME NEW s \in Subs, Subscribe(s) PROVE StoreInv'
  <2>1. ShopTypeOK'
    BY <1>2 DEF Subscribe, told, StoreInv, ShopTypeOK, AtStripe, Live
  <2>2. \A r \in Subs :
            /\ r # s => stripe'[r] = stripe[r] /\ session'[r] = session[r]
            /\ stripe'[s].status \in Live /\ stripe'[s].at = 1 /\ session'[s].status = "complete"
    BY <1>2 DEF Subscribe, StoreInv, ShopTypeOK, Live
  <2>3. \A e \in events' : MessageOK(e)'
    BY <1>2, <2>2 DEF Subscribe, StoreInv, MessageOK, Message, IsPack, AtStripe, Live
  <2>4. \A h \in Handlers : WorkOK(h)'
    BY <1>2, <2>2 DEF Subscribe, StoreInv, WorkOK, IsPack, AtStripe, Live
  <2> QED BY <1>2, <2>1, <2>2, <2>3, <2>4 DEF Subscribe, StoreInv, ShopTypeOK, AtStripe, Live
<1>3. ASSUME NEW p \in Packs, BuyPack(p) PROVE StoreInv'
  <2>1. ShopTypeOK' /\ \A q \in Packs : pack[q] = "paid" => pack'[q] = "paid"
    BY <1>3 DEF BuyPack, told, StoreInv, ShopTypeOK
  <2> QED BY <1>3, <2>1 DEF BuyPack, StoreInv, MessageOK, WorkOK, IsPack, ShopTypeOK
<1> QED BY <1>1, <1>2, <1>3 DEF BuyerStep

\* What Stripe does keeps StoreInv.
LEMMA StripeStoreInv == StoreInv /\ StripeStep => StoreInv'
<1> SUFFICES ASSUME StoreInv, StripeStep PROVE StoreInv'
  OBVIOUS
<1>1. ASSUME NEW s \in Subs, NEW said \in AtStripe, Change(s, said) PROVE StoreInv'
  <2>1. ShopTypeOK'
    BY <1>1, SubscriptionsAssumption DEF Change, told, StoreInv, ShopTypeOK
  <2>2. /\ stripe[s].status \in AtStripe /\ stripe[s].at + 1 \in Nat
        /\ \A r \in Subs : stripe'[r] = IF r = s THEN [status |-> said, at |-> stripe[s].at + 1] ELSE stripe[r]
    BY <1>1 DEF Change, StoreInv, ShopTypeOK, AtStripe, Live
  <2>3. \A e \in events' : MessageOK(e)'
    BY <1>1, <2>2 DEF Change, StoreInv, MessageOK, Message, IsPack, AtStripe, Live
  <2>4. \A h \in Handlers : WorkOK(h)'
    BY <1>1, <2>2 DEF Change, StoreInv, WorkOK, IsPack
  <2> QED BY <1>1, <2>1, <2>2, <2>3, <2>4 DEF Change, StoreInv, AtStripe, Live
<1>2. ASSUME NEW p \in Packs, NEW said \in {"pending", "paid", "failed"}, FinishPack(p, said)
      PROVE  StoreInv'
  <2>1. ShopTypeOK'
    BY <1>2 DEF FinishPack, told, StoreInv, ShopTypeOK
  <2>2. /\ \A q \in Packs : pack[q] = "paid" => pack'[q] = "paid"
        /\ pack'[p] = said
    BY <1>2 DEF FinishPack, StoreInv, ShopTypeOK
  <2>3. \A e \in events' : MessageOK(e)'
    <3>1. ASSUME NEW e \in events PROVE MessageOK(e)'
      BY <1>2, <2>2, <3>1 DEF FinishPack, StoreInv, MessageOK
    <3>2. ASSUME NEW e \in events' \ events PROVE MessageOK(e)'
      BY <1>2, <2>2, <3>2 DEF FinishPack, MessageOK, PackMessage, Message, IsPack
    <3> QED BY <3>1, <3>2
  <2>4. \A h \in Handlers : WorkOK(h)'
    BY <1>2, <2>2 DEF FinishPack, StoreInv, WorkOK
  <2> QED BY <1>2, <2>1, <2>2, <2>3, <2>4 DEF FinishPack, StoreInv, ShopTypeOK
<1> QED BY <1>1, <1>2 DEF StripeStep

\* A handler's step keeps StoreInv: it enters a pack only under its unique source_ref.
LEMMA HandlerStoreInv ==
    ASSUME StoreInv, NEW h \in Handlers, HandlerStep(h)
    PROVE  StoreInv'
<1>1. ASSUME NEW e \in events, FetchSubscribed(h, e) PROVE StoreInv'
  <2>1. e.of \in Subs /\ stripe[e.of].status \in AtStripe /\ stripe[e.of].at \in Nat
    BY <1>1 DEF FetchSubscribed, StoreInv, ShopTypeOK, MessageOK, IsPack
  <2> QED BY <1>1, <2>1 DEF FetchSubscribed, Fetch, told, StoreInv, ShopTypeOK, MessageOK, WorkOK, IsPack
<1>2. ASSUME NEW e \in events, LookupPack(h, e) PROVE StoreInv'
  <2>1. e.of \in Packs /\ (e.status = "paid" => pack[e.of] = "paid")
    BY <1>2 DEF LookupPack, StoreInv, MessageOK, IsPack
  <2> QED BY <1>2, <2>1 DEF LookupPack, NoWork, Message, told, StoreInv, ShopTypeOK, MessageOK, WorkOK, IsPack
<1>3. ASSUME NEW s \in Subs, Return(h, s) PROVE StoreInv'
  <2> DEFINE msg == Message("returned", s, "none", 0)
             got == [msg |-> msg, got |-> stripe[s].status, at |-> stripe[s].at]
  <2>1. msg.of = s /\ msg.type = "returned"
    BY DEF Message
  <2> HIDE DEF msg
  <2>0. stripe[s].status \in AtStripe /\ stripe[s].at \in Nat
    BY <1>3 DEF Return, StoreInv, ShopTypeOK
  <2>2. \A g \in Handlers : work'[g] = IF g = h THEN got ELSE work[g]
    <3>1. work' = [work EXCEPT ![h] = [msg |-> msg, got |-> stripe[msg.of].status, at |-> stripe[msg.of].at]]
      BY <1>3 DEF Return, Fetch, msg
    <3> QED BY <2>1, <3>1 DEF StoreInv
  <2>3. ShopTypeOK'
    BY <1>3, <2>0, <2>1, <2>2 DEF Return, Fetch, told, StoreInv, ShopTypeOK
  <2>4. \A g \in Handlers : WorkOK(g)'
    BY <1>3, <2>0, <2>1, <2>2 DEF Return, Fetch, StoreInv, WorkOK
  <2> QED BY <1>3, <2>3, <2>4 DEF Return, Fetch, StoreInv, MessageOK
<1>4. CASE StoreFetched(h)
  <2>1. work[h].msg.of \in Subs /\ work[h].got \in AtStripe /\ work[h].at \in Nat
    BY <1>4 DEF StoreFetched, StoreInv, ShopTypeOK, WorkOK, NoWork, Message, IsPack
  <2>2. /\ row' \in Rows
        /\ seen' \in [Subs -> Nat] /\ late' \subseteq Subs /\ left' \subseteq Subs
    BY <1>4, <2>1, MirrorTypes DEF StoreFetched, told, StoreInv, ShopTypeOK
  <2>3. \A g \in Handlers : work'[g] = IF g = h THEN NoWork ELSE work[g]
    BY <1>4 DEF StoreFetched, StoreInv
  <2>4. ShopTypeOK'
    BY <1>4, <2>2, <2>3 DEF StoreFetched, Recorded, StoreInv, ShopTypeOK, NoWork, Message
  <2>5. \A g \in Handlers : WorkOK(g)'
    BY <1>4, <2>3 DEF StoreFetched, StoreInv, WorkOK
  <2> QED BY <1>4, <2>4, <2>5 DEF StoreFetched, Recorded, StoreInv, MessageOK
<1>5. CASE StorePack(h)
  <2>1. work[h].msg.of \in Packs /\ (work[h].got = "new" => pack[work[h].msg.of] = "paid")
    BY <1>5 DEF StorePack, StoreInv, WorkOK, NoWork, Message, IsPack
  <2>2. ShopTypeOK' /\ DOMAIN work' = Handlers
    BY <1>5, <2>1 DEF StorePack, told, StoreInv, ShopTypeOK, NoWork, Message
  <2>3. \A p \in Packs : granted'[p] = IF p \in purchases' THEN 1 ELSE 0
    BY <1>5, <2>1 DEF StorePack, Inserted, StoreInv, ShopTypeOK
  <2>4. \A p \in purchases' : pack'[p] = "paid"
    BY <1>5, <2>1 DEF StorePack, Inserted, StoreInv
  <2>5. \A e \in events' : MessageOK(e)'
    BY <1>5 DEF StorePack, Recorded, StoreInv, MessageOK
  <2>6. \A g \in Handlers : WorkOK(g)'
    BY <1>5 DEF StorePack, StoreInv, WorkOK
  <2> QED BY <1>5, <2>2, <2>3, <2>4, <2>5, <2>6 DEF StorePack, StoreInv
<1>6. CASE Fail(h)
  BY <1>6 DEF Fail, told, StoreInv, ShopTypeOK, MessageOK, WorkOK, NoWork, Message
<1> QED BY <1>1, <1>2, <1>3, <1>4, <1>5, <1>6 DEF HandlerStep

\* StoreInv is inductive.
LEMMA NextStoreInv == StoreInv /\ [ShopNext]_shopVars => StoreInv'
<1> SUFFICES ASSUME StoreInv, [ShopNext]_shopVars PROVE StoreInv'
  OBVIOUS
<1>1. CASE Lapse
  BY <1>1 DEF Lapse, told, StoreInv, ShopTypeOK, Rows, MessageOK, WorkOK
<1>2. ASSUME NEW e \in events, StoreSnapshot(e) PROVE StoreInv'
  <2>1. e.of \in Subs /\ e.status \in AtStripe /\ e.at \in Nat
    BY <1>2 DEF StoreSnapshot, StoreInv, MessageOK, IsPack
  <2>2. /\ row' \in Rows
        /\ seen' \in [Subs -> Nat] /\ late' \subseteq Subs /\ left' \subseteq Subs
    BY <1>2, <2>1, MirrorTypes DEF StoreSnapshot, StoreInv
  <2> QED BY <1>2, <2>2 DEF StoreSnapshot, Recorded, StoreInv, ShopTypeOK, MessageOK, WorkOK
<1>3. CASE UNCHANGED shopVars
  BY <1>3 DEF shopVars, told, StoreInv, ShopTypeOK, MessageOK, WorkOK
<1> QED BY <1>1, <1>2, <1>3, UserStoreInv, StripeStoreInv, HandlerStoreInv DEF ShopNext

\* Types, for every set of Checkouts, packs and processes.
THEOREM SubscriptionsTypeCorrect == ShopSpec => []ShopTypeOK
<1>1. StoreInv => ShopTypeOK
  BY DEF StoreInv
<1> QED BY <1>1, InitStoreInv, NextStoreInv, PTL DEF ShopSpec

\* A credit pack is entered at most once, and only when it is paid for, however many processes
\* handle its two events.
THEOREM PacksGrantedOnce == ShopSpec => []GrantedOnce
<1>1. StoreInv => GrantedOnce
  BY DEF StoreInv, GrantedOnce, ShopTypeOK
<1> QED BY <1>1, InitStoreInv, NextStoreInv, PTL DEF ShopSpec

-----------------------------------------------------------------------------
(* Rights.                                                                  *)

\* What an answer of Stripe's says: what is there, or something older; the end is the last.
Answer(s, said, at) ==
    /\ at <= stripe[s].at
    /\ at = stripe[s].at => said = stripe[s].status
    /\ said = "canceled" => at = stripe[s].at

\* The newest event of a subscription is yet to be handled.
LastEvent(e, s) == e.type = "updated" /\ e.of = s /\ e.at = stripe[s].at
Pending(s) == \E e \in events : LastEvent(e, s)

\* The row, and what has been handled of each subscription.
RowInv ==
    /\ row.sub = NoSub => row.status = "none" \/ (row.status = "trial" /\ row.tried)
    /\ row.sub # NoSub =>
            /\ row.sub \in Subs /\ stripe[row.sub].status \in AtStripe
            /\ row.sub \notin late /\ seen[row.sub] = stripe[row.sub].at =>
                    row.status = STRIPE_STATUS[stripe[row.sub].status]
            /\ stripe[row.sub].status \in Live => row.status \in Rights
    /\ \A s \in Subs : seen[s] <= stripe[s].at

HandledInv ==
    \A s \in Subs :
        /\ stripe[s].status \in AtStripe => Pending(s) \/ seen[s] = stripe[s].at
        /\ stripe[s].status \in Live => Pending(s) \/ row.sub = s \/ s \in left

RightsInv ==
    /\ StoreInv
    /\ \A e \in events : e.type = "updated" => Answer(e.of, e.status, e.at)
    /\ \A h \in Handlers : work[h].msg.type \in {"subscribed", "returned"} =>
            Answer(work[h].msg.of, work[h].got, work[h].at)
    /\ RowInv
    /\ HandledInv

\* Nothing is handled in the initial state.
LEMMA InitRightsInv == ShopInit => RightsInv
BY InitStoreInv DEF ShopInit, RightsInv, RowInv, HandledInv, AtStripe, Live, NoWork, Message

\* An answer is handled: the row is that of the subscription it is of, or an end is ignored.
LEMMA MirrorKeepsRow ==
    ASSUME RightsInv, NEW s \in Subs, NEW said \in AtStripe, NEW at \in Nat,
           stripe[s].status \in AtStripe, Answer(s, said, at),
           Mirror(s, said, at), stripe' = stripe
    PROVE  RowInv'
<1>1. /\ row \in Rows /\ stripe \in [Subs -> [status : AtStripe \cup {"none"}, at : Nat]]
      /\ seen \in [Subs -> Nat] /\ NoSub \notin Subs
  BY SubscriptionsAssumption DEF RightsInv, StoreInv, ShopTypeOK
<1>2. /\ \A r \in Subs : seen'[r] = IF r = s /\ at > seen[s] THEN at ELSE seen[r]
      /\ \A r \in Subs : r # s => (r \in late' <=> r \in late)
      /\ s \in late' <=> at < seen[s]
  BY <1>1 DEF Mirror
<1>3. \A r \in Subs : seen'[r] <= stripe'[r].at
  BY <1>1, <1>2 DEF RightsInv, RowInv, Answer
<1>4. CASE row.sub \notin {NoSub, s} /\ said = "canceled"
  <2>1. row' = row /\ row.sub # s
    BY <1>4 DEF Mirror, Upsert
  <2> QED BY <1>1, <1>2, <1>3, <2>1 DEF RightsInv, RowInv
<1>5. CASE ~(row.sub \notin {NoSub, s} /\ said = "canceled")
  <2>1. row'.sub = s /\ row'.status = STRIPE_STATUS[said]
    BY <1>5 DEF Mirror, Upsert
  <2>2. s \notin late' /\ seen'[s] = stripe[s].at => said = stripe[s].status
    BY <1>1, <1>2 DEF Answer
  <2>3. stripe[s].status \in Live => STRIPE_STATUS[said] \in Rights
    BY DEF Answer, Live, AtStripe, STRIPE_STATUS, Rights
  <2> QED BY <1>1, <1>3, <2>1, <2>2, <2>3 DEF RowInv
<1> QED BY <1>4, <1>5

\* The newest event of the subscription is the one handled, or is still to come; and a live one
\* the row leaves is noted.
LEMMA MirrorKeepsHandled ==
    ASSUME RightsInv, NEW s \in Subs, NEW said \in AtStripe, NEW at \in Nat,
           stripe[s].status \in AtStripe, Answer(s, said, at),
           Mirror(s, said, at), stripe' = stripe,
           \A r \in Subs : Pending(r) => Pending(r)' \/ (r = s /\ at = stripe[s].at)
    PROVE  HandledInv'
<1>1. /\ row \in Rows /\ stripe \in [Subs -> [status : AtStripe \cup {"none"}, at : Nat]]
      /\ seen \in [Subs -> Nat] /\ NoSub \notin Subs
  BY SubscriptionsAssumption DEF RightsInv, StoreInv, ShopTypeOK
<1>2. /\ \A r \in Subs : seen'[r] = IF r = s /\ at > seen[s] THEN at ELSE seen[r]
      /\ seen[s] <= stripe[s].at
  BY <1>1 DEF Mirror, RightsInv, RowInv
<1>3. ASSUME NEW r \in Subs, stripe'[r].status \in AtStripe
      PROVE  Pending(r)' \/ seen'[r] = stripe'[r].at
  BY <1>1, <1>2, <1>3 DEF RightsInv, HandledInv, Answer
<1>4. ASSUME NEW r \in Subs, stripe'[r].status \in Live
      PROVE  Pending(r)' \/ row'.sub = r \/ r \in left'
  <2>1. CASE r = s
    <3>1. said # "canceled"
      BY <1>4, <2>1 DEF Answer, Live
    <3> QED BY <2>1, <3>1 DEF Mirror, Upsert
  <2>2. CASE r # s
    <3>1. Pending(r) \/ row.sub = r \/ r \in left
      BY <1>4 DEF RightsInv, HandledInv
    <3>2. r \in left => r \in left'
      BY <1>1, <2>2 DEF Mirror
    <3>3. row.sub = r => row'.sub = r \/ r \in left'
      BY <1>1, <2>2 DEF Mirror, Upsert
    <3> QED BY <2>2, <3>1, <3>2, <3>3
  <2> QED BY <2>1, <2>2
<1> QED BY <1>3, <1>4 DEF HandledInv

\* Users and Stripe: what Stripe does to a subscription it tells of, and nothing follows an end.
LEMMA WorldRightsInv == RightsInv /\ (BuyerStep \/ StripeStep) => RightsInv'
<1> SUFFICES ASSUME RightsInv, BuyerStep \/ StripeStep PROVE RightsInv'
  OBVIOUS
<1>0. StoreInv'
  BY UserStoreInv, StripeStoreInv DEF RightsInv
<1>1. ASSUME NEW s \in Subs, Checkout(s) PROVE RightsInv'
  BY <1>0, <1>1 DEF Checkout, told, RightsInv, Answer, RowInv, HandledInv, Pending, LastEvent
<1>2. ASSUME NEW p \in Packs, BuyPack(p) PROVE RightsInv'
  BY <1>0, <1>2 DEF BuyPack, told, RightsInv, Answer, RowInv, HandledInv, Pending, LastEvent
<1>3. ASSUME NEW p \in Packs, NEW said \in {"pending", "paid", "failed"}, FinishPack(p, said)
      PROVE  RightsInv'
  <2>1. /\ UNCHANGED <<row, stripe, work, seen, late, left>>
        /\ events \subseteq events'
        /\ \A e \in events' \ events : e.type # "updated"
    BY <1>3 DEF FinishPack, PackMessage, Message, told
  <2> QED BY <1>0, <2>1 DEF RightsInv, Answer, RowInv, HandledInv, Pending, LastEvent
<1>4. ASSUME NEW s \in Subs, NEW said \in AtStripe, NEW at \in Nat, NEW e,
             at > stripe[s].at, stripe[s].status # "canceled",
             e.type = "updated" /\ e.of = s /\ e.status = said /\ e.at = at,
             \A r \in Subs : stripe'[r] = IF r = s THEN [status |-> said, at |-> at] ELSE stripe[r],
             e \in events', events \subseteq events',
             \A m \in events' \ events : m = e \/ m.type # "updated",
             UNCHANGED <<row, work, told>>
      PROVE  RightsInv'
  <2>1. /\ row \in Rows /\ stripe \in [Subs -> [status : AtStripe \cup {"none"}, at : Nat]]
        /\ seen \in [Subs -> Nat] /\ NoSub \notin Subs
    BY SubscriptionsAssumption DEF RightsInv, StoreInv, ShopTypeOK
  <2>2. \A m \in events' : m.type = "updated" => Answer(m.of, m.status, m.at)'
    <3>1. ASSUME NEW m \in events, m.type = "updated" PROVE Answer(m.of, m.status, m.at)'
      <4>1. m.of \in Subs /\ m.at \in Nat /\ Answer(m.of, m.status, m.at)
        BY <3>1 DEF RightsInv, StoreInv, MessageOK, IsPack
      <4> QED BY <1>4, <2>1, <4>1 DEF Answer
    <3>2. Answer(e.of, e.status, e.at)'
      BY <1>4 DEF Answer
    <3> QED BY <1>4, <3>1, <3>2
  <2>3. ASSUME NEW h \in Handlers, work[h].msg.type \in {"subscribed", "returned"}
        PROVE  Answer(work[h].msg.of, work[h].got, work[h].at)'
    <3>1. work[h].msg.of \in Subs /\ work[h].at \in Nat /\ Answer(work[h].msg.of, work[h].got, work[h].at)
      BY <2>3 DEF RightsInv, StoreInv, ShopTypeOK, WorkOK, NoWork, Message, IsPack
    <3> QED BY <1>4, <2>1, <3>1 DEF Answer
  <2>4. RowInv'
    <3>1. UNCHANGED <<row, seen, late>>
      BY <1>4 DEF told
    <3>2. \A r \in Subs : seen[r] <= stripe'[r].at
      BY <1>4, <2>1 DEF RightsInv, RowInv
    <3>3. CASE row.sub = s
      <4>1. stripe[s].status \in Live /\ seen[s] <= stripe[s].at /\ row.status \in Rights
        BY <1>4, <2>1, <3>3 DEF RightsInv, RowInv, AtStripe
      <4>2. seen[s] # stripe'[s].at /\ stripe'[s].status \in AtStripe
        BY <1>4, <2>1, <4>1
      <4> QED BY <2>1, <3>1, <3>2, <3>3, <4>1, <4>2 DEF RowInv
    <3>4. CASE row.sub # s
      <4>1. row.sub # NoSub => stripe'[row.sub] = stripe[row.sub]
        BY <1>4, <3>4 DEF RightsInv, RowInv
      <4> QED BY <3>1, <3>2, <4>1 DEF RightsInv, RowInv
    <3> QED BY <3>3, <3>4
  <2>5. Pending(s)' /\ \A r \in Subs : r # s /\ Pending(r) => Pending(r)'
    BY <1>4 DEF Pending, LastEvent
  <2>6. HandledInv'
    BY <1>4, <2>5 DEF RightsInv, HandledInv, told
  <2> QED BY <1>0, <1>4, <2>2, <2>3, <2>4, <2>6 DEF RightsInv
<1>5. ASSUME NEW s \in Subs, Subscribe(s) PROVE RightsInv'
  <2> DEFINE said == IF session[s].trial THEN "trialing" ELSE "active"
             e == Message("updated", s, said, 1)
  <2>1. stripe[s].status = "none" /\ stripe[s].at = 0
    <3>1. session[s].status # "complete" /\ stripe[s].status \in AtStripe \cup {"none"}
      BY <1>5 DEF Subscribe, RightsInv, StoreInv, ShopTypeOK
    <3> QED BY <3>1 DEF RightsInv, StoreInv
  <2>2. said \in Live
    BY DEF Live
  <2>3. e.type = "updated" /\ e.of = s /\ e.status = said /\ e.at = 1
    BY DEF Message
  <2>4. Message("subscribed", s, "none", 0).type = "subscribed"
    BY DEF Message
  <2>5. events' = events \cup {Message("subscribed", s, "none", 0), e}
    BY <1>5 DEF Subscribe
  <2>6. \A r \in Subs : stripe'[r] = IF r = s THEN [status |-> said, at |-> 1] ELSE stripe[r]
    BY <1>5 DEF Subscribe, RightsInv, StoreInv, ShopTypeOK
  <2>7. UNCHANGED <<row, work, told>>
    BY <1>5 DEF Subscribe
  <2> HIDE DEF said, e
  <2> QED BY <1>4, <2>1, <2>2, <2>3, <2>4, <2>5, <2>6, <2>7 DEF AtStripe
<1>6. ASSUME NEW s \in Subs, NEW said \in AtStripe, Change(s, said) PROVE RightsInv'
  <2> DEFINE at == stripe[s].at + 1
             e == Message("updated", s, said, at)
  <2>1. at \in Nat /\ at > stripe[s].at /\ stripe[s].status # "canceled"
    BY <1>6 DEF Change, RightsInv, StoreInv, ShopTypeOK, Live
  <2>2. e.type = "updated" /\ e.of = s /\ e.status = said /\ e.at = at
    BY DEF Message
  <2>3. events' = events \cup {e}
    BY <1>6 DEF Change
  <2>4. \A r \in Subs : stripe'[r] = IF r = s THEN [status |-> said, at |-> at] ELSE stripe[r]
    BY <1>6 DEF Change, RightsInv, StoreInv, ShopTypeOK
  <2>5. UNCHANGED <<row, work, told>>
    BY <1>6 DEF Change
  <2> HIDE DEF at, e
  <2> QED BY <1>4, <2>1, <2>2, <2>3, <2>4, <2>5 DEF AtStripe
<1> QED BY <1>1, <1>2, <1>3, <1>5, <1>6 DEF BuyerStep, StripeStep

\* An answer handled keeps RightsInv: a snapshot told, or one fetched before.
LEMMA HandledKeepsRights ==
    ASSUME RightsInv, StoreInv', NEW s \in Subs, NEW said \in AtStripe, NEW at \in Nat,
           stripe[s].status \in AtStripe, Answer(s, said, at),
           Mirror(s, said, at), stripe' = stripe, events' \subseteq events,
           \A e \in events \ events' :
                e.type = "updated" => e.of = s /\ e.at = at,
           \A h \in Handlers : work'[h] = work[h] \/ work'[h] = NoWork
    PROVE  RightsInv'
<1>1. \A r \in Subs : Pending(r) => Pending(r)' \/ (r = s /\ at = stripe[s].at)
  BY DEF Pending, LastEvent
<1>2. RowInv' /\ HandledInv'
  BY <1>1, MirrorKeepsRow, MirrorKeepsHandled
<1> QED BY <1>2 DEF RightsInv, Answer, NoWork, Message

\* RightsInv is inductive.
LEMMA NextRightsInv == RightsInv /\ [ShopNext]_shopVars => RightsInv'
<1> SUFFICES ASSUME RightsInv, [ShopNext]_shopVars PROVE RightsInv'
  OBVIOUS
<1>0. StoreInv'
  BY NextStoreInv DEF RightsInv
<1>1. CASE Lapse
  <2>1. /\ row'.sub = row.sub /\ row'.status = row.status /\ row'.tried = row.tried
        /\ UNCHANGED <<stripe, events, work, seen, late, left>>
    BY <1>1 DEF Lapse, told, RightsInv, StoreInv, ShopTypeOK, Rows
  <2> QED BY <1>0, <2>1 DEF RightsInv, Answer, RowInv, HandledInv, Pending, LastEvent
<1>2. ASSUME NEW e \in events, StoreSnapshot(e) PROVE RightsInv'
  <2>1. /\ e.of \in Subs /\ e.status \in AtStripe /\ e.at \in Nat /\ stripe[e.of].status \in AtStripe
        /\ Answer(e.of, e.status, e.at)
    BY <1>2 DEF StoreSnapshot, RightsInv, StoreInv, MessageOK, IsPack
  <2> QED BY <1>0, <1>2, <2>1, HandledKeepsRights DEF StoreSnapshot, Recorded
\* A step of a handler that does not handle an answer.
<1>3. ASSUME UNCHANGED <<row, stripe, told>>, events' \subseteq events,
             \A e \in events \ events' : e.type # "updated",
             \A h \in Handlers : work'[h].msg.type \in {"subscribed", "returned"} =>
                work'[h] = work[h] \/ Answer(work'[h].msg.of, work'[h].got, work'[h].at)
      PROVE  RightsInv'
  <2>1. UNCHANGED <<seen, late, left>>
    BY <1>3 DEF told
  <2>2. \A r \in Subs : Pending(r) => Pending(r)'
    BY <1>3 DEF Pending, LastEvent
  <2> QED BY <1>0, <1>3, <2>1, <2>2 DEF RightsInv, Answer, RowInv, HandledInv
<1>4. ASSUME NEW h \in Handlers, NEW msg, msg.of \in Subs, stripe[msg.of].status \in AtStripe, Fetch(h, msg)
      PROVE  RightsInv'
  <2>1. Answer(msg.of, stripe[msg.of].status, stripe[msg.of].at)
    BY <1>4 DEF Answer, RightsInv, StoreInv, ShopTypeOK
  <2>2. \A g \in Handlers : work'[g] =
            IF g = h THEN [msg |-> msg, got |-> stripe[msg.of].status, at |-> stripe[msg.of].at] ELSE work[g]
    BY <1>4 DEF Fetch, RightsInv, StoreInv
  <2> QED BY <1>3, <1>4, <2>1, <2>2 DEF Fetch
<1>5. ASSUME NEW h \in Handlers, NEW e \in events, FetchSubscribed(h, e) PROVE RightsInv'
  BY <1>4, <1>5 DEF FetchSubscribed, RightsInv, StoreInv, MessageOK, IsPack
<1>6. ASSUME NEW h \in Handlers, NEW s \in Subs, Return(h, s) PROVE RightsInv'
  <2> DEFINE msg == Message("returned", s, "none", 0)
  <2>1. msg.of = s
    BY DEF Message
  <2>2. Fetch(h, msg) /\ stripe[s].status \in AtStripe
    BY <1>6 DEF Return, RightsInv, StoreInv
  <2> HIDE DEF msg
  <2> QED BY <1>4, <2>1, <2>2
<1>7. ASSUME NEW h \in Handlers, NEW e \in events, LookupPack(h, e) PROVE RightsInv'
  <2>1. \A g \in Handlers : g # h => work'[g] = work[g]
    BY <1>7 DEF LookupPack, RightsInv, StoreInv
  <2>2. work'[h].msg.type \notin {"subscribed", "returned"}
    BY <1>7 DEF LookupPack, IsPack, NoWork, RightsInv, StoreInv
  <2> QED BY <1>3, <1>7, <2>1, <2>2 DEF LookupPack
<1>8. ASSUME NEW h \in Handlers, StoreFetched(h) PROVE RightsInv'
  <2> DEFINE msg == work[h].msg
  <2>1. /\ msg.of \in Subs /\ work[h].got \in AtStripe /\ work[h].at \in Nat
        /\ stripe[msg.of].status \in AtStripe
        /\ Answer(msg.of, work[h].got, work[h].at)
    BY <1>8 DEF StoreFetched, RightsInv, StoreInv, ShopTypeOK, WorkOK, NoWork, Message, IsPack
  <2>2. \A g \in Handlers : work'[g] = work[g] \/ work'[g] = NoWork
    BY <1>8 DEF StoreFetched, RightsInv, StoreInv
  <2>3. /\ stripe' = stripe /\ events' \subseteq events
        /\ \A e \in events \ events' : e.type # "updated"
    BY <1>8 DEF StoreFetched, Recorded
  <2>4. CASE Mirror(msg.of, work[h].got, work[h].at)
    BY <1>0, <2>1, <2>2, <2>3, <2>4, HandledKeepsRights
  <2>5. CASE UNCHANGED <<row, told>>
    BY <1>3, <2>2, <2>3, <2>5 DEF NoWork, Message
  <2> QED BY <1>8, <2>4, <2>5 DEF StoreFetched
<1>9. ASSUME NEW h \in Handlers, StorePack(h) \/ Fail(h) PROVE RightsInv'
  <2>1. \A g \in Handlers : work'[g] = work[g] \/ work'[g] = NoWork
    BY <1>9 DEF StorePack, Fail, RightsInv, StoreInv
  <2>2. UNCHANGED <<row, stripe, told>>
    BY <1>9 DEF StorePack, Fail
  <2>3. events' \subseteq events /\ \A e \in events \ events' : e.type # "updated"
    BY <1>9 DEF StorePack, Fail, Recorded, IsPack
  <2> QED BY <1>3, <2>1, <2>2, <2>3 DEF NoWork, Message
<1>10. CASE UNCHANGED shopVars
  BY <1>3, <1>10 DEF shopVars
<1> QED BY <1>1, <1>2, <1>5, <1>6, <1>7, <1>8, <1>9, <1>10, WorldRightsInv DEF ShopNext, HandlerStep

\* Only Stripe gives rights, but for those of an old trial without a card; and once every event
\* has been handled the row says what Stripe does, unless an older answer was handled last, and
\* a live subscription has its rights, unless one that ended has taken the row over: for every
\* number of Checkouts and processes.
THEOREM RightsComeFromStripe == ShopSpec => []RightsFromStripe
<1>1. RightsInv => RightsFromStripe
  <2> SUFFICES ASSUME RightsInv PROVE RightsFromStripe
    OBVIOUS
  <2>1. row.sub # NoSub => session[row.sub].status = "complete" /\ stripe[row.sub].status # "none"
    <3>1. row.sub # NoSub => row.sub \in Subs /\ stripe[row.sub].status \in AtStripe
      BY DEF RightsInv, RowInv
    <3> QED BY <3>1 DEF RightsInv, StoreInv, AtStripe, Live
  <2>2. Quiet => \A s \in Subs : ~Pending(s)
    BY DEF Quiet, Pending
  <2>3. ASSUME Quiet, row.sub \notin late \cup {NoSub}
        PROVE  row.status = STRIPE_STATUS[stripe[row.sub].status]
    BY <2>2, <2>3 DEF RightsInv, RowInv, HandledInv
  <2>4. ASSUME Quiet, NEW s \in Subs, stripe[s].status \in Live
        PROVE  row.status \in Rights \/ s \in left
    BY <2>2, <2>4, SubscriptionsAssumption DEF RightsInv, RowInv, HandledInv
  <2> QED BY <2>1, <2>3, <2>4 DEF RightsFromStripe, RightsInv, RowInv
<1> QED BY <1>1, InitRightsInv, NextRightsInv, PTL DEF ShopSpec
=============================================================================
