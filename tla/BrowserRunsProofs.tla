------------------------- MODULE BrowserRunsProofs -------------------------
(***************************************************************************)
(* Theorems about BrowserRuns, for any runs, offers and number of restarts.   *)
(* Runs share nothing, so the invariant speaks of one run at a time: AnswerInv *)
(* says what a yes is about, ClickInv where the thread can be while the run is *)
(* in which status, CreditInv what the credit ledger says of it.             *)
(***************************************************************************)
EXTENDS BrowserRuns, FiniteSetTheorems, TLAPS

AnswerInv(r) ==
    /\ status[r] = "approved" => yes[r] = proposal[r]
    /\ thread[r] \in {"waiting", "taking"} => form[r] = proposal[r]
    /\ thread[r] = "preparing" /\ replay[r] => yes[r] = proposal[r]
    /\ thread[r] \in {"taken", "marked", "clear"} => form[r] = yes[r]
    /\ r \notin misfits

ClickInv(r) ==
    /\ thread[r] \in {"waiting", "taking"} => status[r] \in Final \cup {"awaiting_approval", "approved"}
    /\ thread[r] \in {"preparing", "taken", "marked", "writing"} => status[r] \in Final \cup {"running"}
    /\ thread[r] \in {"preparing", "waiting", "taking", "taken"} => ~confirming[r]
    /\ thread[r] \in {"marked", "clear", "clicked"} => confirming[r]
    /\ thread[r] \in {"clear", "clicked"} => status[r] = "running"
    /\ thread[r] \in {"marked", "clear"} => clicks[r] = 0
    /\ confirming[r] => status[r] \in Final \cup {"running"}
    /\ clicks[r] > 0 => confirming[r]
    /\ clicks[r] <= 1
    /\ r \in refused => status[r] \in Final /\ clicks[r] = 0

CreditInv(r) ==
    /\ status[r] \notin Final => ledger[r] \cap {"capture", "release"} = {}
    /\ thread[r] = "clicked" => clicks[r] = 1
    /\ thread[r] = "writing" =>
        /\ verdict[r] # None
        /\ ~confirming[r] => verdict[r] \in {"fallback", "failed", "unexpected"}
        /\ verdict[r] = "unexpected" => r \in accidents
        /\ confirming[r] => status[r] = "running" /\ verdict[r] # "unexpected"
        /\ clicks[r] > 0 => verdict[r] \in {"done", "unconfirmed"}
        /\ status[r] # "running" => r \in refused /\ "capture" \notin ledger[r]
    /\ "release" \in ledger[r] =>
        /\ clicks[r] > 0 => code[r] = "worker_lost"
        /\ "capture" \in ledger[r] => r \in accidents \cap refused

RunInv == \A r \in Runs : AnswerInv(r) /\ ClickInv(r) /\ CreditInv(r)

IInv == TypeOK /\ RunInv

\* A step that does not concern a run ...
Unmoved(q) ==
    /\ status'[q] = status[q] /\ code'[q] = code[q] /\ ledger'[q] = ledger[q]
    /\ proposal'[q] = proposal[q] /\ confirming'[q] = confirming[q]
    /\ thread'[q] = thread[q] /\ replay'[q] = replay[q] /\ form'[q] = form[q] /\ verdict'[q] = verdict[q]
    /\ yes'[q] = yes[q] /\ clicks'[q] = clicks[q]
    /\ q \in misfits' <=> q \in misfits
    /\ q \in accidents' <=> q \in accidents
    /\ q \in refused' <=> q \in refused

\* ... keeps what is known of it.
LEMMA OtherRuns ==
    ASSUME NEW q, AnswerInv(q), ClickInv(q), CreditInv(q), Unmoved(q)
    PROVE  AnswerInv(q)' /\ ClickInv(q)' /\ CreditInv(q)'
<1>1. AnswerInv(q)'
  BY DEF Unmoved, AnswerInv
<1>2. ClickInv(q)'
  BY DEF Unmoved, ClickInv
<1>3. CreditInv(q)'
  BY DEF Unmoved, CreditInv
<1> QED BY <1>1, <1>2, <1>3

LEMMA InitIInv == Init => IInv
<1> SUFFICES ASSUME Init PROVE IInv
  OBVIOUS
<1>1. TypeOK
  BY CrashesAssumption, FS_EmptySet DEF Init, TypeOK, Statuses, Codes, CodeOf, Verdicts, Events, None
<1>2. RunInv
  BY DEF Init, RunInv, AnswerInv, ClickInv, CreditInv, Final, None
<1> QED BY <1>1, <1>2 DEF IInv

\* The event handled last is one of the queue's, or none.
LEMMA OneEvent == Cardinality({}) <= 1 /\ \A e \in Events : Cardinality({e}) <= 1
<1>1. Cardinality({}) <= 1
  BY FS_EmptySet
<1>2. ASSUME NEW e \in Events
      PROVE  Cardinality({e}) <= 1
  <2>1. Cardinality({e}) = 1
    BY FS_Singleton
  <2> QED BY <2>1
<1> QED BY <1>1, <1>2

-----------------------------------------------------------------------------
(* The user.                                                                *)

LEMMA PlanInv ==
    ASSUME IInv, NEW r \in Runs, Plan(r)
    PROVE  IInv'
<1>1. TypeOK /\ AnswerInv(r) /\ ClickInv(r) /\ CreditInv(r)
  BY DEF IInv, RunInv
<1>2. ASSUME NEW q \in Runs, q # r
      PROVE  AnswerInv(q)' /\ ClickInv(q)' /\ CreditInv(q)'
  <2>1. Unmoved(q)
    BY <1>1, <1>2 DEF Unmoved, TypeOK, Plan, Move, state, details, worker, threads, history
  <2> QED BY <2>1, OtherRuns DEF IInv, RunInv
<1> USE DEF Final, Statuses, Kinds, Events, Verdicts, Codes, CodeOf, None, state, details, worker,
   threads, history
<1>3. TypeOK'
  BY <1>1 DEF TypeOK, Plan, Move
<1>4. AnswerInv(r)'
  BY <1>1 DEF TypeOK, Plan, Move, AnswerInv, ClickInv
<1>5. ClickInv(r)'
  BY <1>1 DEF TypeOK, Plan, Move, ClickInv
<1>6. CreditInv(r)'
  BY <1>1 DEF TypeOK, Plan, Move, ClickInv, CreditInv
<1> QED BY <1>2, <1>3, <1>4, <1>5, <1>6 DEF IInv, RunInv

LEMMA ApproveInv ==
    ASSUME IInv, NEW r \in Runs, Approve(r)
    PROVE  IInv'
<1>1. TypeOK /\ AnswerInv(r) /\ ClickInv(r) /\ CreditInv(r)
  BY DEF IInv, RunInv
<1>2. ASSUME NEW q \in Runs, q # r
      PROVE  AnswerInv(q)' /\ ClickInv(q)' /\ CreditInv(q)'
  <2>1. Unmoved(q)
    BY <1>1, <1>2 DEF Unmoved, TypeOK, Approve, Move, state, details, worker, threads, history
  <2> QED BY <2>1, OtherRuns DEF IInv, RunInv
<1> USE DEF Final, Statuses, Kinds, Events, Verdicts, Codes, CodeOf, None, state, details, worker,
   threads, history
<1>3. TypeOK'
  BY <1>1 DEF TypeOK, Approve, Move
<1>4. AnswerInv(r)'
  BY <1>1 DEF TypeOK, Approve, Move, AnswerInv, ClickInv
<1>5. ClickInv(r)'
  BY <1>1 DEF TypeOK, Approve, Move, ClickInv
<1>6. CreditInv(r)'
  BY <1>1 DEF TypeOK, Approve, Move, ClickInv, CreditInv
<1> QED BY <1>2, <1>3, <1>4, <1>5, <1>6 DEF IInv, RunInv

LEMMA ApproveTooLateInv ==
    ASSUME IInv, NEW r \in Runs, ApproveTooLate(r)
    PROVE  IInv'
<1>1. TypeOK /\ AnswerInv(r) /\ ClickInv(r) /\ CreditInv(r)
  BY DEF IInv, RunInv
<1>2. ASSUME NEW q \in Runs, q # r
      PROVE  AnswerInv(q)' /\ ClickInv(q)' /\ CreditInv(q)'
  <2>1. Unmoved(q)
    BY <1>1, <1>2 DEF Unmoved, TypeOK, ApproveTooLate, End, Move, state, details, worker, threads,
       history
  <2> QED BY <2>1, OtherRuns DEF IInv, RunInv
<1> USE DEF Final, Statuses, Kinds, Events, Verdicts, Codes, CodeOf, None, state, details, worker,
   threads, history
<1>3. TypeOK'
  BY <1>1 DEF TypeOK, ApproveTooLate, End, Move
<1>4. AnswerInv(r)'
  BY <1>1 DEF TypeOK, ApproveTooLate, End, Move, AnswerInv, ClickInv
<1>5. ClickInv(r)'
  BY <1>1 DEF TypeOK, ApproveTooLate, End, Move, ClickInv
<1>6. CreditInv(r)'
  BY <1>1 DEF TypeOK, ApproveTooLate, End, Move, ClickInv, CreditInv
<1> QED BY <1>2, <1>3, <1>4, <1>5, <1>6 DEF IInv, RunInv

LEMMA DeclineInv ==
    ASSUME IInv, NEW r \in Runs, Decline(r)
    PROVE  IInv'
<1>1. TypeOK /\ AnswerInv(r) /\ ClickInv(r) /\ CreditInv(r)
  BY DEF IInv, RunInv
<1>2. ASSUME NEW q \in Runs, q # r
      PROVE  AnswerInv(q)' /\ ClickInv(q)' /\ CreditInv(q)'
  <2>1. Unmoved(q)
    BY <1>1, <1>2 DEF Unmoved, TypeOK, Decline, End, Move, CallOff, state, details, worker,
       threads, history
  <2> QED BY <2>1, OtherRuns DEF IInv, RunInv
<1> USE DEF Final, Statuses, Kinds, Events, Verdicts, Codes, CodeOf, None, state, details, worker,
   threads, history
<1>3. TypeOK'
  BY <1>1 DEF TypeOK, Decline, End, Move, CallOff
<1>4. AnswerInv(r)'
  BY <1>1 DEF TypeOK, Decline, End, Move, CallOff, AnswerInv, ClickInv
<1>5. ClickInv(r)'
  BY <1>1 DEF TypeOK, Decline, End, Move, CallOff, ClickInv
<1>6. CreditInv(r)'
  BY <1>1 DEF TypeOK, Decline, End, Move, CallOff, ClickInv, CreditInv
<1> QED BY <1>2, <1>3, <1>4, <1>5, <1>6 DEF IInv, RunInv

LEMMA SwitchInv ==
    ASSUME IInv, NEW r \in Runs, Switch(r)
    PROVE  IInv'
<1>1. TypeOK /\ AnswerInv(r) /\ ClickInv(r) /\ CreditInv(r)
  BY DEF IInv, RunInv
<1>2. ASSUME NEW q \in Runs, q # r
      PROVE  AnswerInv(q)' /\ ClickInv(q)' /\ CreditInv(q)'
  <2>1. Unmoved(q)
    BY <1>1, <1>2 DEF Unmoved, TypeOK, Switch, Switchable, End, Move, CallOff, state, details,
       worker, threads, history
  <2> QED BY <2>1, OtherRuns DEF IInv, RunInv
<1> USE DEF Final, Statuses, Kinds, Events, Verdicts, Codes, CodeOf, None, state, details, worker,
   threads, history
<1>3. TypeOK'
  BY <1>1 DEF TypeOK, Switch, Switchable, End, Move, CallOff
<1>4. AnswerInv(r)'
  BY <1>1 DEF TypeOK, Switch, Switchable, End, Move, CallOff, AnswerInv, ClickInv
<1>5. ClickInv(r)'
  BY <1>1 DEF TypeOK, Switch, Switchable, End, Move, CallOff, ClickInv
<1>6. CreditInv(r)'
  BY <1>1 DEF TypeOK, Switch, Switchable, End, Move, CallOff, ClickInv, CreditInv
<1> QED BY <1>2, <1>3, <1>4, <1>5, <1>6 DEF IInv, RunInv

-----------------------------------------------------------------------------
(* The worker's main loop.                                                  *)

LEMMA HandleRunInv ==
    ASSUME IInv, NEW r \in Runs, HandleRun(r)
    PROVE  IInv'
<1>1. TypeOK /\ AnswerInv(r) /\ ClickInv(r) /\ CreditInv(r)
  BY DEF IInv, RunInv
<1>2. ASSUME NEW q \in Runs, q # r
      PROVE  AnswerInv(q)' /\ ClickInv(q)' /\ CreditInv(q)'
  <2>1. Unmoved(q)
    BY <1>1, <1>2 DEF Unmoved, TypeOK, HandleRun, Take, Spawn, Driven, state, details, worker,
       threads, history
  <2> QED BY <2>1, OtherRuns DEF IInv, RunInv
<1> USE DEF Final, Statuses, Kinds, Events, Verdicts, Codes, CodeOf, None, state, details, worker,
   threads, history
<1>3. TypeOK'
  <2>1. last' \in SUBSET Events /\ Cardinality(last') <= 1 /\ queue' \subseteq Events
    BY <1>1, OneEvent DEF TypeOK, HandleRun, Take, Spawn, Driven
  <2>2. thread' = thread \/ thread' = [thread EXCEPT ![r] = "queued"]
    BY DEF HandleRun, Take, Spawn, Driven
  <2>3. replay' = replay \/ \E b \in BOOLEAN : replay' = [replay EXCEPT ![r] = b]
    BY DEF HandleRun, Take, Spawn, Driven
  <2>4. /\ UNCHANGED <<status, code, mode, proposal, confirming, heartbeat, aged, ledger, form, verdict>>
        /\ UNCHANGED <<yes, clicks, misfits, accidents, refused, crashes>>
    BY DEF HandleRun, Take, Spawn, Driven
  <2> QED BY <1>1, <2>1, <2>2, <2>3, <2>4 DEF TypeOK
<1>4. AnswerInv(r)'
  BY <1>1 DEF TypeOK, HandleRun, Take, Spawn, Driven, AnswerInv, ClickInv
<1>5. ClickInv(r)'
  BY <1>1 DEF TypeOK, HandleRun, Take, Spawn, Driven, ClickInv
<1>6. CreditInv(r)'
  BY <1>1 DEF TypeOK, HandleRun, Take, Spawn, Driven, ClickInv, CreditInv
<1> QED BY <1>2, <1>3, <1>4, <1>5, <1>6 DEF IInv, RunInv

LEMMA DecisionMootInv ==
    ASSUME IInv, NEW r \in Runs, DecisionMoot(r)
    PROVE  IInv'
<1>1. TypeOK /\ AnswerInv(r) /\ ClickInv(r) /\ CreditInv(r)
  BY DEF IInv, RunInv
<1>2. ASSUME NEW q \in Runs, q # r
      PROVE  AnswerInv(q)' /\ ClickInv(q)' /\ CreditInv(q)'
  <2>1. Unmoved(q)
    BY <1>1, <1>2 DEF Unmoved, TypeOK, DecisionMoot, Take, Resumable, Driven, state, details,
       worker, threads, history
  <2> QED BY <2>1, OtherRuns DEF IInv, RunInv
<1> USE DEF Final, Statuses, Kinds, Events, Verdicts, Codes, CodeOf, None, state, details, worker,
   threads, history
<1>3. TypeOK'
  <2>1. last' \in SUBSET Events /\ Cardinality(last') <= 1 /\ queue' \subseteq Events
    BY <1>1, OneEvent DEF TypeOK, DecisionMoot, Take, Resumable, Driven
  <2> QED BY <1>1, <2>1 DEF TypeOK, DecisionMoot, Take, Resumable, Driven
<1>4. AnswerInv(r)'
  BY <1>1 DEF TypeOK, DecisionMoot, Take, Resumable, Driven, AnswerInv, ClickInv
<1>5. ClickInv(r)'
  BY <1>1 DEF TypeOK, DecisionMoot, Take, Resumable, Driven, ClickInv
<1>6. CreditInv(r)'
  BY <1>1 DEF TypeOK, DecisionMoot, Take, Resumable, Driven, ClickInv, CreditInv
<1> QED BY <1>2, <1>3, <1>4, <1>5, <1>6 DEF IInv, RunInv

LEMMA DecisionReplaysInv ==
    ASSUME IInv, NEW r \in Runs, DecisionReplays(r)
    PROVE  IInv'
<1>1. TypeOK /\ AnswerInv(r) /\ ClickInv(r) /\ CreditInv(r)
  BY DEF IInv, RunInv
<1>2. ASSUME NEW q \in Runs, q # r
      PROVE  AnswerInv(q)' /\ ClickInv(q)' /\ CreditInv(q)'
  <2>1. Unmoved(q)
    BY <1>1, <1>2 DEF Unmoved, TypeOK, DecisionReplays, Take, Resumable, Spawn, Driven, state,
       details, worker, threads, history
  <2> QED BY <2>1, OtherRuns DEF IInv, RunInv
<1> USE DEF Final, Statuses, Kinds, Events, Verdicts, Codes, CodeOf, None, state, details, worker,
   threads, history
<1>3. TypeOK'
  <2>1. last' \in SUBSET Events /\ Cardinality(last') <= 1 /\ queue' \subseteq Events
    BY <1>1, OneEvent DEF TypeOK, DecisionReplays, Take, Resumable, Spawn, Driven
  <2>2. thread' = thread \/ thread' = [thread EXCEPT ![r] = "queued"]
    BY DEF DecisionReplays, Take, Resumable, Spawn, Driven
  <2>3. replay' = replay \/ \E b \in BOOLEAN : replay' = [replay EXCEPT ![r] = b]
    BY DEF DecisionReplays, Take, Resumable, Spawn, Driven
  <2>4. /\ UNCHANGED <<status, code, mode, proposal, confirming, heartbeat, aged, ledger, form, verdict>>
        /\ UNCHANGED <<yes, clicks, misfits, accidents, refused, crashes>>
    BY DEF DecisionReplays, Take, Resumable, Spawn, Driven
  <2> QED BY <1>1, <2>1, <2>2, <2>3, <2>4 DEF TypeOK
<1>4. AnswerInv(r)'
  BY <1>1 DEF TypeOK, DecisionReplays, Take, Resumable, Spawn, Driven, AnswerInv, ClickInv
<1>5. ClickInv(r)'
  BY <1>1 DEF TypeOK, DecisionReplays, Take, Resumable, Spawn, Driven, ClickInv
<1>6. CreditInv(r)'
  BY <1>1 DEF TypeOK, DecisionReplays, Take, Resumable, Spawn, Driven, ClickInv, CreditInv
<1> QED BY <1>2, <1>3, <1>4, <1>5, <1>6 DEF IInv, RunInv

LEMMA DecisionGivesUpInv ==
    ASSUME IInv, NEW r \in Runs, DecisionGivesUp(r)
    PROVE  IInv'
<1>1. TypeOK /\ AnswerInv(r) /\ ClickInv(r) /\ CreditInv(r)
  BY DEF IInv, RunInv
<1>2. ASSUME NEW q \in Runs, q # r
      PROVE  AnswerInv(q)' /\ ClickInv(q)' /\ CreditInv(q)'
  <2>1. Unmoved(q)
    BY <1>1, <1>2 DEF Unmoved, TypeOK, DecisionGivesUp, Take, Resumable, End, Move, Driven, state,
       details, worker, threads, history
  <2> QED BY <2>1, OtherRuns DEF IInv, RunInv
<1> USE DEF Final, Statuses, Kinds, Events, Verdicts, Codes, CodeOf, None, state, details, worker,
   threads, history
<1>3. TypeOK'
  <2>1. last' \in SUBSET Events /\ Cardinality(last') <= 1 /\ queue' \subseteq Events
    BY <1>1, OneEvent DEF TypeOK, DecisionGivesUp, Take, Resumable, End, Move, Driven
  <2> QED BY <1>1, <2>1 DEF TypeOK, DecisionGivesUp, Take, Resumable, End, Move, Driven
<1>4. AnswerInv(r)'
  BY <1>1 DEF TypeOK, DecisionGivesUp, Take, Resumable, End, Move, Driven, AnswerInv, ClickInv
<1>5. ClickInv(r)'
  BY <1>1 DEF TypeOK, DecisionGivesUp, Take, Resumable, End, Move, Driven, ClickInv
<1>6. CreditInv(r)'
  BY <1>1 DEF TypeOK, DecisionGivesUp, Take, Resumable, End, Move, Driven, ClickInv, CreditInv
<1> QED BY <1>2, <1>3, <1>4, <1>5, <1>6 DEF IInv, RunInv

LEMMA SweepLostInv ==
    ASSUME IInv, NEW r \in Runs, SweepLost(r)
    PROVE  IInv'
<1>1. TypeOK /\ AnswerInv(r) /\ ClickInv(r) /\ CreditInv(r)
  BY DEF IInv, RunInv
<1>2. ASSUME NEW q \in Runs, q # r
      PROVE  AnswerInv(q)' /\ ClickInv(q)' /\ CreditInv(q)'
  <2>1. Unmoved(q)
    BY <1>1, <1>2 DEF Unmoved, TypeOK, SweepLost, Lost, End, Move, Driven, state, details, worker,
       threads, history
  <2> QED BY <2>1, OtherRuns DEF IInv, RunInv
<1> USE DEF Final, Statuses, Kinds, Events, Verdicts, Codes, CodeOf, None, state, details, worker,
   threads, history
<1>3. TypeOK'
  BY <1>1 DEF TypeOK, SweepLost, Lost, End, Move, Driven
<1>4. AnswerInv(r)'
  BY <1>1 DEF TypeOK, SweepLost, Lost, End, Move, Driven, AnswerInv, ClickInv
<1>5. ClickInv(r)'
  BY <1>1 DEF TypeOK, SweepLost, Lost, End, Move, Driven, ClickInv
<1>6. CreditInv(r)'
  BY <1>1 DEF TypeOK, SweepLost, Lost, End, Move, Driven, ClickInv, CreditInv
<1> QED BY <1>2, <1>3, <1>4, <1>5, <1>6 DEF IInv, RunInv

LEMMA SweepApprovedInv ==
    ASSUME IInv, NEW r \in Runs, SweepApproved(r)
    PROVE  IInv'
<1>1. TypeOK /\ AnswerInv(r) /\ ClickInv(r) /\ CreditInv(r)
  BY DEF IInv, RunInv
<1>2. ASSUME NEW q \in Runs, q # r
      PROVE  AnswerInv(q)' /\ ClickInv(q)' /\ CreditInv(q)'
  <2>1. Unmoved(q)
    BY <1>1, <1>2 DEF Unmoved, TypeOK, SweepApproved, Resumable, Driven, state, details, worker,
       threads, history
  <2> QED BY <2>1, OtherRuns DEF IInv, RunInv
<1> USE DEF Final, Statuses, Kinds, Events, Verdicts, Codes, CodeOf, None, state, details, worker,
   threads, history
<1>3. TypeOK'
  BY <1>1 DEF TypeOK, SweepApproved, Resumable, Driven
<1>4. AnswerInv(r)'
  BY <1>1 DEF TypeOK, SweepApproved, Resumable, Driven, AnswerInv, ClickInv
<1>5. ClickInv(r)'
  BY <1>1 DEF TypeOK, SweepApproved, Resumable, Driven, ClickInv
<1>6. CreditInv(r)'
  BY <1>1 DEF TypeOK, SweepApproved, Resumable, Driven, ClickInv, CreditInv
<1> QED BY <1>2, <1>3, <1>4, <1>5, <1>6 DEF IInv, RunInv

-----------------------------------------------------------------------------
(* The thread.                                                              *)

LEMMA StartInv ==
    ASSUME IInv, NEW r \in Runs, Start(r)
    PROVE  IInv'
<1>1. TypeOK /\ AnswerInv(r) /\ ClickInv(r) /\ CreditInv(r)
  BY DEF IInv, RunInv
<1>2. ASSUME NEW q \in Runs, q # r
      PROVE  AnswerInv(q)' /\ ClickInv(q)' /\ CreditInv(q)'
  <2>1. Unmoved(q)
    BY <1>1, <1>2 DEF Unmoved, TypeOK, Start, StartsFrom, Move, Goto, state, details, worker,
       threads, history
  <2> QED BY <2>1, OtherRuns DEF IInv, RunInv
<1> USE DEF Final, Statuses, Kinds, Events, Verdicts, Codes, CodeOf, None, state, details, worker,
   threads, history
<1>3. TypeOK'
  BY <1>1 DEF TypeOK, Start, StartsFrom, Move, Goto
<1>4. AnswerInv(r)'
  BY <1>1 DEF TypeOK, Start, StartsFrom, Move, Goto, AnswerInv, ClickInv
<1>5. ClickInv(r)'
  BY <1>1 DEF TypeOK, Start, StartsFrom, Move, Goto, ClickInv
<1>6. CreditInv(r)'
  BY <1>1 DEF TypeOK, Start, StartsFrom, Move, Goto, ClickInv, CreditInv
<1> QED BY <1>2, <1>3, <1>4, <1>5, <1>6 DEF IInv, RunInv

LEMMA StartMootInv ==
    ASSUME IInv, NEW r \in Runs, StartMoot(r)
    PROVE  IInv'
<1>1. TypeOK /\ AnswerInv(r) /\ ClickInv(r) /\ CreditInv(r)
  BY DEF IInv, RunInv
<1>2. ASSUME NEW q \in Runs, q # r
      PROVE  AnswerInv(q)' /\ ClickInv(q)' /\ CreditInv(q)'
  <2>1. Unmoved(q)
    BY <1>1, <1>2 DEF Unmoved, TypeOK, StartMoot, StartsFrom, Goto, state, details, worker,
       threads, history
  <2> QED BY <2>1, OtherRuns DEF IInv, RunInv
<1> USE DEF Final, Statuses, Kinds, Events, Verdicts, Codes, CodeOf, None, state, details, worker,
   threads, history
<1>3. TypeOK'
  BY <1>1 DEF TypeOK, StartMoot, StartsFrom, Goto
<1>4. AnswerInv(r)'
  BY <1>1 DEF TypeOK, StartMoot, StartsFrom, Goto, AnswerInv, ClickInv
<1>5. ClickInv(r)'
  BY <1>1 DEF TypeOK, StartMoot, StartsFrom, Goto, ClickInv
<1>6. CreditInv(r)'
  BY <1>1 DEF TypeOK, StartMoot, StartsFrom, Goto, ClickInv, CreditInv
<1> QED BY <1>2, <1>3, <1>4, <1>5, <1>6 DEF IInv, RunInv

LEMMA PrepareFailsInv ==
    ASSUME IInv, NEW r \in Runs, PrepareFails(r)
    PROVE  IInv'
<1>1. TypeOK /\ AnswerInv(r) /\ ClickInv(r) /\ CreditInv(r)
  BY DEF IInv, RunInv
<1>2. ASSUME NEW q \in Runs, q # r
      PROVE  AnswerInv(q)' /\ ClickInv(q)' /\ CreditInv(q)'
  <2>1. Unmoved(q)
    BY <1>1, <1>2 DEF Unmoved, TypeOK, PrepareFails, Conclude, Goto, state, details, worker,
       threads, history
  <2> QED BY <2>1, OtherRuns DEF IInv, RunInv
<1> USE DEF Final, Statuses, Kinds, Events, Verdicts, Codes, CodeOf, None, state, details, worker,
   threads, history
<1>3. TypeOK'
  BY <1>1 DEF TypeOK, PrepareFails, Conclude, Goto
<1>4. AnswerInv(r)'
  BY <1>1 DEF TypeOK, PrepareFails, Conclude, Goto, AnswerInv, ClickInv
<1>5. ClickInv(r)'
  BY <1>1 DEF TypeOK, PrepareFails, Conclude, Goto, ClickInv
<1>6. CreditInv(r)'
  BY <1>1 DEF TypeOK, PrepareFails, Conclude, Goto, ClickInv, CreditInv
<1> QED BY <1>2, <1>3, <1>4, <1>5, <1>6 DEF IInv, RunInv

LEMMA AccidentInv ==
    ASSUME IInv, NEW r \in Runs, Accident(r)
    PROVE  IInv'
<1>1. TypeOK /\ AnswerInv(r) /\ ClickInv(r) /\ CreditInv(r)
  BY DEF IInv, RunInv
<1>2. ASSUME NEW q \in Runs, q # r
      PROVE  AnswerInv(q)' /\ ClickInv(q)' /\ CreditInv(q)'
  <2>1. Unmoved(q)
    BY <1>1, <1>2 DEF Unmoved, TypeOK, Accident, Conclude, Goto, state, details, worker, threads,
       history
  <2> QED BY <2>1, OtherRuns DEF IInv, RunInv
<1> USE DEF Final, Statuses, Kinds, Events, Verdicts, Codes, CodeOf, None, state, details, worker,
   threads, history
<1>3. TypeOK'
  BY <1>1 DEF TypeOK, Accident, Conclude, Goto
<1>4. AnswerInv(r)'
  BY <1>1 DEF TypeOK, Accident, Conclude, Goto, AnswerInv, ClickInv
<1>5. ClickInv(r)'
  BY <1>1 DEF TypeOK, Accident, Conclude, Goto, ClickInv
<1>6. CreditInv(r)'
  BY <1>1 DEF TypeOK, Accident, Conclude, Goto, ClickInv, CreditInv
<1> QED BY <1>2, <1>3, <1>4, <1>5, <1>6 DEF IInv, RunInv

LEMMA ReconfirmInv ==
    ASSUME IInv, NEW r \in Runs, Reconfirm(r)
    PROVE  IInv'
<1>1. TypeOK /\ AnswerInv(r) /\ ClickInv(r) /\ CreditInv(r)
  BY DEF IInv, RunInv
<1>2. ASSUME NEW q \in Runs, q # r
      PROVE  AnswerInv(q)' /\ ClickInv(q)' /\ CreditInv(q)'
  <2>1. Unmoved(q)
    BY <1>1, <1>2 DEF Unmoved, TypeOK, Reconfirm, SameOffer, Goto, state, details, worker, threads,
       history
  <2> QED BY <2>1, OtherRuns DEF IInv, RunInv
<1> USE DEF Final, Statuses, Kinds, Events, Verdicts, Codes, CodeOf, None, state, details, worker,
   threads, history
<1>3. TypeOK'
  BY <1>1 DEF TypeOK, Reconfirm, SameOffer, Goto
<1>4. AnswerInv(r)'
  BY <1>1 DEF TypeOK, Reconfirm, SameOffer, Goto, AnswerInv, ClickInv
<1>5. ClickInv(r)'
  BY <1>1 DEF TypeOK, Reconfirm, SameOffer, Goto, ClickInv
<1>6. CreditInv(r)'
  BY <1>1 DEF TypeOK, Reconfirm, SameOffer, Goto, ClickInv, CreditInv
<1> QED BY <1>2, <1>3, <1>4, <1>5, <1>6 DEF IInv, RunInv

LEMMA AskUserInv ==
    ASSUME IInv, NEW r \in Runs, AskUser(r)
    PROVE  IInv'
<1>1. TypeOK /\ AnswerInv(r) /\ ClickInv(r) /\ CreditInv(r)
  BY DEF IInv, RunInv
<1>2. ASSUME NEW q \in Runs, q # r
      PROVE  AnswerInv(q)' /\ ClickInv(q)' /\ CreditInv(q)'
  <2>1. Unmoved(q)
    BY <1>1, <1>2 DEF Unmoved, TypeOK, AskUser, SameOffer, Move, Goto, state, details, worker,
       threads, history
  <2> QED BY <2>1, OtherRuns DEF IInv, RunInv
<1> USE DEF Final, Statuses, Kinds, Events, Verdicts, Codes, CodeOf, None, state, details, worker,
   threads, history
<1>3. TypeOK'
  BY <1>1 DEF TypeOK, AskUser, SameOffer, Move, Goto
<1>4. AnswerInv(r)'
  BY <1>1 DEF TypeOK, AskUser, SameOffer, Move, Goto, AnswerInv, ClickInv
<1>5. ClickInv(r)'
  BY <1>1 DEF TypeOK, AskUser, SameOffer, Move, Goto, ClickInv
<1>6. CreditInv(r)'
  BY <1>1 DEF TypeOK, AskUser, SameOffer, Move, Goto, ClickInv, CreditInv
<1> QED BY <1>2, <1>3, <1>4, <1>5, <1>6 DEF IInv, RunInv

LEMMA SeeAnswerInv ==
    ASSUME IInv, NEW r \in Runs, SeeAnswer(r)
    PROVE  IInv'
<1>1. TypeOK /\ AnswerInv(r) /\ ClickInv(r) /\ CreditInv(r)
  BY DEF IInv, RunInv
<1>2. ASSUME NEW q \in Runs, q # r
      PROVE  AnswerInv(q)' /\ ClickInv(q)' /\ CreditInv(q)'
  <2>1. Unmoved(q)
    BY <1>1, <1>2 DEF Unmoved, TypeOK, SeeAnswer, Goto, state, details, worker, threads, history
  <2> QED BY <2>1, OtherRuns DEF IInv, RunInv
<1> USE DEF Final, Statuses, Kinds, Events, Verdicts, Codes, CodeOf, None, state, details, worker,
   threads, history
<1>3. TypeOK'
  BY <1>1 DEF TypeOK, SeeAnswer, Goto
<1>4. AnswerInv(r)'
  BY <1>1 DEF TypeOK, SeeAnswer, Goto, AnswerInv, ClickInv
<1>5. ClickInv(r)'
  BY <1>1 DEF TypeOK, SeeAnswer, Goto, ClickInv
<1>6. CreditInv(r)'
  BY <1>1 DEF TypeOK, SeeAnswer, Goto, ClickInv, CreditInv
<1> QED BY <1>2, <1>3, <1>4, <1>5, <1>6 DEF IInv, RunInv

LEMMA LetGoInv ==
    ASSUME IInv, NEW r \in Runs, LetGo(r)
    PROVE  IInv'
<1>1. TypeOK /\ AnswerInv(r) /\ ClickInv(r) /\ CreditInv(r)
  BY DEF IInv, RunInv
<1>2. ASSUME NEW q \in Runs, q # r
      PROVE  AnswerInv(q)' /\ ClickInv(q)' /\ CreditInv(q)'
  <2>1. Unmoved(q)
    BY <1>1, <1>2 DEF Unmoved, TypeOK, LetGo, Goto, state, details, worker, threads, history
  <2> QED BY <2>1, OtherRuns DEF IInv, RunInv
<1> USE DEF Final, Statuses, Kinds, Events, Verdicts, Codes, CodeOf, None, state, details, worker,
   threads, history
<1>3. TypeOK'
  BY <1>1 DEF TypeOK, LetGo, Goto
<1>4. AnswerInv(r)'
  BY <1>1 DEF TypeOK, LetGo, Goto, AnswerInv, ClickInv
<1>5. ClickInv(r)'
  BY <1>1 DEF TypeOK, LetGo, Goto, ClickInv
<1>6. CreditInv(r)'
  BY <1>1 DEF TypeOK, LetGo, Goto, ClickInv, CreditInv
<1> QED BY <1>2, <1>3, <1>4, <1>5, <1>6 DEF IInv, RunInv

LEMMA TakeYesInv ==
    ASSUME IInv, NEW r \in Runs, TakeYes(r)
    PROVE  IInv'
<1>1. TypeOK /\ AnswerInv(r) /\ ClickInv(r) /\ CreditInv(r)
  BY DEF IInv, RunInv
<1>2. ASSUME NEW q \in Runs, q # r
      PROVE  AnswerInv(q)' /\ ClickInv(q)' /\ CreditInv(q)'
  <2>1. Unmoved(q)
    BY <1>1, <1>2 DEF Unmoved, TypeOK, TakeYes, Move, Goto, state, details, worker, threads, history
  <2> QED BY <2>1, OtherRuns DEF IInv, RunInv
<1> USE DEF Final, Statuses, Kinds, Events, Verdicts, Codes, CodeOf, None, state, details, worker,
   threads, history
<1>3. TypeOK'
  <2>1. status' = status \/ status' = [status EXCEPT ![r] = "running"]
    BY DEF TakeYes, Move, Goto
  <2>2. aged' = aged \/ aged' = [aged EXCEPT ![r] = FALSE]
    BY DEF TakeYes, Move, Goto
  <2>3. thread' = [thread EXCEPT ![r] = "taken"] \/ thread' = [thread EXCEPT ![r] = "ending"]
    BY DEF TakeYes, Move, Goto
  <2>4. /\ UNCHANGED <<code, mode, proposal, confirming, heartbeat, ledger, queue, last, replay>>
        /\ UNCHANGED <<form, verdict, yes, clicks, misfits, accidents, refused, crashes>>
    BY DEF TakeYes, Move, Goto
  <2>5. status' \in [Runs -> Statuses]
    BY <1>1, <2>1 DEF TypeOK
  <2>6. aged' \in [Runs -> BOOLEAN]
    <3>1. CASE aged' = aged
      BY <1>1, <3>1 DEF TypeOK
    <3>2. CASE aged' = [aged EXCEPT ![r] = FALSE]
      BY <1>1, <3>2 DEF TypeOK
    <3> QED BY <2>2, <3>1, <3>2
  <2>7. thread' \in [Runs -> {None, "queued", "preparing", "waiting", "taking", "taken", "marked", "clear",
                            "clicked", "writing", "ending"}]
    BY <1>1, <2>3 DEF TypeOK
  <2> QED BY <1>1, <2>4, <2>5, <2>6, <2>7 DEF TypeOK
<1>4. AnswerInv(r)'
  BY <1>1 DEF TypeOK, TakeYes, Move, Goto, AnswerInv, ClickInv
<1>5. ClickInv(r)'
  BY <1>1 DEF TypeOK, TakeYes, Move, Goto, ClickInv
<1>6. CreditInv(r)'
  BY <1>1 DEF TypeOK, TakeYes, Move, Goto, ClickInv, CreditInv
<1> QED BY <1>2, <1>3, <1>4, <1>5, <1>6 DEF IInv, RunInv

LEMMA MarkInv ==
    ASSUME IInv, NEW r \in Runs, Mark(r)
    PROVE  IInv'
<1>1. TypeOK /\ AnswerInv(r) /\ ClickInv(r) /\ CreditInv(r)
  BY DEF IInv, RunInv
<1>2. ASSUME NEW q \in Runs, q # r
      PROVE  AnswerInv(q)' /\ ClickInv(q)' /\ CreditInv(q)'
  <2>1. Unmoved(q)
    BY <1>1, <1>2 DEF Unmoved, TypeOK, Mark, Goto, state, details, worker, threads, history
  <2> QED BY <2>1, OtherRuns DEF IInv, RunInv
<1> USE DEF Final, Statuses, Kinds, Events, Verdicts, Codes, CodeOf, None, state, details, worker,
   threads, history
<1>3. TypeOK'
  BY <1>1 DEF TypeOK, Mark, Goto
<1>4. AnswerInv(r)'
  BY <1>1 DEF TypeOK, Mark, Goto, AnswerInv, ClickInv
<1>5. ClickInv(r)'
  BY <1>1 DEF TypeOK, Mark, Goto, ClickInv
<1>6. CreditInv(r)'
  BY <1>1 DEF TypeOK, Mark, Goto, ClickInv, CreditInv
<1> QED BY <1>2, <1>3, <1>4, <1>5, <1>6 DEF IInv, RunInv

LEMMA CheckCancelledInv ==
    ASSUME IInv, NEW r \in Runs, CheckCancelled(r)
    PROVE  IInv'
<1>1. TypeOK /\ AnswerInv(r) /\ ClickInv(r) /\ CreditInv(r)
  BY DEF IInv, RunInv
<1>2. ASSUME NEW q \in Runs, q # r
      PROVE  AnswerInv(q)' /\ ClickInv(q)' /\ CreditInv(q)'
  <2>1. Unmoved(q)
    BY <1>1, <1>2 DEF Unmoved, TypeOK, CheckCancelled, Goto, state, details, worker, threads, history
  <2> QED BY <2>1, OtherRuns DEF IInv, RunInv
<1> USE DEF Final, Statuses, Kinds, Events, Verdicts, Codes, CodeOf, None, state, details, worker,
   threads, history
<1>3. TypeOK'
  BY <1>1 DEF TypeOK, CheckCancelled, Goto
<1>4. AnswerInv(r)'
  BY <1>1 DEF TypeOK, CheckCancelled, Goto, AnswerInv, ClickInv
<1>5. ClickInv(r)'
  BY <1>1 DEF TypeOK, CheckCancelled, Goto, ClickInv
<1>6. CreditInv(r)'
  BY <1>1 DEF TypeOK, CheckCancelled, Goto, ClickInv, CreditInv
<1> QED BY <1>2, <1>3, <1>4, <1>5, <1>6 DEF IInv, RunInv

LEMMA ConfirmMissesInv ==
    ASSUME IInv, NEW r \in Runs, ConfirmMisses(r)
    PROVE  IInv'
<1>1. TypeOK /\ AnswerInv(r) /\ ClickInv(r) /\ CreditInv(r)
  BY DEF IInv, RunInv
<1>2. ASSUME NEW q \in Runs, q # r
      PROVE  AnswerInv(q)' /\ ClickInv(q)' /\ CreditInv(q)'
  <2>1. Unmoved(q)
    BY <1>1, <1>2 DEF Unmoved, TypeOK, ConfirmMisses, Conclude, Goto, state, details, worker,
       threads, history
  <2> QED BY <2>1, OtherRuns DEF IInv, RunInv
<1> USE DEF Final, Statuses, Kinds, Events, Verdicts, Codes, CodeOf, None, state, details, worker,
   threads, history
<1>3. TypeOK'
  BY <1>1 DEF TypeOK, ConfirmMisses, Conclude, Goto
<1>4. AnswerInv(r)'
  BY <1>1 DEF TypeOK, ConfirmMisses, Conclude, Goto, AnswerInv, ClickInv
<1>5. ClickInv(r)'
  BY <1>1 DEF TypeOK, ConfirmMisses, Conclude, Goto, ClickInv
<1>6. CreditInv(r)'
  BY <1>1 DEF TypeOK, ConfirmMisses, Conclude, Goto, ClickInv, CreditInv
<1> QED BY <1>2, <1>3, <1>4, <1>5, <1>6 DEF IInv, RunInv

LEMMA ClickInvStep ==
    ASSUME IInv, NEW r \in Runs, Click(r)
    PROVE  IInv'
<1>1. TypeOK /\ AnswerInv(r) /\ ClickInv(r) /\ CreditInv(r)
  BY DEF IInv, RunInv
<1>2. ASSUME NEW q \in Runs, q # r
      PROVE  AnswerInv(q)' /\ ClickInv(q)' /\ CreditInv(q)'
  <2>1. Unmoved(q)
    BY <1>1, <1>2 DEF Unmoved, TypeOK, Click, Goto, state, details, worker, threads, history
  <2> QED BY <2>1, OtherRuns DEF IInv, RunInv
<1> USE DEF Final, Statuses, Kinds, Events, Verdicts, Codes, CodeOf, None, state, details, worker,
   threads, history
<1>3. TypeOK'
  BY <1>1 DEF TypeOK, Click, Goto
<1>4. AnswerInv(r)'
  BY <1>1 DEF TypeOK, Click, Goto, AnswerInv, ClickInv
<1>5. ClickInv(r)'
  BY <1>1 DEF TypeOK, Click, Goto, ClickInv
<1>6. CreditInv(r)'
  BY <1>1 DEF TypeOK, Click, Goto, ClickInv, CreditInv
<1> QED BY <1>2, <1>3, <1>4, <1>5, <1>6 DEF IInv, RunInv

LEMMA AfterClickInv ==
    ASSUME IInv, NEW r \in Runs, AfterClick(r)
    PROVE  IInv'
<1>1. TypeOK /\ AnswerInv(r) /\ ClickInv(r) /\ CreditInv(r)
  BY DEF IInv, RunInv
<1>2. ASSUME NEW q \in Runs, q # r
      PROVE  AnswerInv(q)' /\ ClickInv(q)' /\ CreditInv(q)'
  <2>1. Unmoved(q)
    BY <1>1, <1>2 DEF Unmoved, TypeOK, AfterClick, EndsAfterClick, Conclude, Goto, state, details,
       worker, threads, history
  <2> QED BY <2>1, OtherRuns DEF IInv, RunInv
<1> USE DEF Final, Statuses, Kinds, Events, Verdicts, Codes, CodeOf, None, state, details, worker,
   threads, history
<1>3. TypeOK'
  BY <1>1 DEF TypeOK, AfterClick, EndsAfterClick, Conclude, Goto
<1>4. AnswerInv(r)'
  BY <1>1 DEF TypeOK, AfterClick, EndsAfterClick, Conclude, Goto, AnswerInv, ClickInv
<1>5. ClickInv(r)'
  BY <1>1 DEF TypeOK, AfterClick, EndsAfterClick, Conclude, Goto, ClickInv
<1>6. CreditInv(r)'
  BY <1>1 DEF TypeOK, AfterClick, EndsAfterClick, Conclude, Goto, ClickInv, CreditInv
<1> QED BY <1>2, <1>3, <1>4, <1>5, <1>6 DEF IInv, RunInv

LEMMA SettleInv ==
    ASSUME IInv, NEW r \in Runs, Settle(r)
    PROVE  IInv'
<1>1. TypeOK /\ AnswerInv(r) /\ ClickInv(r) /\ CreditInv(r)
  BY DEF IInv, RunInv
<1>2. ASSUME NEW q \in Runs, q # r
      PROVE  AnswerInv(q)' /\ ClickInv(q)' /\ CreditInv(q)'
  <2>1. Unmoved(q)
    BY <1>1, <1>2 DEF Unmoved, TypeOK, Settle, End, Move, StatusOf, Spent, Goto, state, details,
       worker, threads, history
  <2> QED BY <2>1, OtherRuns DEF IInv, RunInv
<1> USE DEF Final, Statuses, Kinds, Events, Verdicts, Codes, CodeOf, None, state, details, worker,
   threads, history
<1>3. TypeOK'
  BY <1>1 DEF TypeOK, Settle, End, Move, StatusOf, Spent, Goto
<1>4. AnswerInv(r)'
  BY <1>1 DEF TypeOK, Settle, End, Move, StatusOf, Spent, Goto, AnswerInv, ClickInv
<1>5. ClickInv(r)'
  BY <1>1 DEF TypeOK, Settle, End, Move, StatusOf, Spent, Goto, ClickInv
<1>6. CreditInv(r)'
  BY <1>1 DEF TypeOK, Settle, End, Move, StatusOf, Spent, Goto, ClickInv, CreditInv
<1> QED BY <1>2, <1>3, <1>4, <1>5, <1>6 DEF IInv, RunInv

LEMMA LeaveInv ==
    ASSUME IInv, NEW r \in Runs, Leave(r)
    PROVE  IInv'
<1>1. TypeOK /\ AnswerInv(r) /\ ClickInv(r) /\ CreditInv(r)
  BY DEF IInv, RunInv
<1>2. ASSUME NEW q \in Runs, q # r
      PROVE  AnswerInv(q)' /\ ClickInv(q)' /\ CreditInv(q)'
  <2>1. Unmoved(q)
    BY <1>1, <1>2 DEF Unmoved, TypeOK, Leave, Goto, state, details, worker, threads, history
  <2> QED BY <2>1, OtherRuns DEF IInv, RunInv
<1> USE DEF Final, Statuses, Kinds, Events, Verdicts, Codes, CodeOf, None, state, details, worker,
   threads, history
<1>3. TypeOK'
  BY <1>1 DEF TypeOK, Leave, Goto
<1>4. AnswerInv(r)'
  BY <1>1 DEF TypeOK, Leave, Goto, AnswerInv, ClickInv
<1>5. ClickInv(r)'
  BY <1>1 DEF TypeOK, Leave, Goto, ClickInv
<1>6. CreditInv(r)'
  BY <1>1 DEF TypeOK, Leave, Goto, ClickInv, CreditInv
<1> QED BY <1>2, <1>3, <1>4, <1>5, <1>6 DEF IInv, RunInv

-----------------------------------------------------------------------------
(* Time.                                                                    *)

LEMMA AgeInv ==
    ASSUME IInv, NEW r \in Runs, Age(r)
    PROVE  IInv'
<1>1. TypeOK /\ AnswerInv(r) /\ ClickInv(r) /\ CreditInv(r)
  BY DEF IInv, RunInv
<1>2. ASSUME NEW q \in Runs, q # r
      PROVE  AnswerInv(q)' /\ ClickInv(q)' /\ CreditInv(q)'
  <2>1. Unmoved(q)
    BY <1>1, <1>2 DEF Unmoved, TypeOK, Age, Driven, state, details, worker, threads, history
  <2> QED BY <2>1, OtherRuns DEF IInv, RunInv
<1> USE DEF Final, Statuses, Kinds, Events, Verdicts, Codes, CodeOf, None, state, details, worker,
   threads, history
<1>3. TypeOK'
  BY <1>1 DEF TypeOK, Age, Driven
<1>4. AnswerInv(r)'
  BY <1>1 DEF TypeOK, Age, Driven, AnswerInv, ClickInv
<1>5. ClickInv(r)'
  BY <1>1 DEF TypeOK, Age, Driven, ClickInv
<1>6. CreditInv(r)'
  BY <1>1 DEF TypeOK, Age, Driven, ClickInv, CreditInv
<1> QED BY <1>2, <1>3, <1>4, <1>5, <1>6 DEF IInv, RunInv

LEMMA HeartbeatExpiresInv ==
    ASSUME IInv, NEW r \in Runs, HeartbeatExpires(r)
    PROVE  IInv'
<1>1. TypeOK /\ AnswerInv(r) /\ ClickInv(r) /\ CreditInv(r)
  BY DEF IInv, RunInv
<1>2. ASSUME NEW q \in Runs, q # r
      PROVE  AnswerInv(q)' /\ ClickInv(q)' /\ CreditInv(q)'
  <2>1. Unmoved(q)
    BY <1>1, <1>2 DEF Unmoved, TypeOK, HeartbeatExpires, state, details, worker, threads, history
  <2> QED BY <2>1, OtherRuns DEF IInv, RunInv
<1> USE DEF Final, Statuses, Kinds, Events, Verdicts, Codes, CodeOf, None, state, details, worker,
   threads, history
<1>3. TypeOK'
  BY <1>1 DEF TypeOK, HeartbeatExpires
<1>4. AnswerInv(r)'
  BY <1>1 DEF TypeOK, HeartbeatExpires, AnswerInv, ClickInv
<1>5. ClickInv(r)'
  BY <1>1 DEF TypeOK, HeartbeatExpires, ClickInv
<1>6. CreditInv(r)'
  BY <1>1 DEF TypeOK, HeartbeatExpires, ClickInv, CreditInv
<1> QED BY <1>2, <1>3, <1>4, <1>5, <1>6 DEF IInv, RunInv

-----------------------------------------------------------------------------
\* A restart ends every thread; what the rows say stays true without them.
LEMMA CrashInv ==
    ASSUME IInv, Crash
    PROVE  IInv'
<1>1. TypeOK /\ RunInv
  BY DEF IInv
<1>2. TypeOK'
  BY <1>1, OneEvent, CrashesAssumption DEF TypeOK, Crash, state, details, None
<1>3. ASSUME NEW r \in Runs
      PROVE  AnswerInv(r)' /\ ClickInv(r)' /\ CreditInv(r)'
  <2>1. AnswerInv(r) /\ ClickInv(r) /\ CreditInv(r)
    BY <1>1 DEF RunInv
  <2>2. AnswerInv(r)'
    BY <2>1 DEF AnswerInv, Crash, state, details, None
  <2>3. ClickInv(r)'
    BY <2>1 DEF ClickInv, Crash, state, details, None
  <2>4. CreditInv(r)'
    BY <2>1 DEF CreditInv, Crash, state, details, None
  <2> QED BY <2>2, <2>3, <2>4
<1> QED BY <1>2, <1>3 DEF IInv, RunInv

LEMMA NextIInv == IInv /\ [Next]_vars => IInv'
<1> SUFFICES ASSUME IInv, [Next]_vars PROVE IInv'
  OBVIOUS
<1>1. CASE UNCHANGED vars
  <2>1. TypeOK /\ RunInv
    BY DEF IInv
  <2>2. \A r \in Runs : Unmoved(r)
    BY <1>1 DEF vars, state, details, worker, threads, history, Unmoved
  <2>3. TypeOK'
    BY <1>1, <2>1 DEF vars, state, details, worker, threads, history, TypeOK
  <2> QED BY <2>1, <2>2, <2>3, OtherRuns DEF IInv, RunInv
<1>2. CASE Crash
  BY <1>2, CrashInv
<1>3. ASSUME NEW r \in Runs, UserStep(r) \/ Clock(r)
      PROVE  IInv'
  BY <1>3, PlanInv, ApproveInv, ApproveTooLateInv, DeclineInv, SwitchInv, AgeInv,
     HeartbeatExpiresInv DEF UserStep, Clock
<1>4. ASSUME NEW r \in Runs, Handle(r) \/ SweepLost(r) \/ SweepApproved(r)
      PROVE  IInv'
  BY <1>4, HandleRunInv, DecisionMootInv, DecisionReplaysInv, DecisionGivesUpInv, SweepLostInv,
     SweepApprovedInv DEF Handle
<1>5. ASSUME NEW r \in Runs, Start(r) \/ StartMoot(r) \/ ThreadStep(r)
      PROVE  IInv'
  BY <1>5, StartInv, StartMootInv, PrepareFailsInv, AccidentInv, ReconfirmInv, AskUserInv, SeeAnswerInv,
     LetGoInv, TakeYesInv, MarkInv, CheckCancelledInv, ConfirmMissesInv, ClickInvStep, AfterClickInv,
     SettleInv, LeaveInv DEF ThreadStep
<1> QED BY <1>1, <1>2, <1>3, <1>4, <1>5 DEF Next

-----------------------------------------------------------------------------
(* Theorems of the specification.                                            *)

\* Rows, events, threads and the credit ledger keep their types.
THEOREM BrowserRunsTypeCorrect == Spec => []TypeOK
<1>1. IInv => TypeOK
  BY DEF IInv
<1> QED BY <1>1, InitIInv, NextIInv, PTL DEF Spec

\* For any number of runs, offers and restarts: one confirming click at most, and for the
\* offer of the user's yes (browser_worker/session.py confirm, orchestrator.py _replay).
THEOREM RunsClickedAsAgreed == Spec => []ClickedAsAgreed
<1>1. IInv => ClickedAsAgreed
  BY DEF IInv, RunInv, AnswerInv, ClickInv, ClickedAsAgreed
<1> QED BY <1>1, InitIInv, NextIInv, PTL DEF Spec

\* A run declined, or moved to the phone, is not confirmed, at whatever moment the user
\* decides (browser/service.py decline, cancel_for_phone; orchestrator.py _mark_confirming).
THEOREM CalledOffRunsNotClicked == Spec => []CalledOffIsNotClicked
<1>1. IInv => CalledOffIsNotClicked
  <2> SUFFICES ASSUME IInv, NEW r \in refused PROVE clicks[r] = 0
    BY DEF CalledOffIsNotClicked
  <2>1. r \in Runs
    BY DEF IInv, TypeOK
  <2> QED BY <2>1 DEF IInv, RunInv, ClickInv
<1> QED BY <1>1, InitIInv, NextIInv, PTL DEF Spec

\* The credit of a run is not released after a click, nor spent and released, but in the
\* named cases (browser/service.py _settle_credit, sweep_lost).
THEOREM CreditsFollowClicks == Spec => []CreditFollowsClick
<1>1. IInv => CreditFollowsClick
  BY DEF IInv, RunInv, CreditInv, CreditFollowsClick
<1> QED BY <1>1, InitIInv, NextIInv, PTL DEF Spec

=============================================================================
