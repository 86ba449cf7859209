------------------------- MODULE ProvisioningProofs -------------------------
(***************************************************************************)
(* Theorems about Provisioning, for any requests, numbers and bounds.         *)
(* RunInv says what a run carries with it, LockInv that the runs past          *)
(* "loaded" hold the setup's row, so there is one; CodeInv whose telephone the   *)
(* code in force was read on; MarkInv where the mark of a purchase is as long    *)
(* as none is lost: in the job's row, or with the one run that carries it.      *)
(***************************************************************************)
EXTENDS Provisioning, FiniteSetTheorems, TLAPS

JobRows == [status : {"none"} \cup Statuses, state : SUBSET Progress, attempts : Nat, due : BOOLEAN]

RunRows == [at : Stages, seen : JobRows, job : JobRows, number : Sold \cup {Nothing},
            adds : SUBSET {"account", "state", "row", "imported"}]

SetupRows == [number : Numbers \cup {Nothing}, verified_by : {"nobody", "code_call", "operator"},
              code : 0..MaxCodes, documents : {"missing", "submitted", "approved", "rejected"},
              destination : Sold \cup {Nothing}]

SetupInv ==
    /\ setup \in SetupRows
    /\ heard \subseteq 1..MaxCodes
    /\ codes \in 0..MaxCodes /\ changes \in 0..MaxChanges /\ faults \in 0..MaxFaults

JobInv == job \in JobRows /\ job.status # "running"

StoreInv ==
    /\ stored \in [account : BOOLEAN, rows : SUBSET Sold, imported : SUBSET Sold]
    /\ stored.imported \subseteq stored.rows
    /\ locks \in [setup : Runners \cup {Nothing, Reviewer}, job : Runners \cup {Nothing}]

RowInv(x) ==
    /\ x.at = "commit" => x.job.status # "running"
    /\ x.at = "import" => "row" \in x.adds
    /\ "row" \in x.adds => x.number \in Sold
    /\ "imported" \in x.adds => "row" \in x.adds

RunInv == run \in [Runners -> RunRows] /\ \A r \in Runners : RowInv(run[r])

ProviderInv ==
    /\ twilio \in [accounts : 0..1, bought : SUBSET Sold, listed : SUBSET Sold]
    /\ twilio.listed \subseteq twilio.bought
    /\ imports \in [Sold -> 0..1] /\ lost \subseteq {"died", "broken", "overwritten", "stale"}

TypeInv == SetupInv /\ JobInv /\ StoreInv /\ RunInv /\ ProviderInv

Holding == Stages \ {"idle", "loaded"}

LockInv == \A r \in Runners : run[r].at \in Holding => locks.setup = r

CodeInv ==
    /\ setup.code <= codes /\ \A k \in heard : k <= codes
    /\ setup.code \in heard => setup.number \in Owned
    /\ VerifiedIsAnswered

IInv == TypeInv /\ LockInv /\ CodeInv

LEMMA InitIInv == Init => IInv
<1> SUFFICES ASSUME Init PROVE IInv
  OBVIOUS
<1>1. Idle \in RunRows /\ RowInv(Idle)
  BY DEF Idle, NoJob, RunRows, JobRows, Statuses, Progress, Stages, RowInv
<1>2. SetupInv /\ JobInv /\ StoreInv /\ ProviderInv
  BY ProvisioningAssumption DEF Init, SetupRows, SetupInv, JobInv, StoreInv, ProviderInv, JobRows,
     NoJob, Statuses, Progress
<1>3. RunInv
  BY <1>1 DEF Init, RunInv
<1>4. LockInv
  BY DEF Init, LockInv, Holding, Idle
<1>5. CodeInv
  BY ProvisioningAssumption DEF Init, CodeInv, VerifiedIsAnswered
<1> QED BY <1>2, <1>3, <1>4, <1>5 DEF IInv, TypeInv

-----------------------------------------------------------------------------
(* How a run moves on: its row becomes another one.                          *)

Moves(r, x) == run' = [run EXCEPT ![r] = x]

LEMMA MovesRun ==
    ASSUME RunInv, NEW r \in Runners, NEW x \in RunRows, RowInv(x), Moves(r, x)
    PROVE  /\ RunInv'
           /\ run'[r] = x
           /\ \A q \in Runners : q # r => run'[q] = run[q]
<1>1. /\ run' \in [Runners -> RunRows]
      /\ run'[r] = x
      /\ \A q \in Runners : q # r => run'[q] = run[q]
  BY DEF RunInv, Moves
<1>2. \A q \in Runners : RowInv(run'[q])
  BY <1>1 DEF RunInv
<1> QED BY <1>1, <1>2 DEF RunInv, RowInv

LEMMA IdleRow == Idle \in RunRows /\ RowInv(Idle) /\ Idle.at = "idle"
BY DEF Idle, NoJob, RunRows, JobRows, Statuses, Progress, Stages, RowInv

LEMMA EndsMoves ==
    ASSUME RunInv, NEW r \in Runners, NEW status \in Statuses \ {"running"}, NEW state \in SUBSET Progress,
           Ends(r, status, state)
    PROVE  \E x \in RunRows : RowInv(x) /\ x.at = "commit" /\ Moves(r, x)
<1> DEFINE x == [run[r] EXCEPT !.at = "commit", !.job.status = status, !.job.due = FALSE, !.job.state = state]
<1>1. run[r] \in RunRows /\ RowInv(run[r])
  BY DEF RunInv
<1>2. x \in RunRows
  BY <1>1 DEF RunRows, JobRows, Stages
<1>3. RowInv(x) /\ x.at = "commit"
  BY <1>1 DEF RowInv, RunRows, JobRows
<1>4. Moves(r, x)
  BY DEF Ends, Moves
<1> QED BY <1>2, <1>3, <1>4

LEMMA HasMoves ==
    ASSUME RunInv, NEW r \in Runners, NEW n \in Sold, Has(r, n)
    PROVE  \E x \in RunRows : RowInv(x) /\ x.at = "import" /\ Moves(r, x)
<1> DEFINE x == [run[r] EXCEPT !.at = "import", !.number = n, !.adds = @ \cup {"row"},
                               !.job.state = @ \cup {"number_sid"}]
<1>1. run[r] \in RunRows /\ RowInv(run[r])
  BY DEF RunInv
<1>2. x \in RunRows
  BY <1>1 DEF RunRows, JobRows, Stages, Progress
<1>3. RowInv(x) /\ x.at = "import"
  BY <1>1 DEF RowInv, RunRows, JobRows
<1>4. Moves(r, x)
  BY DEF Has, Moves
<1> QED BY <1>2, <1>3, <1>4

LEMMA LoadMoves ==
    ASSUME NEW r \in Runners, NEW row \in JobRows, Load(r, row)
    PROVE  \E x \in RunRows : RowInv(x) /\ x.at = "loaded" /\ Moves(r, x)
<1> DEFINE x == [Idle EXCEPT !.at = "loaded", !.seen = row, !.job = row]
<1>1. x \in RunRows /\ RowInv(x) /\ x.at = "loaded"
  BY DEF Idle, NoJob, RunRows, Stages, RowInv
<1>2. Moves(r, x)
  BY DEF Load, Moves
<1> QED BY <1>1, <1>2

-----------------------------------------------------------------------------
(* The customer and the operators, under the lock on the setup.             *)

LEMMA SetBusinessNumberInv ==
    ASSUME IInv, NEW n \in Numbers, SetBusinessNumber(n)
    PROVE  IInv'
<1>1. SetupInv /\ JobInv /\ StoreInv /\ RunInv /\ ProviderInv
  BY DEF IInv, TypeInv
<1>2. SetupInv'
  <2>1. 0 \in 0..MaxCodes /\ setup \in SetupRows
    BY <1>1, ProvisioningAssumption DEF SetupInv
  <2>2. [setup EXCEPT !.number = n, !.verified_by = "nobody", !.code = 0] \in SetupRows
    BY <2>1 DEF SetupRows
  <2>3. setup' \in SetupRows
    BY <2>2 DEF SetBusinessNumber, GivenNumber, Unlocked
  <2> QED BY <1>1, <2>3, ProvisioningAssumption DEF SetBusinessNumber, GivenNumber, Unlocked,
     SetupInv, work
<1>3. JobInv'
  BY <1>1 DEF SetBusinessNumber, GivenNumber, Unlocked, JobInv, JobRows, NoJob, Statuses, Progress, work
<1>4. StoreInv'
  BY <1>1 DEF SetBusinessNumber, GivenNumber, Unlocked, StoreInv, work
<1>5. RunInv' /\ UNCHANGED run
  BY <1>1 DEF SetBusinessNumber, GivenNumber, Unlocked, RunInv, work
<1>6. ProviderInv'
  BY <1>1 DEF SetBusinessNumber, GivenNumber, Unlocked, ProviderInv, work
<1>7. LockInv'
  BY <1>1, <1>5, ProvisioningAssumption DEF IInv, LockInv, SetBusinessNumber, GivenNumber,
     Unlocked, StoreInv, work
<1>8. CodeInv'
  BY <1>1, ProvisioningAssumption DEF IInv, CodeInv, VerifiedIsAnswered, SetBusinessNumber,
     GivenNumber, Unlocked, SetupRows, SetupInv, work
<1> QED BY <1>2, <1>3, <1>4, <1>5, <1>6, <1>7, <1>8 DEF IInv, TypeInv

LEMMA StartVerificationInv ==
    ASSUME IInv, StartVerification
    PROVE  IInv'
<1>1. SetupInv /\ JobInv /\ StoreInv /\ RunInv /\ ProviderInv
  BY DEF IInv, TypeInv
<1>2. SetupInv'
  BY <1>1, ProvisioningAssumption DEF StartVerification, Unlocked, SetupRows, SetupInv, work
<1>3. JobInv'
  BY <1>1 DEF StartVerification, Unlocked, JobInv, JobRows, NoJob, Statuses, Progress, work
<1>4. StoreInv'
  BY <1>1 DEF StartVerification, Unlocked, StoreInv, work
<1>5. RunInv' /\ UNCHANGED run
  BY <1>1 DEF StartVerification, Unlocked, RunInv, work
<1>6. ProviderInv'
  BY <1>1 DEF StartVerification, Unlocked, ProviderInv, work
<1>7. LockInv'
  BY <1>1, <1>5, ProvisioningAssumption DEF IInv, LockInv, StartVerification, Unlocked, StoreInv, work
<1>8. CodeInv'
  BY <1>1, ProvisioningAssumption DEF IInv, CodeInv, VerifiedIsAnswered, StartVerification,
     Unlocked, SetupRows, SetupInv, work
<1> QED BY <1>2, <1>3, <1>4, <1>5, <1>6, <1>7, <1>8 DEF IInv, TypeInv

LEMMA ConfirmVerificationInv ==
    ASSUME IInv, NEW k \in heard, ConfirmVerification(k)
    PROVE  IInv'
<1>1. SetupInv /\ JobInv /\ StoreInv /\ RunInv /\ ProviderInv
  BY DEF IInv, TypeInv
<1>2. SetupInv'
  <2>1. 0 \in 0..MaxCodes /\ setup \in SetupRows
    BY <1>1, ProvisioningAssumption DEF SetupInv
  <2>2. [setup EXCEPT !.verified_by = "code_call", !.code = 0] \in SetupRows
    BY <2>1 DEF SetupRows
  <2>3. setup' \in SetupRows
    BY <2>2 DEF ConfirmVerification, Unlocked
  <2> QED BY <1>1, <2>3, ProvisioningAssumption DEF ConfirmVerification, Unlocked, SetupInv, work
<1>3. JobInv'
  BY <1>1 DEF ConfirmVerification, Unlocked, JobInv, JobRows, NoJob, Statuses, Progress, work
<1>4. StoreInv'
  BY <1>1 DEF ConfirmVerification, Unlocked, StoreInv, work
<1>5. RunInv' /\ UNCHANGED run
  BY <1>1 DEF ConfirmVerification, Unlocked, RunInv, work
<1>6. ProviderInv'
  BY <1>1 DEF ConfirmVerification, Unlocked, ProviderInv, work
<1>7. LockInv'
  BY <1>1, <1>5, ProvisioningAssumption DEF IInv, LockInv, ConfirmVerification, Unlocked, StoreInv, work
<1>8. CodeInv'
  BY <1>1, ProvisioningAssumption DEF IInv, CodeInv, VerifiedIsAnswered, ConfirmVerification,
     Unlocked, SetupRows, SetupInv, work
<1> QED BY <1>2, <1>3, <1>4, <1>5, <1>6, <1>7, <1>8 DEF IInv, TypeInv

LEMMA VerifyManuallyInv ==
    ASSUME IInv, VerifyManually
    PROVE  IInv'
<1>1. SetupInv /\ JobInv /\ StoreInv /\ RunInv /\ ProviderInv
  BY DEF IInv, TypeInv
<1>2. SetupInv'
  BY <1>1, ProvisioningAssumption DEF VerifyManually, Unlocked, SetupRows, SetupInv, work
<1>3. JobInv'
  BY <1>1 DEF VerifyManually, Unlocked, JobInv, JobRows, NoJob, Statuses, Progress, work
<1>4. StoreInv'
  BY <1>1 DEF VerifyManually, Unlocked, StoreInv, work
<1>5. RunInv' /\ UNCHANGED run
  BY <1>1 DEF VerifyManually, Unlocked, RunInv, work
<1>6. ProviderInv'
  BY <1>1 DEF VerifyManually, Unlocked, ProviderInv, work
<1>7. LockInv'
  BY <1>1, <1>5, ProvisioningAssumption DEF IInv, LockInv, VerifyManually, Unlocked, StoreInv, work
<1>8. CodeInv'
  BY <1>1, ProvisioningAssumption DEF IInv, CodeInv, VerifiedIsAnswered, VerifyManually, Unlocked,
     SetupRows, SetupInv, work
<1> QED BY <1>2, <1>3, <1>4, <1>5, <1>6, <1>7, <1>8 DEF IInv, TypeInv

LEMMA PutDocumentsInv ==
    ASSUME IInv, PutDocuments
    PROVE  IInv'
<1>1. SetupInv /\ JobInv /\ StoreInv /\ RunInv /\ ProviderInv
  BY DEF IInv, TypeInv
<1>2. SetupInv'
  BY <1>1, ProvisioningAssumption DEF PutDocuments, Unlocked, SetupRows, SetupInv, work
<1>3. JobInv'
  BY <1>1 DEF PutDocuments, Unlocked, JobInv, JobRows, NoJob, Statuses, Progress, work
<1>4. StoreInv'
  BY <1>1 DEF PutDocuments, Unlocked, StoreInv, work
<1>5. RunInv' /\ UNCHANGED run
  BY <1>1 DEF PutDocuments, Unlocked, RunInv, work
<1>6. ProviderInv'
  BY <1>1 DEF PutDocuments, Unlocked, ProviderInv, work
<1>7. LockInv'
  BY <1>1, <1>5, ProvisioningAssumption DEF IInv, LockInv, PutDocuments, Unlocked, StoreInv, work
<1>8. CodeInv'
  BY <1>1, ProvisioningAssumption DEF IInv, CodeInv, VerifiedIsAnswered, PutDocuments, Unlocked,
     SetupRows, SetupInv, work
<1> QED BY <1>2, <1>3, <1>4, <1>5, <1>6, <1>7, <1>8 DEF IInv, TypeInv

LEMMA ReviewBeginsInv ==
    ASSUME IInv, ReviewBegins
    PROVE  IInv'
<1>1. SetupInv /\ JobInv /\ StoreInv /\ RunInv /\ ProviderInv
  BY DEF IInv, TypeInv
<1>2. SetupInv'
  BY <1>1, ProvisioningAssumption DEF ReviewBegins, Unlocked, SetupRows, SetupInv, work
<1>3. JobInv'
  BY <1>1 DEF ReviewBegins, Unlocked, JobInv, JobRows, NoJob, Statuses, Progress, work
<1>4. StoreInv'
  BY <1>1 DEF ReviewBegins, Unlocked, StoreInv, work
<1>5. RunInv' /\ UNCHANGED run
  BY <1>1 DEF ReviewBegins, Unlocked, RunInv, work
<1>6. ProviderInv'
  BY <1>1 DEF ReviewBegins, Unlocked, ProviderInv, work
<1>7. LockInv'
  <2>1. \A r \in Runners : run[r].at \notin Holding
    BY ProvisioningAssumption DEF IInv, LockInv, ReviewBegins, Unlocked, Runners
  <2> QED BY <1>5, <2>1 DEF LockInv
<1>8. CodeInv'
  BY <1>1, ProvisioningAssumption DEF IInv, CodeInv, VerifiedIsAnswered, ReviewBegins, Unlocked,
     SetupRows, SetupInv, work
<1> QED BY <1>2, <1>3, <1>4, <1>5, <1>6, <1>7, <1>8 DEF IInv, TypeInv

LEMMA ReviewEndsInv ==
    ASSUME IInv, ReviewEnds
    PROVE  IInv'
<1>1. SetupInv /\ JobInv /\ StoreInv /\ RunInv /\ ProviderInv
  BY DEF IInv, TypeInv
<1>2. SetupInv'
  BY <1>1, ProvisioningAssumption DEF ReviewEnds, ReviewLetsGo, SetupRows, SetupInv, work
<1>3. JobInv'
  BY <1>1 DEF ReviewEnds, ReviewLetsGo, JobInv, JobRows, NoJob, Statuses, Progress, work
<1>4. StoreInv'
  BY <1>1 DEF ReviewEnds, ReviewLetsGo, StoreInv, work
<1>5. RunInv' /\ UNCHANGED run
  BY <1>1 DEF ReviewEnds, ReviewLetsGo, RunInv, work
<1>6. ProviderInv'
  BY <1>1 DEF ReviewEnds, ReviewLetsGo, ProviderInv, work
<1>7. LockInv'
  <2>1. \A r \in Runners : run[r].at \notin Holding
    BY ProvisioningAssumption DEF IInv, LockInv, ReviewEnds, ReviewLetsGo, Runners
  <2> QED BY <1>5, <2>1 DEF LockInv
<1>8. CodeInv'
  BY <1>1, ProvisioningAssumption DEF IInv, CodeInv, VerifiedIsAnswered, ReviewEnds, ReviewLetsGo,
     SetupRows, SetupInv, work
<1> QED BY <1>2, <1>3, <1>4, <1>5, <1>6, <1>7, <1>8 DEF IInv, TypeInv

LEMMA NextAttemptInv ==
    ASSUME IInv, NextAttempt
    PROVE  IInv'
<1>1. SetupInv /\ JobInv /\ StoreInv /\ RunInv /\ ProviderInv
  BY DEF IInv, TypeInv
<1>2. SetupInv'
  BY <1>1, ProvisioningAssumption DEF NextAttempt, SetupRows, SetupInv, work
<1>3. JobInv'
  BY <1>1 DEF NextAttempt, JobInv, JobRows, NoJob, Statuses, Progress, work
<1>4. StoreInv'
  BY <1>1 DEF NextAttempt, StoreInv, work
<1>5. RunInv' /\ UNCHANGED run
  BY <1>1 DEF NextAttempt, RunInv, work
<1>6. ProviderInv'
  BY <1>1 DEF NextAttempt, ProviderInv, work
<1>7. LockInv'
  BY <1>1, <1>5, ProvisioningAssumption DEF IInv, LockInv, NextAttempt, StoreInv, work
<1>8. CodeInv'
  BY <1>1, ProvisioningAssumption DEF IInv, CodeInv, VerifiedIsAnswered, NextAttempt, SetupRows,
     SetupInv, work
<1> QED BY <1>2, <1>3, <1>4, <1>5, <1>6, <1>7, <1>8 DEF IInv, TypeInv

LEMMA ReviewLetsGoInv ==
    ASSUME IInv, locks.setup = Reviewer, ReviewLetsGo, UNCHANGED <<setup, job>>
    PROVE  IInv'
<1>1. SetupInv /\ JobInv /\ StoreInv /\ RunInv /\ ProviderInv
  BY DEF IInv, TypeInv
<1>2. SetupInv'
  BY <1>1, ProvisioningAssumption DEF ReviewLetsGo, SetupRows, SetupInv, work
<1>3. JobInv'
  BY <1>1 DEF ReviewLetsGo, JobInv, JobRows, NoJob, Statuses, Progress, work
<1>4. StoreInv'
  BY <1>1 DEF ReviewLetsGo, StoreInv, work
<1>5. RunInv' /\ UNCHANGED run
  BY <1>1 DEF ReviewLetsGo, RunInv, work
<1>6. ProviderInv'
  BY <1>1 DEF ReviewLetsGo, ProviderInv, work
<1>7. LockInv'
  <2>1. \A r \in Runners : run[r].at \notin Holding
    BY ProvisioningAssumption DEF IInv, LockInv, ReviewLetsGo, Runners
  <2> QED BY <1>5, <2>1 DEF LockInv
<1>8. CodeInv'
  BY <1>1, ProvisioningAssumption DEF IInv, CodeInv, VerifiedIsAnswered, ReviewLetsGo, SetupRows,
     SetupInv, work
<1> QED BY <1>2, <1>3, <1>4, <1>5, <1>6, <1>7, <1>8 DEF IInv, TypeInv

LEMMA WorkerLetsGoInv ==
    ASSUME IInv, WorkerLetsGo
    PROVE  IInv'
<1>1. SetupInv /\ JobInv /\ StoreInv /\ RunInv /\ ProviderInv
  BY DEF IInv, TypeInv
<1>2. SetupInv'
  BY <1>1, ProvisioningAssumption DEF WorkerLetsGo, Runners, SetupRows, SetupInv, work
<1>3. JobInv'
  BY <1>1 DEF WorkerLetsGo, Runners, JobInv, JobRows, NoJob, Statuses, Progress, work
<1>4. StoreInv'
  BY <1>1 DEF WorkerLetsGo, Runners, StoreInv, work
<1>5. RunInv' /\ UNCHANGED run
  BY <1>1 DEF WorkerLetsGo, Runners, RunInv, work
<1>6. ProviderInv'
  BY <1>1 DEF WorkerLetsGo, Runners, ProviderInv, work
<1>7. LockInv'
  BY <1>1, <1>5, ProvisioningAssumption DEF IInv, LockInv, WorkerLetsGo, Runners, StoreInv, work
<1>8. CodeInv'
  BY <1>1, ProvisioningAssumption DEF IInv, CodeInv, VerifiedIsAnswered, WorkerLetsGo, Runners,
     SetupRows, SetupInv, work
<1> QED BY <1>2, <1>3, <1>4, <1>5, <1>6, <1>7, <1>8 DEF IInv, TypeInv

-----------------------------------------------------------------------------
(* Runs begin.                                                              *)

LEMMA ConnectInv ==
    ASSUME IInv, NEW r \in Requests, Connect(r)
    PROVE  IInv'
<1>1. SetupInv /\ JobInv /\ StoreInv /\ RunInv /\ ProviderInv /\ r \in Runners
  BY DEF IInv, TypeInv, Runners
<1>2. PICK x \in RunRows : RowInv(x) /\ x.at = "loaded" /\ Moves(r, x)
  <2>1. job' = [NoJob EXCEPT !.status = "pending", !.due = TRUE] \/ job' = Retried \/ job' = job
    BY DEF Connect
  <2>2. [NoJob EXCEPT !.status = "pending", !.due = TRUE] \in JobRows /\ Retried \in JobRows
    BY <1>1 DEF JobInv, Retried, JobRows, NoJob, Statuses, Progress
  <2>3. job' \in JobRows
    BY <1>1, <2>1, <2>2 DEF JobInv
  <2> QED BY <1>1, <2>3, LoadMoves DEF Connect
<1>3. RunInv' /\ run'[r] = x /\ \A q \in Runners : q # r => run'[q] = run[q]
  BY <1>1, <1>2, MovesRun
<1>4. SetupInv'
  BY <1>1, ProvisioningAssumption DEF Connect, Unlocked, Verified, Retried, SetupRows, SetupInv,
     same, unsold, RunInv, RowInv, RunRows
<1>5. JobInv'
  <2>1. job' = [NoJob EXCEPT !.status = "pending", !.due = TRUE] \/ job' = Retried \/ job' = job
    BY DEF Connect
  <2>2. [NoJob EXCEPT !.status = "pending", !.due = TRUE] \in JobRows /\ Retried \in JobRows
    BY <1>1 DEF JobInv, Retried, JobRows, NoJob, Statuses, Progress
  <2>3. [NoJob EXCEPT !.status = "pending", !.due = TRUE].status # "running"
    BY DEF NoJob
  <2>4. Retried.status # "running"
    BY <1>1 DEF JobInv, Retried, JobRows
  <2> QED BY <1>1, <2>1, <2>2, <2>3, <2>4 DEF JobInv
<1>6. StoreInv'
  BY <1>1 DEF Connect, Unlocked, Verified, Retried, StoreInv, same, unsold, RunInv, RowInv, RunRows
<1>7. ProviderInv'
  BY <1>1 DEF Connect, Unlocked, Verified, Retried, ProviderInv, same, unsold, RunInv, RowInv, RunRows
<1>8. LockInv'
  BY <1>1, <1>2, <1>3, ProvisioningAssumption DEF IInv, LockInv, Holding, Stages, Connect,
     Unlocked, Verified, Retried, StoreInv, same, unsold, Runners
<1>9. CodeInv'
  BY <1>1 DEF IInv, CodeInv, VerifiedIsAnswered, Connect, Unlocked, Verified, Retried, same, unsold
<1> QED BY <1>3, <1>4, <1>5, <1>6, <1>7, <1>8, <1>9 DEF IInv, TypeInv

LEMMA OperatorRunInv ==
    ASSUME IInv, NEW r \in Requests, OperatorRun(r)
    PROVE  IInv'
<1>1. SetupInv /\ JobInv /\ StoreInv /\ RunInv /\ ProviderInv /\ r \in Runners
  BY DEF IInv, TypeInv, Runners
<1>2. PICK x \in RunRows : RowInv(x) /\ x.at = "loaded" /\ Moves(r, x)
  <2>1. CASE job.status = "failed"
    <3> DEFINE y == [Idle EXCEPT !.at = "loaded", !.seen = job, !.job = Retried]
    <3>1. Retried \in JobRows
      BY <1>1 DEF JobInv, Retried, JobRows, NoJob, Statuses, Progress
    <3>2. y \in RunRows /\ RowInv(y) /\ y.at = "loaded"
      BY <1>1, <3>1 DEF JobInv, Idle, NoJob, RunRows, Stages, RowInv
    <3>3. Moves(r, y)
      BY <2>1 DEF OperatorRun, Moves
    <3> QED BY <3>2, <3>3
  <2>2. CASE job.status # "failed"
    BY <1>1, <2>2, LoadMoves DEF OperatorRun, JobInv
  <2> QED BY <2>1, <2>2
<1>3. RunInv' /\ run'[r] = x /\ \A q \in Runners : q # r => run'[q] = run[q]
  BY <1>1, <1>2, MovesRun
<1>4. SetupInv'
  BY <1>1, ProvisioningAssumption DEF OperatorRun, Retried, Runners, SetupRows, SetupInv, same, unsold,
     RunInv, RowInv, RunRows
<1>5. JobInv'
  BY <1>1 DEF OperatorRun, Retried, Runners, JobInv, JobRows, NoJob, Statuses, Progress, same, unsold,
     RunInv, RowInv, RunRows
<1>6. StoreInv'
  BY <1>1 DEF OperatorRun, Retried, Runners, StoreInv, same, unsold, RunInv, RowInv, RunRows
<1>7. ProviderInv'
  BY <1>1 DEF OperatorRun, Retried, Runners, ProviderInv, same, unsold, RunInv, RowInv, RunRows
<1>8. LockInv'
  BY <1>1, <1>2, <1>3, ProvisioningAssumption DEF IInv, LockInv, Holding, Stages, OperatorRun,
     Retried, Runners, StoreInv, same, unsold, Runners
<1>9. CodeInv'
  BY <1>1 DEF IInv, CodeInv, VerifiedIsAnswered, OperatorRun, Retried, Runners, same, unsold
<1> QED BY <1>3, <1>4, <1>5, <1>6, <1>7, <1>8, <1>9 DEF IInv, TypeInv

LEMMA WorkerLoadsInv ==
    ASSUME IInv, WorkerLoads
    PROVE  IInv'
<1>1. SetupInv /\ JobInv /\ StoreInv /\ RunInv /\ ProviderInv /\ Worker \in Runners
  BY DEF IInv, TypeInv, Runners
<1>2. PICK x \in RunRows : RowInv(x) /\ x.at = "loaded" /\ Moves(Worker, x)
  BY <1>1, LoadMoves DEF WorkerLoads, JobInv
<1>3. RunInv' /\ run'[Worker] = x /\ \A q \in Runners : q # Worker => run'[q] = run[q]
  BY <1>1, <1>2, MovesRun
<1>4. SetupInv'
  BY <1>1, ProvisioningAssumption DEF WorkerLoads, Due, Runners, SetupRows, SetupInv, same, unsold, RunInv,
     RowInv, RunRows
<1>5. JobInv'
  BY <1>1 DEF WorkerLoads, Due, Runners, JobInv, JobRows, NoJob, Statuses, Progress, same, unsold, RunInv,
     RowInv, RunRows
<1>6. StoreInv'
  BY <1>1 DEF WorkerLoads, Due, Runners, StoreInv, same, unsold, RunInv, RowInv, RunRows
<1>7. ProviderInv'
  BY <1>1 DEF WorkerLoads, Due, Runners, ProviderInv, same, unsold, RunInv, RowInv, RunRows
<1>8. LockInv'
  BY <1>1, <1>2, <1>3, ProvisioningAssumption DEF IInv, LockInv, Holding, Stages, WorkerLoads, Due,
     Runners, StoreInv, same, unsold, Runners
<1>9. CodeInv'
  BY <1>1 DEF IInv, CodeInv, VerifiedIsAnswered, WorkerLoads, Due, Runners, same, unsold
<1> QED BY <1>3, <1>4, <1>5, <1>6, <1>7, <1>8, <1>9 DEF IInv, TypeInv

-----------------------------------------------------------------------------
(* Runs proceed.                                                            *)

LEMMA TakeSetupInv ==
    ASSUME IInv, NEW r \in Runners, TakeSetup(r)
    PROVE  IInv'
<1>1. SetupInv /\ JobInv /\ StoreInv /\ RunInv /\ ProviderInv /\ r \in Runners
  BY DEF IInv, TypeInv, Runners
<1>2. PICK x \in RunRows : RowInv(x) /\ x.at = "locked" /\ Moves(r, x)
  <2>1. run[r] \in RunRows /\ RowInv(run[r])
    BY <1>1 DEF RunInv
  <2> DEFINE y == [run[r] EXCEPT !.at = "locked", !.job.attempts = IF @ < GiveUp THEN @ + 1 ELSE @]
  <2>2. y \in RunRows
    <3>1. \A k \in Nat : (IF k < GiveUp THEN k + 1 ELSE k) \in Nat
      BY ProvisioningAssumption
    <3> QED BY <2>1, <3>1 DEF RunRows, JobRows, Stages
  <2>3. RowInv(y) /\ y.at = "locked"
    BY <2>1 DEF RowInv, RunRows, JobRows, TakeSetup
  <2>4. Moves(r, y)
    BY DEF TakeSetup, Moves
  <2> QED BY <2>2, <2>3, <2>4
<1>3. RunInv' /\ run'[r] = x /\ \A q \in Runners : q # r => run'[q] = run[q]
  BY <1>1, <1>2, MovesRun
<1>4. SetupInv'
  BY <1>1, ProvisioningAssumption DEF TakeSetup, Unlocked, SetupRows, SetupInv, same, unsold, RunInv,
     RowInv, RunRows
<1>5. JobInv'
  BY <1>1 DEF TakeSetup, Unlocked, JobInv, JobRows, NoJob, Statuses, Progress, same, unsold, RunInv,
     RowInv, RunRows
<1>6. StoreInv'
  BY <1>1 DEF TakeSetup, Unlocked, StoreInv, same, unsold, RunInv, RowInv, RunRows
<1>7. ProviderInv'
  BY <1>1 DEF TakeSetup, Unlocked, ProviderInv, same, unsold, RunInv, RowInv, RunRows
<1>8. LockInv'
  BY <1>1, <1>2, <1>3, ProvisioningAssumption DEF IInv, LockInv, Holding, Stages, TakeSetup,
     Unlocked, StoreInv, same, unsold, Runners
<1>9. CodeInv'
  BY <1>1 DEF IInv, CodeInv, VerifiedIsAnswered, TakeSetup, Unlocked, same, unsold
<1> QED BY <1>3, <1>4, <1>5, <1>6, <1>7, <1>8, <1>9 DEF IInv, TypeInv

LEMMA TakeJobInv ==
    ASSUME IInv, NEW r \in Runners, TakeJob(r)
    PROVE  IInv'
<1>1. SetupInv /\ JobInv /\ StoreInv /\ RunInv /\ ProviderInv /\ r \in Runners
  BY DEF IInv, TypeInv, Runners
<1>2. PICK x \in RunRows : RowInv(x) /\ x.at = "subaccount" /\ Moves(r, x)
  <2>1. run[r] \in RunRows /\ RowInv(run[r])
    BY <1>1 DEF RunInv
  <2> DEFINE y == [run[r] EXCEPT !.at = "subaccount", !.job.status = "running"]
  <2>2. y \in RunRows
    BY <2>1 DEF RunRows, JobRows, NoJob, Statuses, Progress, Stages
  <2>3. RowInv(y) /\ y.at = "subaccount"
    BY <2>1 DEF RowInv, RunRows, JobRows, TakeJob
  <2>4. Moves(r, y)
    BY DEF TakeJob, Moves
  <2> QED BY <2>2, <2>3, <2>4
<1>3. RunInv' /\ run'[r] = x /\ \A q \in Runners : q # r => run'[q] = run[q]
  BY <1>1, <1>2, MovesRun
<1>4. SetupInv'
  BY <1>1, ProvisioningAssumption DEF TakeJob, SetupRows, SetupInv, same, unsold, RunInv, RowInv, RunRows
<1>5. JobInv'
  BY <1>1 DEF TakeJob, JobInv, JobRows, NoJob, Statuses, Progress, same, unsold, RunInv, RowInv, RunRows
<1>6. StoreInv'
  BY <1>1 DEF TakeJob, StoreInv, same, unsold, RunInv, RowInv, RunRows
<1>7. ProviderInv'
  BY <1>1 DEF TakeJob, ProviderInv, same, unsold, RunInv, RowInv, RunRows
<1>8. LockInv'
  BY <1>1, <1>2, <1>3, ProvisioningAssumption DEF IInv, LockInv, Holding, Stages, TakeJob,
     StoreInv, same, unsold, Runners
<1>9. CodeInv'
  BY <1>1 DEF IInv, CodeInv, VerifiedIsAnswered, TakeJob, same, unsold
<1> QED BY <1>3, <1>4, <1>5, <1>6, <1>7, <1>8, <1>9 DEF IInv, TypeInv

LEMMA HasAccountInv ==
    ASSUME IInv, NEW r \in Runners, HasAccount(r)
    PROVE  IInv'
<1>1. SetupInv /\ JobInv /\ StoreInv /\ RunInv /\ ProviderInv /\ r \in Runners
  BY DEF IInv, TypeInv, Runners
<1>2. PICK x \in RunRows : RowInv(x) /\ x.at = "documents" /\ Moves(r, x)
  <2>1. run[r] \in RunRows /\ RowInv(run[r])
    BY <1>1 DEF RunInv
  <2> DEFINE y == [run[r] EXCEPT !.at = "documents", !.adds = @ \cup {"account"},
                             !.job.state = @ \cup {"subaccount_sid"}]
  <2>2. y \in RunRows
    BY <2>1 DEF RunRows, JobRows, NoJob, Statuses, Progress, Stages
  <2>3. RowInv(y) /\ y.at = "documents"
    BY <2>1 DEF RowInv, RunRows, JobRows, HasAccount
  <2>4. Moves(r, y)
    BY DEF HasAccount, Moves
  <2> QED BY <2>2, <2>3, <2>4
<1>3. RunInv' /\ run'[r] = x /\ \A q \in Runners : q # r => run'[q] = run[q]
  BY <1>1, <1>2, MovesRun
<1>4. SetupInv'
  BY <1>1, ProvisioningAssumption DEF HasAccount, AccountsAfter, SetupRows, SetupInv, same, unsold, RunInv,
     RowInv, RunRows
<1>5. JobInv'
  BY <1>1 DEF HasAccount, AccountsAfter, JobInv, JobRows, NoJob, Statuses, Progress, same, unsold, RunInv,
     RowInv, RunRows
<1>6. StoreInv'
  BY <1>1 DEF HasAccount, AccountsAfter, StoreInv, same, unsold, RunInv, RowInv, RunRows
<1>7. ProviderInv'
  BY <1>1 DEF HasAccount, AccountsAfter, ProviderInv, same, unsold, RunInv, RowInv, RunRows
<1>8. LockInv'
  BY <1>1, <1>2, <1>3, ProvisioningAssumption DEF IInv, LockInv, Holding, Stages, HasAccount,
     AccountsAfter, StoreInv, same, unsold, Runners
<1>9. CodeInv'
  BY <1>1 DEF IInv, CodeInv, VerifiedIsAnswered, HasAccount, AccountsAfter, same, unsold
<1> QED BY <1>3, <1>4, <1>5, <1>6, <1>7, <1>8, <1>9 DEF IInv, TypeInv

LEMMA AccountFailsInv ==
    ASSUME IInv, NEW r \in Runners, AccountFails(r)
    PROVE  IInv'
<1>1. SetupInv /\ JobInv /\ StoreInv /\ RunInv /\ ProviderInv /\ r \in Runners
  BY DEF IInv, TypeInv, Runners
<1>2. PICK x \in RunRows : RowInv(x) /\ x.at = "commit" /\ Moves(r, x)
  <2>1. run[r].job.state \in SUBSET Progress
    BY <1>1 DEF RunInv, RunRows, JobRows
  <2> QED BY <1>1, <2>1, EndsMoves DEF AccountFails, AccountsAfter, Unanswered, Statuses
<1>3. RunInv' /\ run'[r] = x /\ \A q \in Runners : q # r => run'[q] = run[q]
  BY <1>1, <1>2, MovesRun
<1>4. SetupInv'
  BY <1>1, ProvisioningAssumption DEF AccountFails, AccountsAfter, Unanswered, Ends, SetupRows,
     SetupInv, same, unsold, RunInv, RowInv, RunRows
<1>5. JobInv'
  BY <1>1 DEF AccountFails, AccountsAfter, Unanswered, Ends, JobInv, JobRows, NoJob, Statuses,
     Progress, same, unsold, RunInv, RowInv, RunRows
<1>6. StoreInv'
  BY <1>1 DEF AccountFails, AccountsAfter, Unanswered, Ends, StoreInv, same, unsold, RunInv, RowInv, RunRows
<1>7. ProviderInv'
  BY <1>1 DEF AccountFails, AccountsAfter, Unanswered, Ends, ProviderInv, same, unsold, RunInv, RowInv, RunRows
<1>8. LockInv'
  BY <1>1, <1>2, <1>3, ProvisioningAssumption DEF IInv, LockInv, Holding, Stages, AccountFails,
     AccountsAfter, Unanswered, Ends, StoreInv, same, unsold, Runners
<1>9. CodeInv'
  BY <1>1 DEF IInv, CodeInv, VerifiedIsAnswered, AccountFails, AccountsAfter, Unanswered, Ends, same, unsold
<1> QED BY <1>3, <1>4, <1>5, <1>6, <1>7, <1>8, <1>9 DEF IInv, TypeInv

LEMMA DocumentsInv ==
    ASSUME IInv, NEW r \in Runners, Documents(r)
    PROVE  IInv'
<1>1. SetupInv /\ JobInv /\ StoreInv /\ RunInv /\ ProviderInv /\ r \in Runners
  BY DEF IInv, TypeInv, Runners
<1>2. PICK x \in RunRows : RowInv(x) /\ x.at \in {"number", "commit"} /\ Moves(r, x)
  <2>1. CASE setup.documents = "approved"
    <3> DEFINE y == [run[r] EXCEPT !.at = "number"]
    <3>1. run[r] \in RunRows /\ RowInv(run[r])
      BY <1>1 DEF RunInv
    <3>2. y \in RunRows /\ RowInv(y) /\ y.at = "number"
      BY <3>1 DEF RunRows, Stages, RowInv
    <3>3. Moves(r, y)
      BY <2>1 DEF Documents, Goto, Moves
    <3> QED BY <3>2, <3>3
  <2>2. CASE setup.documents # "approved"
    <3>1. run[r].job.state \in SUBSET Progress
      BY <1>1 DEF RunInv, RunRows, JobRows
    <3> QED BY <1>1, <2>2, <3>1, EndsMoves DEF Documents, Statuses
  <2> QED BY <2>1, <2>2
<1>3. RunInv' /\ run'[r] = x /\ \A q \in Runners : q # r => run'[q] = run[q]
  BY <1>1, <1>2, MovesRun
<1>4. SetupInv'
  BY <1>1, ProvisioningAssumption DEF Documents, Goto, Ends, SetupRows, SetupInv, same, unsold, RunInv,
     RowInv, RunRows
<1>5. JobInv'
  BY <1>1 DEF Documents, Goto, Ends, JobInv, JobRows, NoJob, Statuses, Progress, same, unsold, RunInv,
     RowInv, RunRows
<1>6. StoreInv'
  BY <1>1 DEF Documents, Goto, Ends, StoreInv, same, unsold, RunInv, RowInv, RunRows
<1>7. ProviderInv'
  BY <1>1 DEF Documents, Goto, Ends, ProviderInv, same, unsold, RunInv, RowInv, RunRows
<1>8. LockInv'
  BY <1>1, <1>2, <1>3, ProvisioningAssumption DEF IInv, LockInv, Holding, Stages, Documents, Goto,
     Ends, StoreInv, same, unsold, Runners
<1>9. CodeInv'
  BY <1>1 DEF IInv, CodeInv, VerifiedIsAnswered, Documents, Goto, Ends, same, unsold
<1> QED BY <1>3, <1>4, <1>5, <1>6, <1>7, <1>8, <1>9 DEF IInv, TypeInv

LEMMA AdoptNumberInv ==
    ASSUME IInv, NEW r \in Runners, AdoptNumber(r)
    PROVE  IInv'
<1>1. SetupInv /\ JobInv /\ StoreInv /\ RunInv /\ ProviderInv /\ r \in Runners
  BY DEF IInv, TypeInv, Runners
<1>2. PICK x \in RunRows : RowInv(x) /\ x.at = "import" /\ Moves(r, x)
  <2>1. PICK n \in Listings \ {Nothing} : Has(r, n)
    BY DEF AdoptNumber
  <2>2. n \in Sold
    BY <1>1, <2>1 DEF Listings, ProviderInv
  <2> QED BY <1>1, <2>1, <2>2, HasMoves
<1>3. RunInv' /\ run'[r] = x /\ \A q \in Runners : q # r => run'[q] = run[q]
  BY <1>1, <1>2, MovesRun
<1>4. SetupInv'
  BY <1>1, ProvisioningAssumption DEF AdoptNumber, Listings, Has, SetupRows, SetupInv, same, unsold,
     RunInv, RowInv, RunRows
<1>5. JobInv'
  BY <1>1 DEF AdoptNumber, Listings, Has, JobInv, JobRows, NoJob, Statuses, Progress, same, unsold, RunInv,
     RowInv, RunRows
<1>6. StoreInv'
  BY <1>1 DEF AdoptNumber, Listings, Has, StoreInv, same, unsold, RunInv, RowInv, RunRows
<1>7. ProviderInv'
  BY <1>1 DEF AdoptNumber, Listings, Has, ProviderInv, same, unsold, RunInv, RowInv, RunRows
<1>8. LockInv'
  BY <1>1, <1>2, <1>3, ProvisioningAssumption DEF IInv, LockInv, Holding, Stages, AdoptNumber,
     Listings, Has, StoreInv, same, unsold, Runners
<1>9. CodeInv'
  BY <1>1 DEF IInv, CodeInv, VerifiedIsAnswered, AdoptNumber, Listings, Has, same, unsold
<1> QED BY <1>3, <1>4, <1>5, <1>6, <1>7, <1>8, <1>9 DEF IInv, TypeInv

LEMMA ReconcileInv ==
    ASSUME IInv, NEW r \in Runners, Reconcile(r)
    PROVE  IInv'
<1>1. SetupInv /\ JobInv /\ StoreInv /\ RunInv /\ ProviderInv /\ r \in Runners
  BY DEF IInv, TypeInv, Runners
<1>2. PICK x \in RunRows : RowInv(x) /\ x.at = "commit" /\ Moves(r, x)
  <2>1. run[r].job.state \in SUBSET Progress
    BY <1>1 DEF RunInv, RunRows, JobRows
  <2> QED BY <1>1, <2>1, EndsMoves DEF Reconcile, Listings, Statuses
<1>3. RunInv' /\ run'[r] = x /\ \A q \in Runners : q # r => run'[q] = run[q]
  BY <1>1, <1>2, MovesRun
<1>4. SetupInv'
  BY <1>1, ProvisioningAssumption DEF Reconcile, Listings, Ends, SetupRows, SetupInv, same, unsold, RunInv,
     RowInv, RunRows
<1>5. JobInv'
  BY <1>1 DEF Reconcile, Listings, Ends, JobInv, JobRows, NoJob, Statuses, Progress, same, unsold, RunInv,
     RowInv, RunRows
<1>6. StoreInv'
  BY <1>1 DEF Reconcile, Listings, Ends, StoreInv, same, unsold, RunInv, RowInv, RunRows
<1>7. ProviderInv'
  BY <1>1 DEF Reconcile, Listings, Ends, ProviderInv, same, unsold, RunInv, RowInv, RunRows
<1>8. LockInv'
  BY <1>1, <1>2, <1>3, ProvisioningAssumption DEF IInv, LockInv, Holding, Stages, Reconcile,
     Listings, Ends, StoreInv, same, unsold, Runners
<1>9. CodeInv'
  BY <1>1 DEF IInv, CodeInv, VerifiedIsAnswered, Reconcile, Listings, Ends, same, unsold
<1> QED BY <1>3, <1>4, <1>5, <1>6, <1>7, <1>8, <1>9 DEF IInv, TypeInv

LEMMA ListNumberInv ==
    ASSUME IInv, NEW n \in Sold, ListNumber(n)
    PROVE  IInv'
<1>1. SetupInv /\ JobInv /\ StoreInv /\ RunInv /\ ProviderInv
  BY DEF IInv, TypeInv
<1>2. SetupInv'
  BY <1>1, ProvisioningAssumption DEF ListNumber, same, unsold, SetupRows, SetupInv, work
<1>3. JobInv'
  BY <1>1 DEF ListNumber, same, unsold, JobInv, JobRows, NoJob, Statuses, Progress, work
<1>4. StoreInv'
  BY <1>1 DEF ListNumber, same, unsold, StoreInv, work
<1>5. RunInv' /\ UNCHANGED run
  BY <1>1 DEF ListNumber, same, unsold, RunInv, work
<1>6. ProviderInv'
  BY <1>1 DEF ListNumber, same, unsold, ProviderInv, work
<1>7. LockInv'
  BY <1>1, <1>5, ProvisioningAssumption DEF IInv, LockInv, ListNumber, same, unsold, StoreInv, work
<1>8. CodeInv'
  BY <1>1, ProvisioningAssumption DEF IInv, CodeInv, VerifiedIsAnswered, ListNumber, same, unsold, SetupRows,
     SetupInv, work
<1> QED BY <1>2, <1>3, <1>4, <1>5, <1>6, <1>7, <1>8 DEF IInv, TypeInv

LEMMA NoCountryInv ==
    ASSUME IInv, NEW r \in Runners, NoCountry(r)
    PROVE  IInv'
<1>1. SetupInv /\ JobInv /\ StoreInv /\ RunInv /\ ProviderInv /\ r \in Runners
  BY DEF IInv, TypeInv, Runners
<1>2. PICK x \in RunRows : RowInv(x) /\ x.at = "commit" /\ Moves(r, x)
  <2>1. run[r].job.state \in SUBSET Progress
    BY <1>1 DEF RunInv, RunRows, JobRows
  <2> QED BY <1>1, <2>1, EndsMoves DEF NoCountry, Statuses
<1>3. RunInv' /\ run'[r] = x /\ \A q \in Runners : q # r => run'[q] = run[q]
  BY <1>1, <1>2, MovesRun
<1>4. SetupInv'
  BY <1>1, ProvisioningAssumption DEF NoCountry, Unbought, Listings, Ends, SetupRows, SetupInv, same, unsold, RunInv,
     RowInv, RunRows
<1>5. JobInv'
  BY <1>1 DEF NoCountry, Unbought, Listings, Ends, JobInv, JobRows, NoJob, Statuses, Progress, same, unsold, RunInv,
     RowInv, RunRows
<1>6. StoreInv'
  BY <1>1 DEF NoCountry, Unbought, Listings, Ends, StoreInv, same, unsold, RunInv, RowInv, RunRows
<1>7. ProviderInv'
  BY <1>1 DEF NoCountry, Unbought, Listings, Ends, ProviderInv, same, unsold, RunInv, RowInv, RunRows
<1>8. LockInv'
  BY <1>1, <1>2, <1>3, ProvisioningAssumption DEF IInv, LockInv, Holding, Stages, NoCountry,
     Unbought, Listings, Ends, StoreInv, same, unsold, Runners
<1>9. CodeInv'
  BY <1>1 DEF IInv, CodeInv, VerifiedIsAnswered, NoCountry, Unbought, Listings, Ends, same, unsold
<1> QED BY <1>3, <1>4, <1>5, <1>6, <1>7, <1>8, <1>9 DEF IInv, TypeInv

LEMMA StartPurchaseInv ==
    ASSUME IInv, NEW r \in Runners, StartPurchase(r)
    PROVE  IInv'
<1>1. SetupInv /\ JobInv /\ StoreInv /\ RunInv /\ ProviderInv /\ r \in Runners
  BY DEF IInv, TypeInv, Runners
<1>2. PICK x \in RunRows : RowInv(x) /\ x.at = "buy" /\ Moves(r, x)
  <2>1. run[r] \in RunRows /\ RowInv(run[r])
    BY <1>1 DEF RunInv
  <2> DEFINE y == [run[r] EXCEPT !.at = "buy", !.adds = @ \cup {"state"}, !.job.state = @ \cup {"purchase_started"}]
  <2>2. y \in RunRows
    BY <2>1 DEF RunRows, JobRows, NoJob, Statuses, Progress, Stages
  <2>3. RowInv(y) /\ y.at = "buy"
    BY <2>1 DEF RowInv, RunRows, JobRows, StartPurchase
  <2>4. Moves(r, y)
    BY DEF StartPurchase, Moves
  <2> QED BY <2>2, <2>3, <2>4
<1>3. RunInv' /\ run'[r] = x /\ \A q \in Runners : q # r => run'[q] = run[q]
  BY <1>1, <1>2, MovesRun
<1>4. SetupInv'
  BY <1>1, ProvisioningAssumption DEF StartPurchase, Unbought, Listings, SetupRows, SetupInv, same, unsold, RunInv,
     RowInv, RunRows
<1>5. JobInv'
  BY <1>1 DEF StartPurchase, Unbought, Listings, JobInv, JobRows, NoJob, Statuses, Progress, same, unsold, RunInv,
     RowInv, RunRows
<1>6. StoreInv'
  BY <1>1 DEF StartPurchase, Unbought, Listings, StoreInv, same, unsold, RunInv, RowInv, RunRows
<1>7. ProviderInv'
  BY <1>1 DEF StartPurchase, Unbought, Listings, ProviderInv, same, unsold, RunInv, RowInv, RunRows
<1>8. LockInv'
  BY <1>1, <1>2, <1>3, ProvisioningAssumption DEF IInv, LockInv, Holding, Stages, StartPurchase,
     Unbought, Listings, StoreInv, same, unsold, Runners
<1>9. CodeInv'
  BY <1>1 DEF IInv, CodeInv, VerifiedIsAnswered, StartPurchase, Unbought, Listings, same, unsold
<1> QED BY <1>3, <1>4, <1>5, <1>6, <1>7, <1>8, <1>9 DEF IInv, TypeInv

LEMMA BuyInv ==
    ASSUME IInv, NEW r \in Runners, Buy(r)
    PROVE  IInv'
<1>1. SetupInv /\ JobInv /\ StoreInv /\ RunInv /\ ProviderInv /\ r \in Runners
  BY DEF IInv, TypeInv, Runners
<1>2. PICK x \in RunRows : RowInv(x) /\ x.at = "import" /\ Moves(r, x)
  BY <1>1, HasMoves DEF Buy
<1>3. RunInv' /\ run'[r] = x /\ \A q \in Runners : q # r => run'[q] = run[q]
  BY <1>1, <1>2, MovesRun
<1>4. SetupInv'
  BY <1>1, ProvisioningAssumption DEF Buy, Sale, Has, SetupRows, SetupInv, same, unsold, RunInv, RowInv, RunRows
<1>5. JobInv'
  BY <1>1 DEF Buy, Sale, Has, JobInv, JobRows, NoJob, Statuses, Progress, same, unsold, RunInv, RowInv, RunRows
<1>6. StoreInv'
  BY <1>1 DEF Buy, Sale, Has, StoreInv, same, unsold, RunInv, RowInv, RunRows
<1>7. ProviderInv'
  BY <1>1 DEF Buy, Sale, Has, ProviderInv, same, unsold, RunInv, RowInv, RunRows
<1>8. LockInv'
  BY <1>1, <1>2, <1>3, ProvisioningAssumption DEF IInv, LockInv, Holding, Stages, Buy, Sale, Has,
     StoreInv, same, unsold, Runners
<1>9. CodeInv'
  BY <1>1 DEF IInv, CodeInv, VerifiedIsAnswered, Buy, Sale, Has, same, unsold
<1> QED BY <1>3, <1>4, <1>5, <1>6, <1>7, <1>8, <1>9 DEF IInv, TypeInv

LEMMA BuyFailsInv ==
    ASSUME IInv, NEW r \in Runners, BuyFails(r)
    PROVE  IInv'
<1>1. SetupInv /\ JobInv /\ StoreInv /\ RunInv /\ ProviderInv /\ r \in Runners
  BY DEF IInv, TypeInv, Runners
<1>2. PICK x \in RunRows : RowInv(x) /\ x.at = "commit" /\ Moves(r, x)
  <2>1. run[r].job.state \in SUBSET Progress /\ run[r].job.state \ {"purchase_started"} \in SUBSET Progress
    BY <1>1 DEF RunInv, RunRows, JobRows
  <2> QED BY <1>1, <2>1, EndsMoves DEF BuyFails, Statuses
<1>3. RunInv' /\ run'[r] = x /\ \A q \in Runners : q # r => run'[q] = run[q]
  BY <1>1, <1>2, MovesRun
<1>4. SetupInv'
  BY <1>1, ProvisioningAssumption DEF BuyFails, Sale, Ends, Unanswered, SetupRows, SetupInv, same, unsold,
     RunInv, RowInv, RunRows
<1>5. JobInv'
  BY <1>1 DEF BuyFails, Sale, Ends, Unanswered, JobInv, JobRows, NoJob, Statuses, Progress, same, unsold,
     RunInv, RowInv, RunRows
<1>6. StoreInv'
  BY <1>1 DEF BuyFails, Sale, Ends, Unanswered, StoreInv, same, unsold, RunInv, RowInv, RunRows
<1>7. ProviderInv'
  BY <1>1 DEF BuyFails, Sale, Ends, Unanswered, ProviderInv, same, unsold, RunInv, RowInv, RunRows
<1>8. LockInv'
  BY <1>1, <1>2, <1>3, ProvisioningAssumption DEF IInv, LockInv, Holding, Stages, BuyFails, Sale,
     Ends, Unanswered, StoreInv, same, unsold, Runners
<1>9. CodeInv'
  BY <1>1 DEF IInv, CodeInv, VerifiedIsAnswered, BuyFails, Sale, Ends, Unanswered, same, unsold
<1> QED BY <1>3, <1>4, <1>5, <1>6, <1>7, <1>8, <1>9 DEF IInv, TypeInv

LEMMA ImportInv ==
    ASSUME IInv, NEW r \in Runners, Import(r)
    PROVE  IInv'
<1>1. SetupInv /\ JobInv /\ StoreInv /\ RunInv /\ ProviderInv /\ r \in Runners
  BY DEF IInv, TypeInv, Runners
<1>2. PICK x \in RunRows : RowInv(x) /\ x.at = "commit" /\ Moves(r, x)
  <2>1. run[r] \in RunRows /\ RowInv(run[r])
    BY <1>1 DEF RunInv
  <2> DEFINE y == [run[r] EXCEPT !.at = "commit", !.adds = @ \cup {"imported"},
                             !.job.status = "succeeded", !.job.due = FALSE]
  <2>2. y \in RunRows
    BY <2>1 DEF RunRows, JobRows, NoJob, Statuses, Progress, Stages
  <2>3. RowInv(y) /\ y.at = "commit"
    BY <2>1 DEF RowInv, RunRows, JobRows, Import
  <2>4. Moves(r, y)
    BY DEF Import, Moves
  <2> QED BY <2>2, <2>3, <2>4
<1>3. RunInv' /\ run'[r] = x /\ \A q \in Runners : q # r => run'[q] = run[q]
  BY <1>1, <1>2, MovesRun
<1>4. SetupInv'
  BY <1>1, ProvisioningAssumption DEF Import, Imported, SetupRows, SetupInv, same, unsold, RunInv, RowInv,
     RunRows
<1>5. JobInv'
  BY <1>1 DEF Import, Imported, JobInv, JobRows, NoJob, Statuses, Progress, same, unsold, RunInv, RowInv,
     RunRows
<1>6. StoreInv'
  BY <1>1 DEF Import, Imported, StoreInv, same, unsold, RunInv, RowInv, RunRows
<1>7. ProviderInv'
  BY <1>1 DEF Import, Imported, ProviderInv, same, unsold, RunInv, RowInv, RunRows
<1>8. LockInv'
  BY <1>1, <1>2, <1>3, ProvisioningAssumption DEF IInv, LockInv, Holding, Stages, Import, Imported,
     StoreInv, same, unsold, Runners
<1>9. CodeInv'
  BY <1>1 DEF IInv, CodeInv, VerifiedIsAnswered, Import, Imported, same, unsold
<1> QED BY <1>3, <1>4, <1>5, <1>6, <1>7, <1>8, <1>9 DEF IInv, TypeInv

LEMMA ImportFailsInv ==
    ASSUME IInv, NEW r \in Runners, ImportFails(r)
    PROVE  IInv'
<1>1. SetupInv /\ JobInv /\ StoreInv /\ RunInv /\ ProviderInv /\ r \in Runners
  BY DEF IInv, TypeInv, Runners
<1>2. PICK x \in RunRows : RowInv(x) /\ x.at = "commit" /\ Moves(r, x)
  <2>1. run[r].job.state \in SUBSET Progress
    BY <1>1 DEF RunInv, RunRows, JobRows
  <2> QED BY <1>1, <2>1, EndsMoves DEF ImportFails, Imported, Unanswered, Statuses
<1>3. RunInv' /\ run'[r] = x /\ \A q \in Runners : q # r => run'[q] = run[q]
  BY <1>1, <1>2, MovesRun
<1>4. SetupInv'
  BY <1>1, ProvisioningAssumption DEF ImportFails, Imported, Unanswered, Ends, SetupRows, SetupInv,
     same, unsold, RunInv, RowInv, RunRows
<1>5. JobInv'
  BY <1>1 DEF ImportFails, Imported, Unanswered, Ends, JobInv, JobRows, NoJob, Statuses, Progress,
     same, unsold, RunInv, RowInv, RunRows
<1>6. StoreInv'
  BY <1>1 DEF ImportFails, Imported, Unanswered, Ends, StoreInv, same, unsold, RunInv, RowInv, RunRows
<1>7. ProviderInv'
  BY <1>1 DEF ImportFails, Imported, Unanswered, Ends, ProviderInv, same, unsold, RunInv, RowInv, RunRows
<1>8. LockInv'
  BY <1>1, <1>2, <1>3, ProvisioningAssumption DEF IInv, LockInv, Holding, Stages, ImportFails,
     Imported, Unanswered, Ends, StoreInv, same, unsold, Runners
<1>9. CodeInv'
  BY <1>1 DEF IInv, CodeInv, VerifiedIsAnswered, ImportFails, Imported, Unanswered, Ends, same, unsold
<1> QED BY <1>3, <1>4, <1>5, <1>6, <1>7, <1>8, <1>9 DEF IInv, TypeInv

LEMMA LookupFailsInv ==
    ASSUME IInv, NEW r \in Runners, LookupFails(r)
    PROVE  IInv'
<1>1. SetupInv /\ JobInv /\ StoreInv /\ RunInv /\ ProviderInv /\ r \in Runners
  BY DEF IInv, TypeInv, Runners
<1>2. PICK x \in RunRows : RowInv(x) /\ x.at = "commit" /\ Moves(r, x)
  <2>1. run[r].job.state \in SUBSET Progress
    BY <1>1 DEF RunInv, RunRows, JobRows
  <2> QED BY <1>1, <2>1, EndsMoves DEF LookupFails, Unanswered, Statuses
<1>3. RunInv' /\ run'[r] = x /\ \A q \in Runners : q # r => run'[q] = run[q]
  BY <1>1, <1>2, MovesRun
<1>4. SetupInv'
  BY <1>1, ProvisioningAssumption DEF LookupFails, Unanswered, Ends, SetupRows, SetupInv, same, unsold,
     RunInv, RowInv, RunRows
<1>5. JobInv'
  BY <1>1 DEF LookupFails, Unanswered, Ends, JobInv, JobRows, NoJob, Statuses, Progress, same, unsold,
     RunInv, RowInv, RunRows
<1>6. StoreInv'
  BY <1>1 DEF LookupFails, Unanswered, Ends, StoreInv, same, unsold, RunInv, RowInv, RunRows
<1>7. ProviderInv'
  BY <1>1 DEF LookupFails, Unanswered, Ends, ProviderInv, same, unsold, RunInv, RowInv, RunRows
<1>8. LockInv'
  BY <1>1, <1>2, <1>3, ProvisioningAssumption DEF IInv, LockInv, Holding, Stages, LookupFails,
     Unanswered, Ends, StoreInv, same, unsold, Runners
<1>9. CodeInv'
  BY <1>1 DEF IInv, CodeInv, VerifiedIsAnswered, LookupFails, Unanswered, Ends, same, unsold
<1> QED BY <1>3, <1>4, <1>5, <1>6, <1>7, <1>8, <1>9 DEF IInv, TypeInv

LEMMA CommitInv ==
    ASSUME IInv, NEW r \in Runners, Commit(r)
    PROVE  IInv'
<1>1. SetupInv /\ JobInv /\ StoreInv /\ RunInv /\ ProviderInv /\ r \in Runners
  BY DEF IInv, TypeInv, Runners
<1>2. PICK x \in RunRows : RowInv(x) /\ x.at = "idle" /\ Moves(r, x)
  BY <1>1, IdleRow DEF Commit, Moves
<1>3. RunInv' /\ run'[r] = x /\ \A q \in Runners : q # r => run'[q] = run[q]
  BY <1>1, <1>2, MovesRun
<1>4. SetupInv'
  BY <1>1, ProvisioningAssumption DEF Commit, WrittenJob, Released, SetupRows, SetupInv, same, unsold,
     RunInv, RowInv, RunRows
<1>5. JobInv'
  BY <1>1 DEF Commit, WrittenJob, Released, JobInv, JobRows, NoJob, Statuses, Progress, same, unsold,
     RunInv, RowInv, RunRows
<1>6. StoreInv'
  BY <1>1 DEF Commit, WrittenJob, Released, StoreInv, same, unsold, RunInv, RowInv, RunRows
<1>7. ProviderInv'
  BY <1>1 DEF Commit, WrittenJob, Released, ProviderInv, same, unsold, RunInv, RowInv, RunRows
<1>8. LockInv'
  BY <1>1, <1>2, <1>3, ProvisioningAssumption DEF IInv, LockInv, Holding, Stages, Commit,
     WrittenJob, Released, StoreInv, same, unsold, Runners
<1>9. CodeInv'
  BY <1>1 DEF IInv, CodeInv, VerifiedIsAnswered, Commit, WrittenJob, Released, same, unsold
<1> QED BY <1>3, <1>4, <1>5, <1>6, <1>7, <1>8, <1>9 DEF IInv, TypeInv

LEMMA AbortInv ==
    ASSUME IInv, NEW r \in Runners, Abort(r), UNCHANGED faults \/ Unanswered,
           lost' \in {lost, lost \cup {"died"}}
    PROVE  IInv'
<1>1. SetupInv /\ JobInv /\ StoreInv /\ RunInv /\ ProviderInv /\ r \in Runners
  BY DEF IInv, TypeInv, Runners
<1>2. PICK x \in RunRows : RowInv(x) /\ x.at = "idle" /\ Moves(r, x)
  BY <1>1, IdleRow DEF Abort, Moves
<1>3. RunInv' /\ run'[r] = x /\ \A q \in Runners : q # r => run'[q] = run[q]
  BY <1>1, <1>2, MovesRun
<1>4. SetupInv'
  BY <1>1, ProvisioningAssumption DEF Abort, Released, Unanswered, SetupRows, SetupInv, same, unsold,
     RunInv, RowInv, RunRows
<1>5. JobInv'
  BY <1>1 DEF Abort, Released, Unanswered, JobInv, JobRows, NoJob, Statuses, Progress, same, unsold,
     RunInv, RowInv, RunRows
<1>6. StoreInv'
  BY <1>1 DEF Abort, Released, Unanswered, StoreInv, same, unsold, RunInv, RowInv, RunRows
<1>7. ProviderInv'
  BY <1>1 DEF Abort, Released, Unanswered, ProviderInv, same, unsold, RunInv, RowInv, RunRows
<1>8. LockInv'
  BY <1>1, <1>2, <1>3, ProvisioningAssumption DEF IInv, LockInv, Holding, Stages, Abort, Released,
     Unanswered, StoreInv, same, unsold, Runners
<1>9. CodeInv'
  BY <1>1 DEF IInv, CodeInv, VerifiedIsAnswered, Abort, Released, Unanswered, same, unsold
<1> QED BY <1>3, <1>4, <1>5, <1>6, <1>7, <1>8, <1>9 DEF IInv, TypeInv

LEMMA NextIInv == IInv /\ [Next]_vars => IInv'
<1> SUFFICES ASSUME IInv, [Next]_vars PROVE IInv'
  OBVIOUS
<1>1. CASE UNCHANGED vars
  <2>1. SetupInv' /\ JobInv' /\ StoreInv' /\ RunInv' /\ ProviderInv'
    BY <1>1 DEF IInv, TypeInv, vars, SetupInv, JobInv, StoreInv, RunInv, RowInv, ProviderInv
  <2>2. LockInv' /\ CodeInv'
    BY <1>1 DEF IInv, vars, LockInv, CodeInv, VerifiedIsAnswered
  <2> QED BY <2>1, <2>2 DEF IInv, TypeInv
<1>2. CASE CustomerStep \/ OperatorStep \/ NextAttempt
  BY <1>2, SetBusinessNumberInv, StartVerificationInv, ConfirmVerificationInv, VerifyManuallyInv,
     PutDocumentsInv,
     ReviewBeginsInv, ReviewEndsInv, NextAttemptInv DEF CustomerStep, OperatorStep
<1>3. CASE Begins
  BY <1>3, ConnectInv, OperatorRunInv, WorkerLoadsInv, WorkerLetsGoInv DEF Begins
<1>4. ASSUME NEW r \in Runners, Proceeds(r)
      PROVE  IInv'
  BY <1>4, TakeSetupInv, TakeJobInv, HasAccountInv, DocumentsInv, AdoptNumberInv, ReconcileInv,
     NoCountryInv, StartPurchaseInv, BuyInv, ImportInv, CommitInv DEF Proceeds
<1>5. ASSUME NEW r \in Runners, Fails(r)
      PROVE  IInv'
  BY <1>5, AccountFailsInv, BuyFailsInv, ImportFailsInv, LookupFailsInv, AbortInv DEF Fails, Crash
<1>6. ASSUME NEW r \in Runners, NEW q \in Runners, Deadlock(r, q) \/ ReviewDeadlock(q)
      PROVE  IInv'
  BY <1>6, AbortInv, ReviewLetsGoInv DEF Deadlock, ReviewDeadlock
<1>7. ASSUME NEW n \in Sold, ListNumber(n)
      PROVE  IInv'
  BY <1>7, ListNumberInv
<1> QED BY <1>1, <1>2, <1>3, <1>4, <1>5, <1>6, <1>7 DEF Next

-----------------------------------------------------------------------------
(* The mark of a purchase.                                                  *)

\* A run with the mark flushed, which its commit will write.
Carries(x) == x.at \in {"import", "commit"} /\ "state" \in x.adds /\ "purchase_started" \in x.job.state

MarkInv ==
    /\ \A r \in Runners : run[r].at = "buy" =>
            "state" \in run[r].adds /\ "purchase_started" \in run[r].job.state
    /\ lost = {} =>
        /\ \A m, n \in twilio.bought : m = n
        /\ \A r \in Runners : run[r].at = "buy" => twilio.bought = {}
        /\ twilio.bought # {} =>
            "purchase_started" \in job.state \/ \E r \in Runners : Carries(run[r])

LEMMA InitMarkInv == Init => MarkInv
BY DEF Init, MarkInv, Idle

\* What neither sells, nor writes the job's state, nor moves a run.
LEMMA MarkStays ==
    ASSUME MarkInv, UNCHANGED <<run, lost>>, twilio'.bought = twilio.bought, job'.state = job.state
    PROVE  MarkInv'
BY DEF MarkInv, Carries

\* A run that moves on, though not to a purchase, and keeps the mark it carries.
LEMMA MarkMoves ==
    ASSUME RunInv, MarkInv, NEW r \in Runners, NEW x, Moves(r, x),
           lost' = lost, twilio'.bought = twilio.bought, job'.state = job.state,
           x.at # "buy", Carries(run[r]) => Carries(x)
    PROVE  MarkInv'
<1>1. run'[r] = x /\ \A q \in Runners : q # r => run'[q] = run[q]
  BY DEF RunInv, Moves
<1> HIDE DEF Carries
<1>2. ASSUME NEW q \in Runners, Carries(run[q]) PROVE Carries(run'[q])
  BY <1>1, <1>2
<1>3. (\E q \in Runners : Carries(run[q])) => \E q \in Runners : Carries(run'[q])
  BY <1>2
<1> QED BY <1>1, <1>3 DEF MarkInv, Carries

LEMMA MarkEnds ==
    ASSUME RunInv, MarkInv, NEW r \in Runners, NEW status, Ends(r, status, run[r].job.state),
           lost' = lost, twilio'.bought = twilio.bought, job'.state = job.state
    PROVE  MarkInv'
<1> DEFINE x == [run[r] EXCEPT !.at = "commit", !.job.status = status, !.job.due = FALSE,
                               !.job.state = run[r].job.state]
<1>1. run[r] \in RunRows
  BY DEF RunInv
<1>2. x.at = "commit" /\ x.adds = run[r].adds /\ x.job.state = run[r].job.state
  BY <1>1 DEF RunRows, JobRows
<1>3. Moves(r, x)
  BY DEF Ends, Moves
<1> HIDE DEF x
<1> QED BY <1>2, <1>3, MarkMoves DEF Carries

LEMMA MarkLoads ==
    ASSUME RunInv, MarkInv, NEW r \in Runners, run[r].at = "idle",
           NEW row, NEW copy, run' = [run EXCEPT ![r] = [Idle EXCEPT !.at = "loaded", !.seen = row, !.job = copy]],
           lost' = lost, twilio'.bought = twilio.bought, job'.state = job.state
    PROVE  MarkInv'
<1> DEFINE x == [Idle EXCEPT !.at = "loaded", !.seen = row, !.job = copy]
<1>1. x.at = "loaded" /\ Moves(r, x)
  BY DEF Idle, Moves
<1> HIDE DEF x
<1> QED BY <1>1, MarkMoves DEF Carries

LEMMA MarkBegins == TypeInv /\ MarkInv /\ Begins => MarkInv'
<1> SUFFICES ASSUME TypeInv, MarkInv, Begins PROVE MarkInv'
  OBVIOUS
<1>1. RunInv /\ job \in JobRows
  BY DEF TypeInv, JobInv
<1>2. Retried.state = job.state
  BY <1>1 DEF Retried, JobRows
<1>3. ASSUME NEW r \in Requests, Connect(r) PROVE MarkInv'
  <2>1. job'.state = job.state
    BY <1>2, <1>3 DEF Connect, NoJob
  <2> QED BY <1>1, <1>3, <2>1, MarkLoads DEF Connect, Load, Runners
<1>4. ASSUME NEW r \in Requests, OperatorRun(r) PROVE MarkInv'
  <2>1. r \in Runners /\ run[r].at = "idle" /\ UNCHANGED <<lost, twilio, job>>
    BY <1>4 DEF OperatorRun, Runners
  <2>2. \E copy : run' = [run EXCEPT ![r] = [Idle EXCEPT !.at = "loaded", !.seen = job, !.job = copy]]
    BY <1>4 DEF OperatorRun, Load
  <2> QED BY <1>1, <2>1, <2>2, MarkLoads
<1>5. CASE WorkerLoads
  BY <1>1, <1>5, MarkLoads DEF WorkerLoads, Load, Runners
<1>6. CASE WorkerLetsGo
  BY <1>6, MarkStays DEF WorkerLetsGo
<1> QED BY <1>3, <1>4, <1>5, <1>6 DEF Begins

\* The steps of a run before and after its purchase.
LEMMA MarkProceeds ==
    ASSUME TypeInv, MarkInv, NEW r \in Runners,
           \/ TakeSetup(r) \/ TakeJob(r) \/ HasAccount(r) \/ Documents(r)
           \/ AdoptNumber(r) \/ Reconcile(r) \/ NoCountry(r) \/ Import(r)
           \/ AccountFails(r) \/ ImportFails(r) \/ LookupFails(r)
    PROVE  MarkInv'
<1> USE DEF same, unsold, Moves
<1>1. RunInv /\ run[r] \in RunRows /\ twilio \in [accounts : 0..1, bought : SUBSET Sold, listed : SUBSET Sold]
  BY DEF TypeInv, RunInv, ProviderInv
<1>2. CASE TakeSetup(r)
  <2> DEFINE x == [run[r] EXCEPT !.at = "locked", !.job.attempts = IF @ < GiveUp THEN @ + 1 ELSE @]
  <2>1. x.at = "locked" /\ ~Carries(run[r])
    BY <1>1, <1>2 DEF RunRows, TakeSetup, Carries
  <2>2. run' = [run EXCEPT ![r] = x] /\ UNCHANGED <<lost, twilio, job>>
    BY <1>2 DEF TakeSetup
  <2> HIDE DEF x
  <2> QED BY <1>1, <2>1, <2>2, MarkMoves
<1>3. CASE TakeJob(r)
  <2> DEFINE x == [run[r] EXCEPT !.at = "subaccount", !.job.status = "running"]
  <2>1. x.at = "subaccount" /\ ~Carries(run[r])
    BY <1>1, <1>3 DEF RunRows, TakeJob, Carries
  <2>2. run' = [run EXCEPT ![r] = x] /\ UNCHANGED <<lost, twilio, job>>
    BY <1>3 DEF TakeJob
  <2> HIDE DEF x
  <2> QED BY <1>1, <2>1, <2>2, MarkMoves
<1>4. CASE HasAccount(r)
  <2> DEFINE x == [run[r] EXCEPT !.at = "documents", !.adds = @ \cup {"account"},
                                 !.job.state = @ \cup {"subaccount_sid"}]
  <2>1. x.at = "documents" /\ ~Carries(run[r])
    BY <1>1, <1>4 DEF RunRows, HasAccount, Carries
  <2>2. run' = [run EXCEPT ![r] = x] /\ UNCHANGED <<lost, job>>
    BY <1>4 DEF HasAccount
  <2>3. twilio'.bought = twilio.bought
    BY <1>1, <1>4 DEF HasAccount
  <2> HIDE DEF x
  <2> QED BY <1>1, <2>1, <2>2, <2>3, MarkMoves
<1>5. CASE Documents(r)
  <2>1. CASE setup.documents = "approved"
    <3> DEFINE x == [run[r] EXCEPT !.at = "number"]
    <3>1. x.at = "number" /\ ~Carries(run[r])
      BY <1>1, <1>5 DEF RunRows, Documents, Carries
    <3>2. run' = [run EXCEPT ![r] = x] /\ UNCHANGED <<lost, twilio, job>>
      BY <1>5, <2>1 DEF Documents, Goto
    <3> HIDE DEF x
    <3> QED BY <1>1, <3>1, <3>2, MarkMoves
  <2>2. CASE setup.documents # "approved"
    BY <1>1, <1>5, <2>2, MarkEnds DEF Documents
  <2> QED BY <2>1, <2>2
<1>6. CASE AdoptNumber(r)
  <2>1. PICK n \in Listings \ {Nothing} : Has(r, n)
    BY <1>6 DEF AdoptNumber
  <2> DEFINE x == [run[r] EXCEPT !.at = "import", !.number = n, !.adds = @ \cup {"row"},
                                 !.job.state = @ \cup {"number_sid"}]
  <2>2. x.at = "import" /\ ~Carries(run[r])
    BY <1>1, <1>6 DEF RunRows, AdoptNumber, Carries
  <2>3. run' = [run EXCEPT ![r] = x] /\ UNCHANGED <<lost, twilio, job>>
    <3>1. run' = [run EXCEPT ![r] = x]
      BY <2>1 DEF Has
    <3> QED BY <1>6, <3>1 DEF AdoptNumber
  <2> HIDE DEF x
  <2> QED BY <1>1, <2>2, <2>3, MarkMoves
<1>7. CASE Import(r)
  <2> DEFINE x == [run[r] EXCEPT !.at = "commit", !.adds = @ \cup {"imported"},
                                 !.job.status = "succeeded", !.job.due = FALSE]
  <2>1. x.at = "commit" /\ (Carries(run[r]) => Carries(x))
    BY <1>1, <1>7 DEF RunRows, JobRows, Carries
  <2>2. run' = [run EXCEPT ![r] = x] /\ UNCHANGED <<lost, twilio, job>>
    BY <1>7 DEF Import
  <2> HIDE DEF x
  <2> QED BY <1>1, <2>1, <2>2, MarkMoves
<1>8. CASE AccountFails(r)
  BY <1>1, <1>8, MarkEnds DEF AccountFails
<1>9. CASE Reconcile(r) \/ NoCountry(r)
  BY <1>1, <1>9, MarkEnds DEF Reconcile, NoCountry
<1>10. CASE ImportFails(r) \/ LookupFails(r)
  BY <1>1, <1>10, MarkEnds DEF ImportFails, LookupFails
<1> QED BY <1>2, <1>3, <1>4, <1>5, <1>6, <1>7, <1>8, <1>9, <1>10

\* A run that starts a purchase beside another's mark is one with an old copy of the job.
LEMMA MarkStarts ==
    ASSUME TypeInv, LockInv, MarkInv, NEW r \in Runners, StartPurchase(r)
    PROVE  MarkInv'
<1> DEFINE x == [run[r] EXCEPT !.at = "buy", !.adds = @ \cup {"state"},
                               !.job.state = @ \cup {"purchase_started"}]
<1>1. RunInv /\ run[r] \in RunRows
  BY DEF TypeInv, RunInv
<1>2. x.at = "buy" /\ "state" \in x.adds /\ "purchase_started" \in x.job.state
  BY <1>1 DEF RunRows, JobRows
<1>3. run' = [run EXCEPT ![r] = x] /\ UNCHANGED <<twilio, job>>
  BY DEF StartPurchase, unsold
<1> HIDE DEF x
<1>4. run'[r] = x /\ \A q \in Runners : q # r => run'[q] = run[q]
  BY <1>1, <1>3 DEF RunInv
<1>5. run[r].at = "number" /\ "purchase_started" \notin run[r].job.state
  BY DEF StartPurchase, Unbought
<1>6. \A q \in Runners : ~Carries(run[q])
  BY <1>5 DEF LockInv, Holding, Stages, Carries
<1>7. lost' = {} => lost = {} /\ "purchase_started" \notin job.state
  BY <1>5 DEF StartPurchase
<1>8. lost' = {} => twilio.bought = {}
  BY <1>6, <1>7 DEF MarkInv
<1> QED BY <1>2, <1>3, <1>4, <1>7, <1>8 DEF MarkInv

\* A purchase that was answered, or not.
LEMMA MarkBuys ==
    ASSUME TypeInv, LockInv, MarkInv, NEW r \in Runners, Buy(r) \/ BuyFails(r)
    PROVE  MarkInv'
<1>1. RunInv /\ run[r] \in RunRows /\ twilio \in [accounts : 0..1, bought : SUBSET Sold, listed : SUBSET Sold]
  BY DEF TypeInv, RunInv, ProviderInv
<1>2. /\ run[r].at = "buy" /\ "state" \in run[r].adds /\ "purchase_started" \in run[r].job.state
      /\ lost = {} => twilio.bought = {}
      /\ job' = job
  BY DEF Buy, BuyFails, MarkInv, same, unsold
<1>3. \A q \in Runners : q # r => run[q].at # "buy" /\ ~Carries(run[q])
  BY <1>2 DEF LockInv, Holding, Stages, Carries
<1>4. ASSUME NEW x, run' = [run EXCEPT ![r] = x], Carries(x), lost' = lost,
             twilio'.bought = twilio.bought \/ \E n \in Sold : twilio'.bought = twilio.bought \cup {n}
      PROVE  MarkInv'
  <2>1. run'[r] = x /\ \A q \in Runners : q # r => run'[q] = run[q]
    BY <1>1, <1>4 DEF RunInv
  <2>2. \A q \in Runners : run'[q].at # "buy"
    BY <1>3, <1>4, <2>1 DEF Carries
  <2>3. \E q \in Runners : Carries(run'[q])
    BY <1>4, <2>1
  <2> QED BY <1>2, <1>4, <2>2, <2>3 DEF MarkInv, Carries
<1>5. \A n \in Sold : Sale(n) => twilio'.bought = twilio.bought \cup {n}
  BY <1>1 DEF Sale
<1>6. CASE Buy(r)
  <2>1. PICK n \in Sold : Sale(n) /\ Has(r, n)
    BY <1>6 DEF Buy
  <2> DEFINE x == [run[r] EXCEPT !.at = "import", !.number = n, !.adds = @ \cup {"row"},
                                 !.job.state = @ \cup {"number_sid"}]
  <2>2. Carries(x)
    BY <1>1, <1>2 DEF RunRows, JobRows, Carries
  <2>3. run' = [run EXCEPT ![r] = x] /\ lost' = lost
    <3>1. run' = [run EXCEPT ![r] = x]
      BY <2>1 DEF Has
    <3> QED BY <1>6, <3>1 DEF Buy, same
  <2> HIDE DEF x
  <2> QED BY <1>4, <1>5, <2>1, <2>2, <2>3
<1>7. ASSUME NEW status, Ends(r, status, run[r].job.state), lost' = lost,
             twilio' = twilio \/ \E n \in Sold : Sale(n)
      PROVE  MarkInv'
  <2> DEFINE x == [run[r] EXCEPT !.at = "commit", !.job.status = status, !.job.due = FALSE,
                                 !.job.state = run[r].job.state]
  <2>1. Carries(x)
    BY <1>1, <1>2 DEF RunRows, JobRows, Carries
  <2>2. run' = [run EXCEPT ![r] = x]
    BY <1>7 DEF Ends
  <2> HIDE DEF x
  <2> QED BY <1>4, <1>5, <1>7, <2>1, <2>2
\* The mark is cleared: nothing was sold, or it is lost.
<1>8. ASSUME NEW status, Ends(r, status, run[r].job.state \ {"purchase_started"}),
             lost' # {} \/ (lost' = lost /\ twilio' = twilio)
      PROVE  MarkInv'
  <2>1. \A q \in Runners : q # r => run'[q] = run[q]
    BY <1>1, <1>8 DEF RunInv, Ends
  <2>2. run'[r].at = "commit"
    BY <1>1, <1>8 DEF RunInv, RunRows, Ends
  <2>3. \A q \in Runners : run'[q].at # "buy"
    BY <1>3, <2>1, <2>2
  <2> QED BY <1>2, <1>8, <2>3 DEF MarkInv
<1>9. CASE BuyFails(r)
  BY <1>7, <1>8, <1>9 DEF BuyFails
<1> QED BY <1>6, <1>9

\* A run ends: its commit writes the mark, or what it writes over is lost.
LEMMA MarkCommits ==
    ASSUME TypeInv, LockInv, MarkInv, NEW r \in Runners, Commit(r)
    PROVE  MarkInv'
<1>1. RunInv /\ run[r] \in RunRows /\ run[r].job \in JobRows
  BY DEF TypeInv, RunInv, RunRows
<1>2. run[r].at = "commit" /\ job' = WrittenJob(r) /\ twilio' = twilio
  BY DEF Commit
<1>3. run'[r].at = "idle" /\ \A q \in Runners : q # r => run'[q] = run[q]
  BY <1>1 DEF Commit, RunInv, Idle
<1>4. \A q \in Runners : q # r => ~Carries(run[q])
  BY <1>2 DEF LockInv, Holding, Stages, Carries
<1>5. lost' = {} => lost = {} /\ ("purchase_started" \in job.state => "purchase_started" \in job'.state)
  BY <1>2 DEF Commit
<1>6. Carries(run[r]) => "purchase_started" \in job'.state
  BY <1>1, <1>2 DEF WrittenJob, Carries, JobRows
<1>7. lost' = {} /\ twilio.bought # {} => "purchase_started" \in job'.state
  BY <1>4, <1>5, <1>6 DEF MarkInv
<1> QED BY <1>2, <1>3, <1>5, <1>7 DEF MarkInv

\* A run that is rolled back after its purchase has lost the mark.
LEMMA MarkAborts ==
    ASSUME TypeInv, MarkInv, NEW r \in Runners, Abort(r), lost \subseteq lost',
           Carries(run[r]) /\ twilio.bought # {} => lost' # {}
    PROVE  MarkInv'
<1>1. run'[r].at = "idle" /\ \A q \in Runners : q # r => run'[q] = run[q]
  BY DEF TypeInv, RunInv, Abort, Idle
<1>2. UNCHANGED <<twilio, job>>
  BY DEF Abort
<1>3. ASSUME lost' = {} PROVE twilio.bought # {} =>
            "purchase_started" \in job.state \/ \E q \in Runners : Carries(run'[q])
  <2>1. ASSUME NEW q \in Runners, Carries(run[q]), twilio.bought # {} PROVE Carries(run'[q])
    BY <1>1, <1>3, <2>1
  <2> QED BY <1>3, <2>1 DEF MarkInv
<1> QED BY <1>1, <1>2, <1>3 DEF MarkInv, Carries

LEMMA NextMarkInv == IInv /\ MarkInv /\ [Next]_vars => MarkInv'
<1> SUFFICES ASSUME IInv, MarkInv, [Next]_vars PROVE MarkInv'
  OBVIOUS
<1>0. TypeInv /\ LockInv /\ job \in JobRows
  BY DEF IInv, TypeInv, JobInv
<1>1. CASE CustomerStep \/ VerifyManually \/ ReviewBegins \/ UNCHANGED vars
  BY <1>1, MarkStays DEF CustomerStep, SetBusinessNumber, StartVerification, ConfirmVerification,
     PutDocuments, VerifyManually, ReviewBegins, work, vars
<1>2. CASE ReviewEnds \/ NextAttempt
  <2>1. job'.state = job.state /\ UNCHANGED <<run, lost, twilio>>
    BY <1>0, <1>2 DEF ReviewEnds, ReviewLetsGo, NextAttempt, JobRows
  <2> QED BY <2>1, MarkStays
<1>3. ASSUME NEW n \in Sold, ListNumber(n) PROVE MarkInv'
  <2>1. twilio'.bought = twilio.bought /\ UNCHANGED <<run, lost, job>>
    BY <1>0, <1>3 DEF ListNumber, TypeInv, ProviderInv, same, unsold
  <2> QED BY <2>1, MarkStays
<1>4. ASSUME NEW r \in Runners, Proceeds(r) PROVE MarkInv'
  BY <1>0, <1>4, MarkProceeds, MarkStarts, MarkBuys, MarkCommits DEF Proceeds
<1>5. ASSUME NEW r \in Runners, Crash(r) PROVE MarkInv'
  BY <1>0, <1>5, MarkAborts DEF Crash, Carries
<1>6. ASSUME NEW r \in Runners, Fails(r) PROVE MarkInv'
  BY <1>0, <1>5, <1>6, MarkProceeds, MarkBuys DEF Fails
<1>7. ASSUME NEW r \in Runners, NEW q \in Runners, Deadlock(r, q) \/ ReviewDeadlock(q) PROVE MarkInv'
  <2>1. CASE Deadlock(r, q)
    <3>1. ~Carries(run[r]) /\ ~Carries(run[q]) /\ lost' = lost
      BY <2>1 DEF Deadlock, Carries
    <3> QED BY <1>0, <2>1, <3>1, MarkAborts DEF Deadlock
  <2>2. CASE ReviewDeadlock(q)
    <3>1. CASE ReviewLetsGo /\ UNCHANGED job
      BY <3>1, MarkStays DEF ReviewLetsGo
    <3>2. CASE Abort(q) /\ UNCHANGED lost
      <4>1. ~Carries(run[q])
        BY <2>2 DEF ReviewDeadlock, Carries
      <4> QED BY <1>0, <3>2, <4>1, MarkAborts
    <3> QED BY <2>2, <3>1, <3>2 DEF ReviewDeadlock
  <2> QED BY <1>7, <2>1, <2>2
<1> QED BY <1>0, <1>1, <1>2, <1>3, <1>4, <1>6, <1>7, MarkBegins DEF Next, OperatorStep

-----------------------------------------------------------------------------
(* Theorems of the specification.                                            *)

\* The setup, the job, the runs, the locks and the providers keep their types.
THEOREM ProvisioningTypeCorrect == Spec => []TypeOK
<1>1. IInv => TypeOK
  <2> SUFFICES ASSUME IInv PROVE TypeOK
    OBVIOUS
  <2>1. SetupInv /\ JobInv /\ StoreInv /\ RunInv /\ ProviderInv
    BY DEF IInv, TypeInv
  <2>2. \A r \in Runners : run[r].at \in Stages /\ run[r].number \in Sold \cup {Nothing}
    BY <2>1 DEF RunInv, RunRows
  <2>3. /\ setup.number \in Numbers \cup {Nothing} /\ setup.code \in 0..MaxCodes
        /\ setup.verified_by \in {"nobody", "code_call", "operator"}
        /\ setup.documents \in {"missing", "submitted", "approved", "rejected"}
        /\ setup.destination \in Sold \cup {Nothing}
        /\ heard \subseteq 1..MaxCodes
        /\ codes \in 0..MaxCodes /\ changes \in 0..MaxChanges /\ faults \in 0..MaxFaults
    BY <2>1 DEF SetupInv, SetupRows
  <2>4. /\ job.status \in {"none"} \cup (Statuses \ {"running"}) /\ job.state \subseteq Progress
        /\ job.attempts \in Nat /\ job.due \in BOOLEAN
    BY <2>1 DEF JobInv, JobRows
  <2>5. /\ stored.account \in BOOLEAN /\ stored.imported \subseteq stored.rows
        /\ stored.rows \subseteq Sold
        /\ locks.setup \in Runners \cup {Nothing, Reviewer} /\ locks.job \in Runners \cup {Nothing}
    BY <2>1 DEF StoreInv
  <2>6. /\ twilio.accounts \in Nat /\ twilio.bought \subseteq Sold /\ twilio.listed \subseteq twilio.bought
        /\ imports \in [Sold -> Nat] /\ lost \subseteq {"died", "broken", "overwritten", "stale"}
    BY <2>1 DEF ProviderInv
  <2> QED BY <2>2, <2>3, <2>4, <2>5, <2>6 DEF TypeOK
<1> QED BY <1>1, InitIInv, NextIInv, PTL DEF Spec

\* One sub-account, one import of each number, and one number, unless the mark of a purchase was
\* lost or not seen, for any number of runners, any failures, and however late Twilio lists what
\* it has sold (telephony/platform.py run_job).
THEOREM NothingBoughtTwice == Spec => []BuysOnce
<1>1. IInv /\ MarkInv => BuysOnce
  <2> SUFFICES ASSUME IInv, MarkInv, lost = {} PROVE Cardinality(twilio.bought) <= 1
    BY DEF IInv, TypeInv, ProviderInv, BuysOnce
  <2>1. \A m, n \in twilio.bought : m = n
    BY DEF MarkInv
  <2>2. ASSUME twilio.bought = {}
        PROVE  Cardinality(twilio.bought) <= 1
    <3>1. Cardinality(twilio.bought) = 0
      BY <2>2, FS_EmptySet
    <3> QED BY <3>1
  <2>3. ASSUME NEW n \in twilio.bought
        PROVE  Cardinality(twilio.bought) <= 1
    <3>1. twilio.bought = {n}
      BY <2>1
    <3>2. Cardinality(twilio.bought) = 1
      BY <3>1, FS_Singleton
    <3> QED BY <3>2
  <2> QED BY <2>2, <2>3
<1> QED BY <1>1, InitIInv, NextIInv, InitMarkInv, NextMarkInv, PTL DEF Spec

\* A number counts as verified by a code only where the code was heard on it, though the
\* number may be changed at any time between the call and the code
\* (telephony/platform.py set_business_number, start_verification, confirm_verification).
THEOREM VerifiedNumberAnswered == Spec => []VerifiedIsAnswered
<1>1. IInv => VerifiedIsAnswered
  BY DEF IInv, CodeInv
<1> QED BY <1>1, InitIInv, NextIInv, PTL DEF Spec

=============================================================================
