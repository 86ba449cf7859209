------------------------- MODULE CommissionsProofs -------------------------
(***************************************************************************)
(* Theorems about Commissions, for any months, processes, amounts and bounds. *)
(* MonthInv and CreationInv say how far Stripe's invoice is where a creation    *)
(* stands; HandlingInv that an event read with a row still finds one; EntryInv   *)
(* that an entry is made once and stays; CoverInv that what a pending or paid     *)
(* payout was created for carries its number.  AmountsInv bounds every   *)
(* amount by what was earned for its line, PaidOutInv a payout by the sum over     *)
(* the lines it was created for.                                              *)
(***************************************************************************)
EXTENDS Commissions, FiniteSetTheorems, TLAPS

EventRows == [type : Types, month : Months, status : AtStripe, taken : Int]

InvoicesInv ==
    /\ invoice \in [Months -> Statuses \cup {"absent"}]
    /\ creation \in [Creators -> [stage : Stages, month : Months \cup {0}]]
    /\ stripe \in [Months -> [status : AtStripe \cup {"none"}, lined : BOOLEAN, answered : BOOLEAN]]
    /\ charge \in [Months -> [refunded : Int, credited : Int]]
    /\ keys \in [Months -> SUBSET Posts]
    /\ made \in [Months -> Nat]

EventsInv ==
    /\ events \subseteq EventRows
    /\ handling \in [Webhooks -> [event : EventRows \cup {NoEvent}, was : Statuses \cup {"absent"}]]

MonthInv ==
    \A m \in Months :
        /\ made[m] = IF Present(m) \/ "lines" \in keys[m] THEN 1 ELSE 0
        /\ keys[m] # {} => stripe[m].status # "none" /\ ~Present(m)
        /\ stripe[m].answered => stripe[m].status \notin {"none", "draft"}
        /\ Present(m) => stripe[m].lined /\ stripe[m].status \notin {"none", "draft"}

CreationInv ==
    \A c \in Creators :
        LET m == creation[c].month IN
        /\ creation[c].stage # "idle" => m \in Months
        /\ HoldsAccount(c) => ~Present(m) /\ \A d \in Creators : HoldsAccount(d) => d = c
        /\ creation[c].stage \in {"posted", "lined", "finalized"} => stripe[m].status # "none"
        /\ creation[c].stage \in {"lined", "finalized"} => stripe[m].lined
        /\ creation[c].stage = "finalized" => stripe[m].status # "draft"

HandlingInv ==
    \A w \in Webhooks : handling[w].was # "absent" => Busy(w) /\ Present(handling[w].event.month)

\* Whatever the sums are: the fields that are not said to be of a set are any value.
Owners == Ambassadors \cup {NoOne}

EntryRow(e) ==
    /\ e = [status |-> e.status, of |-> e.of, amount |-> e.amount, payout |-> e.payout]
    /\ e.status \in {"none", "held", "payable", "paid", "reversed"} /\ e.payout \in 0..MaxPayouts
    /\ e.of \in Owners

ReversalRow(r) ==
    /\ r = [month |-> r.month, ref |-> r.ref, of |-> r.of, amount |-> r.amount, status |-> r.status,
            payout |-> r.payout]
    /\ r.month \in Months /\ r.ref \in Refs /\ r.of \in Owners /\ r.payout \in 0..MaxPayouts

PayoutRow(x) == x = [status |-> x.status, of |-> x.of, amount |-> x.amount] /\ x.of \in Owners

PlanRow(x) ==
    x = [of |-> x.of, made |-> x.made, first |-> x.first, left |-> x.left, claw |-> x.claw] /\ x.of \in Owners

LedgerInv ==
    /\ entry = [l \in Lines |-> entry[l]] /\ \A l \in Lines : EntryRow(entry[l])
    /\ \A r \in reversal : ReversalRow(r)
    /\ payout = [p \in Payouts |-> payout[p]] /\ \A p \in Payouts : PayoutRow(payout[p])
    /\ plan = [w \in Webhooks |-> plan[w]] /\ \A w \in Webhooks : PlanRow(plan[w])
    /\ referral \in Owners
    /\ accruals \in [Lines -> Nat]
    /\ covered = [p \in Payouts |-> covered[p]]

EntryInv ==
    /\ \A l \in Lines :
        /\ accruals[l] = IF Made(l) THEN 1 ELSE 0
        /\ entry[l].payout # 0 => Made(l)
    /\ \A l \in releasing : l \in Lines /\ Made(l)

PlanInv ==
    \A w \in Webhooks :
        /\ handling[w].was = "absent" => plan[w] = NoPlan
        /\ plan[w].claw # 0 => IsReturn(handling[w].event)
        /\ \A k \in DOMAIN plan[w].left : k \in Kinds /\ Busy(w) /\ Made(<<handling[w].event.month, k>>)

ReversalInv ==
    \A r, s \in reversal : r.month = s.month /\ r.ref = s.ref => r = s

InForce(p) == payout[p].status \in {"pending", "paid"}

Carries(l, p) ==
    \/ l \in Lines /\ entry[l].payout = p
    \/ \E r \in reversal : l = <<r.month, r.ref>> /\ r.payout = p

CoverInv == \A p \in Payouts : InForce(p) => \A l \in covered[p] : Carries(l, p)

ChargeInv == InvoicesInv /\ EventsInv /\ MonthInv /\ CreationInv /\ HandlingInv

BookInv == LedgerInv /\ EntryInv /\ PlanInv /\ ReversalInv /\ CoverInv

-----------------------------------------------------------------------------
(* The creation of an invoice, and Stripe.                                   *)

LEMMA StageKeeps ==
    ASSUME InvoicesInv, NEW c \in Creators, NEW to \in Stages, Stage(c, to)
    PROVE  creation' \in [Creators -> [stage : Stages, month : Months \cup {0}]]
BY DEF InvoicesInv, Stage

LEMMA BeginInv ==
    ASSUME ChargeInv, NEW c \in Creators, NEW m \in Months, Begin(c, m)
    PROVE  ChargeInv'
<1> USE DEF Begin, Idle, HoldsAccount
<1>1. InvoicesInv /\ EventsInv /\ MonthInv /\ CreationInv /\ HandlingInv
  BY DEF ChargeInv
<1>3. InvoicesInv'
  BY <1>1, InvoicingAssumption DEF InvoicesInv, Stages, Statuses, AtStripe
<1>4. EventsInv'
  BY <1>1, InvoicingAssumption DEF EventsInv, InvoicesInv, EventRows, AtStripe, Statuses
<1>5. MonthInv'
  BY <1>1, InvoicingAssumption DEF MonthInv, CreationInv, InvoicesInv, Present, AtStripe
<1>6. CreationInv'
  BY <1>1, InvoicingAssumption DEF MonthInv, CreationInv, InvoicesInv, Present, Stages, AtStripe
<1>7. HandlingInv'
  BY <1>1, InvoicingAssumption DEF HandlingInv, EventsInv, InvoicesInv, Present, Busy
<1> QED BY <1>3, <1>4, <1>5, <1>6, <1>7 DEF ChargeInv

LEMMA ReserveInv ==
    ASSUME ChargeInv, NEW c \in Creators, Reserve(c)
    PROVE  ChargeInv'
<1> USE DEF Reserve, Stage, Idle, HoldsAccount
<1>1. InvoicesInv /\ EventsInv /\ MonthInv /\ CreationInv /\ HandlingInv
  BY DEF ChargeInv
<1>2. creation[c].month \in Months
  BY <1>1 DEF CreationInv, InvoicesInv, Stages
<1>3. InvoicesInv'
  <2>1. creation' \in [Creators -> [stage : Stages, month : Months \cup {0}]]
    <3>1. CASE Present(creation[c].month)
      BY <1>1, <3>1 DEF InvoicesInv, Stages
    <3>2. CASE ~Present(creation[c].month)
      BY <1>1, <3>2, StageKeeps DEF Stages
    <3> QED BY <3>1, <3>2
  <2>2. stripe' \in [Months -> [status : AtStripe \cup {"none"}, lined : BOOLEAN, answered : BOOLEAN]]
    BY <1>1, <1>2 DEF InvoicesInv, AtStripe
  <2> QED BY <1>1, <1>2, <2>1, <2>2 DEF InvoicesInv
<1>4. EventsInv'
  BY <1>1, <1>2, InvoicingAssumption DEF EventsInv, InvoicesInv, EventRows, AtStripe, Statuses
<1>5. MonthInv'
  BY <1>1, <1>2, InvoicingAssumption DEF MonthInv, CreationInv, InvoicesInv, Present, AtStripe
<1>6. CreationInv'
  BY <1>1, <1>2, InvoicingAssumption DEF MonthInv, CreationInv, InvoicesInv, Present, Stages, AtStripe
<1>7. HandlingInv'
  BY <1>1, <1>2, InvoicingAssumption DEF HandlingInv, EventsInv, InvoicesInv, Present, Busy
<1> QED BY <1>3, <1>4, <1>5, <1>6, <1>7 DEF ChargeInv

LEMMA PostInvoiceInv ==
    ASSUME ChargeInv, NEW c \in Creators, PostInvoice(c)
    PROVE  ChargeInv'
<1> USE DEF PostInvoice, Stage, HoldsAccount
<1> DEFINE m == creation[c].month
<1>1. InvoicesInv /\ EventsInv /\ MonthInv /\ CreationInv /\ HandlingInv
  BY DEF ChargeInv
<1>2. m \in Months /\ creation[c].stage = "reserved" /\ UNCHANGED <<invoice, made>>
  BY <1>1 DEF CreationInv
<1>3. /\ creation' \in [Creators -> [stage : Stages, month : Months \cup {0}]]
      /\ creation'[c].stage = "posted" /\ creation'[c].month = m
      /\ \A d \in Creators : d # c => creation'[d] = creation[d]
  <2>1. "posted" \in Stages /\ Stage(c, "posted")
    BY DEF Stages
  <2> QED BY <1>1, <2>1, StageKeeps DEF InvoicesInv
<1>4. CASE "invoice" \in keys[m]
  <2>1. UNCHANGED <<stripe, keys, charge, events, handling>>
    BY <1>4
  <2>2. InvoicesInv' /\ EventsInv' /\ MonthInv' /\ HandlingInv'
    BY <1>1, <1>2, <1>3, <2>1 DEF InvoicesInv, EventsInv, MonthInv, HandlingInv, Present, Busy
  <2>3. CreationInv'
    BY <1>1, <1>2, <1>3, <1>4, <2>1 DEF CreationInv, MonthInv, Present
  <2> QED BY <2>2, <2>3 DEF ChargeInv
<1>5. CASE "invoice" \notin keys[m]
  <2>1. /\ stripe' = [stripe EXCEPT ![m] = [status |-> "draft", lined |-> FALSE, answered |-> FALSE]]
        /\ keys' = [keys EXCEPT ![m] = @ \cup {"invoice"}]
        /\ charge' = [charge EXCEPT ![m] = [refunded |-> 0, credited |-> 0]]
        /\ events' \subseteq events
        /\ handling' = [w \in Webhooks |-> IF handling[w].event.month = m THEN NoHandling ELSE handling[w]]
    BY <1>5 DEF Known
  <2>2. InvoicesInv'
    <3>1. stripe' \in [Months -> [status : AtStripe \cup {"none"}, lined : BOOLEAN, answered : BOOLEAN]]
      BY <1>1, <1>2, <2>1 DEF InvoicesInv, AtStripe
    <3>2. keys' \in [Months -> SUBSET Posts]
      BY <1>1, <1>2, <2>1 DEF InvoicesInv, Posts
    <3>3. charge' \in [Months -> [refunded : Int, credited : Int]]
      BY <1>1, <1>2, <2>1 DEF InvoicesInv
    <3> QED BY <1>1, <1>2, <1>3, <3>1, <3>2, <3>3 DEF InvoicesInv
  <2>3. EventsInv' /\ HandlingInv'
    BY <1>1, <1>2, <2>1 DEF EventsInv, HandlingInv, NoHandling, Present, Busy
  <2>4. /\ stripe'[m] = [status |-> "draft", lined |-> FALSE, answered |-> FALSE]
        /\ keys'[m] = keys[m] \cup {"invoice"}
        /\ \A n \in Months : n # m => stripe'[n] = stripe[n] /\ keys'[n] = keys[n]
    BY <1>1, <1>2, <2>1 DEF InvoicesInv
  <2>5. ~Present(m) /\ \A d \in Creators : HoldsAccount(d) => d = c
    BY <1>1, <1>2 DEF CreationInv
  <2>6. MonthInv'
    BY <1>1, <1>2, <2>4, <2>5 DEF MonthInv, Present
  <2>7. CreationInv'
    BY <1>1, <1>2, <1>3, <2>4, <2>5 DEF CreationInv, Present
  <2> QED BY <2>2, <2>3, <2>6, <2>7 DEF ChargeInv
<1> QED BY <1>4, <1>5

LEMMA PostLinesInv ==
    ASSUME ChargeInv, NEW c \in Creators, PostLines(c)
    PROVE  ChargeInv'
<1> USE DEF PostLines, Stage, Known, HoldsAccount
<1>1. InvoicesInv /\ EventsInv /\ MonthInv /\ CreationInv /\ HandlingInv
  BY DEF ChargeInv
<1>2. creation[c].month \in Months
  BY <1>1 DEF CreationInv, InvoicesInv, Stages
<1>3. InvoicesInv'
  <2>1. creation' \in [Creators -> [stage : Stages, month : Months \cup {0}]]
    <3>1. "lined" \in Stages /\ Stage(c, "lined")
      BY DEF Stages
    <3> QED BY <1>1, <3>1, StageKeeps
  <2>2. stripe' \in [Months -> [status : AtStripe \cup {"none"}, lined : BOOLEAN, answered : BOOLEAN]]
    BY <1>1, <1>2 DEF InvoicesInv, AtStripe
  <2>3. keys' \in [Months -> SUBSET Posts] /\ made' \in [Months -> Nat]
    BY <1>1, <1>2 DEF InvoicesInv, Posts
  <2> QED BY <1>1, <1>2, <2>1, <2>2, <2>3 DEF InvoicesInv
<1>4. EventsInv'
  BY <1>1, <1>2, InvoicingAssumption DEF EventsInv, InvoicesInv, EventRows, AtStripe, Statuses
<1>5. MonthInv'
  BY <1>1, <1>2, InvoicingAssumption DEF MonthInv, CreationInv, InvoicesInv, Present, AtStripe
<1>6. CreationInv'
  BY <1>1, <1>2, InvoicingAssumption DEF MonthInv, CreationInv, InvoicesInv, Present, Stages, AtStripe
<1>7. HandlingInv'
  BY <1>1, <1>2, InvoicingAssumption DEF HandlingInv, EventsInv, InvoicesInv, Present, Busy
<1> QED BY <1>3, <1>4, <1>5, <1>6, <1>7 DEF ChargeInv

LEMMA PostFinalizeInv ==
    ASSUME ChargeInv, NEW c \in Creators, PostFinalize(c)
    PROVE  ChargeInv'
<1> USE DEF PostFinalize, Stage, EventOf, Known, HoldsAccount
<1>1. InvoicesInv /\ EventsInv /\ MonthInv /\ CreationInv /\ HandlingInv
  BY DEF ChargeInv
<1>2. creation[c].month \in Months
  BY <1>1 DEF CreationInv, InvoicesInv, Stages
<1>3. InvoicesInv'
  <2>1. creation' \in [Creators -> [stage : Stages, month : Months \cup {0}]]
    <3>1. "finalized" \in Stages /\ Stage(c, "finalized")
      BY DEF Stages
    <3> QED BY <1>1, <3>1, StageKeeps
  <2> DEFINE m == creation[c].month
             Rows == [status : AtStripe \cup {"none"}, lined : BOOLEAN, answered : BOOLEAN]
             half == [stripe EXCEPT ![m].answered = TRUE]
             becomes == IF half[m].status = "draft" THEN "open" ELSE half[m].status
  <2>2. half \in [Months -> Rows]
    BY <1>1, <1>2 DEF InvoicesInv
  <2>3. becomes \in AtStripe \cup {"none"}
    BY <1>2, <2>2 DEF AtStripe
  <2>4. stripe' = [half EXCEPT ![m].status = becomes]
    OBVIOUS
  <2>6. keys' \in [Months -> SUBSET Posts]
    BY <1>1, <1>2 DEF InvoicesInv, Posts
  <2> HIDE DEF half, becomes
  <2>5. stripe' \in [Months -> Rows]
    BY <1>2, <2>2, <2>3, <2>4
  <2> QED BY <1>1, <1>2, <2>1, <2>5, <2>6 DEF InvoicesInv
<1>4. EventsInv'
  BY <1>1, <1>2, InvoicingAssumption DEF EventsInv, InvoicesInv, EventRows, AtStripe, Statuses
<1>5. MonthInv'
  BY <1>1, <1>2, InvoicingAssumption DEF MonthInv, CreationInv, InvoicesInv, Present, AtStripe
<1>6. CreationInv'
  BY <1>1, <1>2, InvoicingAssumption DEF MonthInv, CreationInv, InvoicesInv, Present, Stages, AtStripe
<1>7. HandlingInv'
  BY <1>1, <1>2, InvoicingAssumption DEF HandlingInv, EventsInv, InvoicesInv, Present, Busy
<1> QED BY <1>3, <1>4, <1>5, <1>6, <1>7 DEF ChargeInv

LEMMA CommitInvoiceInv ==
    ASSUME ChargeInv, NEW c \in Creators, CommitInvoice(c)
    PROVE  ChargeInv'
<1> USE DEF CommitInvoice, Idle, HoldsAccount
<1>1. InvoicesInv /\ EventsInv /\ MonthInv /\ CreationInv /\ HandlingInv
  BY DEF ChargeInv
<1>2. creation[c].month \in Months
  BY <1>1 DEF CreationInv, InvoicesInv, Stages
<1>3. InvoicesInv'
  BY <1>1, <1>2, InvoicingAssumption DEF InvoicesInv, Stages, Statuses, AtStripe
<1>4. EventsInv'
  BY <1>1, <1>2, InvoicingAssumption DEF EventsInv, InvoicesInv, EventRows, AtStripe, Statuses
<1>5. MonthInv'
  BY <1>1, <1>2, InvoicingAssumption DEF MonthInv, CreationInv, InvoicesInv, Present, AtStripe
<1>6. CreationInv'
  BY <1>1, <1>2, InvoicingAssumption DEF MonthInv, CreationInv, InvoicesInv, Present, Stages, AtStripe
<1>7. HandlingInv'
  BY <1>1, <1>2, InvoicingAssumption DEF HandlingInv, EventsInv, InvoicesInv, Present, Busy
<1> QED BY <1>3, <1>4, <1>5, <1>6, <1>7 DEF ChargeInv

LEMMA AbandonInv ==
    ASSUME ChargeInv, NEW c \in Creators, Abandon(c)
    PROVE  ChargeInv'
<1> USE DEF Abandon, Idle, HoldsAccount
<1>1. InvoicesInv /\ EventsInv /\ MonthInv /\ CreationInv /\ HandlingInv
  BY DEF ChargeInv
<1>3. InvoicesInv'
  BY <1>1, InvoicingAssumption DEF InvoicesInv, Stages, Statuses, AtStripe
<1>4. EventsInv'
  BY <1>1, InvoicingAssumption DEF EventsInv, InvoicesInv, EventRows, AtStripe, Statuses
<1>5. MonthInv'
  BY <1>1, InvoicingAssumption DEF MonthInv, CreationInv, InvoicesInv, Present, AtStripe
<1>6. CreationInv'
  BY <1>1, InvoicingAssumption DEF MonthInv, CreationInv, InvoicesInv, Present, Stages, AtStripe
<1>7. HandlingInv'
  BY <1>1, InvoicingAssumption DEF HandlingInv, EventsInv, InvoicesInv, Present, Busy
<1> QED BY <1>3, <1>4, <1>5, <1>6, <1>7 DEF ChargeInv

LEMMA KeysRunOutInv ==
    ASSUME ChargeInv, NEW m \in Months, KeysRunOut(m)
    PROVE  ChargeInv'
<1> USE DEF KeysRunOut, HoldsAccount
<1>1. InvoicesInv /\ EventsInv /\ MonthInv /\ CreationInv /\ HandlingInv
  BY DEF ChargeInv
<1>2. PICK out \in SUBSET keys[m] :
        /\ out # {}
        /\ keys' = [keys EXCEPT ![m] = @ \ out]
        /\ made' = IF "lines" \in out THEN [made EXCEPT ![m] = 0] ELSE made
  OBVIOUS
<1>3. UNCHANGED <<invoice, creation, stripe, charge, events, handling>>
  OBVIOUS
<1>4. /\ keys' \in [Months -> SUBSET Posts] /\ made' \in [Months -> Nat]
      /\ keys'[m] = keys[m] \ out /\ made'[m] = IF "lines" \in out THEN 0 ELSE made[m]
      /\ \A n \in Months : n # m => keys'[n] = keys[n] /\ made'[n] = made[n]
  BY <1>1, <1>2 DEF InvoicesInv
<1>5. InvoicesInv' /\ EventsInv' /\ CreationInv' /\ HandlingInv'
  BY <1>1, <1>3, <1>4 DEF InvoicesInv, EventsInv, CreationInv, HandlingInv, Present, Busy
<1>6. MonthInv'
  BY <1>1, <1>2, <1>3, <1>4 DEF MonthInv, Present
<1> QED BY <1>5, <1>6 DEF ChargeInv

LEMMA AutoAdvanceInv ==
    ASSUME ChargeInv, NEW m \in Months, AutoAdvance(m)
    PROVE  ChargeInv'
<1> USE DEF AutoAdvance, Emits, HoldsAccount
<1>1. InvoicesInv /\ EventsInv /\ MonthInv /\ CreationInv /\ HandlingInv
  BY DEF ChargeInv
<1>3. InvoicesInv'
  BY <1>1, InvoicingAssumption DEF InvoicesInv, Stages, Statuses, AtStripe
<1>4. EventsInv'
  <2>1. EventOf(m, "finalized", "open") \in EventRows
    BY DEF EventOf, EventRows, Types, AtStripe
  <2>2. events' = events \cup {EventOf(m, "finalized", "open")}
    OBVIOUS
  <2>3. UNCHANGED handling
    OBVIOUS
  <2> QED BY <1>1, <2>1, <2>2, <2>3 DEF EventsInv
<1>5. MonthInv'
  BY <1>1, InvoicingAssumption DEF MonthInv, CreationInv, InvoicesInv, Present, AtStripe
<1>6. CreationInv'
  BY <1>1, InvoicingAssumption DEF MonthInv, CreationInv, InvoicesInv, Present, Stages, AtStripe
<1>7. HandlingInv'
  BY <1>1, InvoicingAssumption DEF HandlingInv, EventsInv, InvoicesInv, Present, Busy
<1> QED BY <1>3, <1>4, <1>5, <1>6, <1>7 DEF ChargeInv

LEMMA PaymentFailsInv ==
    ASSUME ChargeInv, NEW m \in Months, PaymentFails(m)
    PROVE  ChargeInv'
<1> USE DEF PaymentFails, Emits, HoldsAccount
<1>1. InvoicesInv /\ EventsInv /\ MonthInv /\ CreationInv /\ HandlingInv
  BY DEF ChargeInv
<1>3. InvoicesInv'
  BY <1>1, InvoicingAssumption DEF InvoicesInv, Stages, Statuses, AtStripe
<1>4. EventsInv'
  <2>1. EventOf(m, "payment_failed", "open") \in EventRows
    BY DEF EventOf, EventRows, Types, AtStripe
  <2>2. events' = events \cup {EventOf(m, "payment_failed", "open")}
    OBVIOUS
  <2>3. UNCHANGED handling
    OBVIOUS
  <2> QED BY <1>1, <2>1, <2>2, <2>3 DEF EventsInv
<1>5. MonthInv'
  BY <1>1, InvoicingAssumption DEF MonthInv, CreationInv, InvoicesInv, Present, AtStripe
<1>6. CreationInv'
  BY <1>1, InvoicingAssumption DEF MonthInv, CreationInv, InvoicesInv, Present, Stages, AtStripe
<1>7. HandlingInv'
  BY <1>1, InvoicingAssumption DEF HandlingInv, EventsInv, InvoicesInv, Present, Busy
<1> QED BY <1>3, <1>4, <1>5, <1>6, <1>7 DEF ChargeInv

LEMMA PayInv ==
    ASSUME ChargeInv, NEW m \in Months, Pay(m)
    PROVE  ChargeInv'
<1> USE DEF Pay, Emits, HoldsAccount
<1>1. InvoicesInv /\ EventsInv /\ MonthInv /\ CreationInv /\ HandlingInv
  BY DEF ChargeInv
<1>3. InvoicesInv'
  BY <1>1, InvoicingAssumption DEF InvoicesInv, Stages, Statuses, AtStripe
<1>4. EventsInv'
  <2>1. EventOf(m, "paid", "paid") \in EventRows /\ EventOf(m, "payment_succeeded", "paid") \in EventRows
    BY DEF EventOf, EventRows, Types, AtStripe
  <2>2. events' = events \cup {EventOf(m, "paid", "paid"), EventOf(m, "payment_succeeded", "paid")}
    OBVIOUS
  <2>3. UNCHANGED handling
    OBVIOUS
  <2> QED BY <1>1, <2>1, <2>2, <2>3 DEF EventsInv
<1>5. MonthInv'
  BY <1>1, InvoicingAssumption DEF MonthInv, CreationInv, InvoicesInv, Present, AtStripe
<1>6. CreationInv'
  BY <1>1, InvoicingAssumption DEF MonthInv, CreationInv, InvoicesInv, Present, Stages, AtStripe
<1>7. HandlingInv'
  BY <1>1, InvoicingAssumption DEF HandlingInv, EventsInv, InvoicesInv, Present, Busy
<1> QED BY <1>3, <1>4, <1>5, <1>6, <1>7 DEF ChargeInv

LEMMA GiveUpOnInv ==
    ASSUME ChargeInv, NEW m \in Months, NEW status \in {"void", "uncollectible"}, GiveUpOn(m, status)
    PROVE  ChargeInv'
<1> USE DEF GiveUpOn, Emits, HoldsAccount
<1>1. InvoicesInv /\ EventsInv /\ MonthInv /\ CreationInv /\ HandlingInv
  BY DEF ChargeInv
<1>3. InvoicesInv'
  BY <1>1, InvoicingAssumption DEF InvoicesInv, Stages, Statuses, AtStripe
<1>4. EventsInv'
  <2>1. EventOf(m, "given_up", status) \in EventRows
    BY DEF EventOf, EventRows, Types, AtStripe
  <2>2. events' = events \cup {EventOf(m, "given_up", status)}
    OBVIOUS
  <2>3. UNCHANGED handling
    OBVIOUS
  <2> QED BY <1>1, <2>1, <2>2, <2>3 DEF EventsInv
<1>5. MonthInv'
  BY <1>1, InvoicingAssumption DEF MonthInv, CreationInv, InvoicesInv, Present, AtStripe
<1>6. CreationInv'
  BY <1>1, InvoicingAssumption DEF MonthInv, CreationInv, InvoicesInv, Present, Stages, AtStripe
<1>7. HandlingInv'
  BY <1>1, InvoicingAssumption DEF HandlingInv, EventsInv, InvoicesInv, Present, Busy
<1> QED BY <1>3, <1>4, <1>5, <1>6, <1>7 DEF ChargeInv

LEMMA RefundInv ==
    ASSUME ChargeInv, NEW m \in Months, Refund(m)
    PROVE  ChargeInv'
<1> USE DEF Refund, Return, HoldsAccount
<1>1. InvoicesInv /\ EventsInv /\ MonthInv /\ CreationInv /\ HandlingInv
  BY DEF ChargeInv
<1>3. InvoicesInv'
  BY <1>1, InvoicingAssumption DEF InvoicesInv, Stages, Statuses, AtStripe
<1>4. EventsInv'
  <2>1. PICK part \in Int : events' = events \cup {[EventOf(m, "refund", "paid") EXCEPT !.taken = charge[m].refunded + part]}
    BY <1>1 DEF InvoicesInv
  <2>2. charge[m].refunded + part \in Int
    BY <1>1, <2>1 DEF InvoicesInv
  <2>3. [EventOf(m, "refund", "paid") EXCEPT !.taken = charge[m].refunded + part] \in EventRows
    BY <2>2 DEF EventOf, EventRows, Types, AtStripe
  <2>4. UNCHANGED handling
    OBVIOUS
  <2> QED BY <1>1, <2>1, <2>3, <2>4 DEF EventsInv
<1>5. MonthInv'
  BY <1>1, InvoicingAssumption DEF MonthInv, CreationInv, InvoicesInv, Present, AtStripe
<1>6. CreationInv'
  BY <1>1, InvoicingAssumption DEF MonthInv, CreationInv, InvoicesInv, Present, Stages, AtStripe
<1>7. HandlingInv'
  BY <1>1, InvoicingAssumption DEF HandlingInv, EventsInv, InvoicesInv, Present, Busy
<1> QED BY <1>3, <1>4, <1>5, <1>6, <1>7 DEF ChargeInv

LEMMA CreditNoteInv ==
    ASSUME ChargeInv, NEW m \in Months, CreditNote(m)
    PROVE  ChargeInv'
<1> USE DEF CreditNote, Return, HoldsAccount
<1>1. InvoicesInv /\ EventsInv /\ MonthInv /\ CreationInv /\ HandlingInv
  BY DEF ChargeInv
<1>3. InvoicesInv'
  BY <1>1, InvoicingAssumption DEF InvoicesInv, Stages, Statuses, AtStripe
<1>4. EventsInv'
  <2>1. PICK part \in Int : events' = events \cup {[EventOf(m, "credit_note", "paid") EXCEPT !.taken = part]}
    BY <1>1 DEF InvoicesInv
  <2>2. part \in Int
    BY <1>1, <2>1 DEF InvoicesInv
  <2>3. [EventOf(m, "credit_note", "paid") EXCEPT !.taken = part] \in EventRows
    BY <2>2 DEF EventOf, EventRows, Types, AtStripe
  <2>4. UNCHANGED handling
    OBVIOUS
  <2> QED BY <1>1, <2>1, <2>3, <2>4 DEF EventsInv
<1>5. MonthInv'
  BY <1>1, InvoicingAssumption DEF MonthInv, CreationInv, InvoicesInv, Present, AtStripe
<1>6. CreationInv'
  BY <1>1, InvoicingAssumption DEF MonthInv, CreationInv, InvoicesInv, Present, Stages, AtStripe
<1>7. HandlingInv'
  BY <1>1, InvoicingAssumption DEF HandlingInv, EventsInv, InvoicesInv, Present, Busy
<1> QED BY <1>3, <1>4, <1>5, <1>6, <1>7 DEF ChargeInv

LEMMA TakeEventInv ==
    ASSUME ChargeInv, NEW w \in Webhooks, NEW e \in events, TakeEvent(w, e)
    PROVE  ChargeInv'
<1> USE DEF TakeEvent, HoldsAccount
<1>1. InvoicesInv /\ EventsInv /\ MonthInv /\ CreationInv /\ HandlingInv
  BY DEF ChargeInv
<1>3. InvoicesInv'
  BY <1>1, InvoicingAssumption DEF InvoicesInv, Stages, Statuses, AtStripe
<1>4. EventsInv'
  BY <1>1, InvoicingAssumption DEF EventsInv, InvoicesInv, EventRows, AtStripe, Statuses
<1>5. MonthInv'
  BY <1>1, InvoicingAssumption DEF MonthInv, CreationInv, InvoicesInv, Present, AtStripe
<1>6. CreationInv'
  BY <1>1, InvoicingAssumption DEF MonthInv, CreationInv, InvoicesInv, Present, Stages, AtStripe
<1>7. HandlingInv'
  <2>1. e # NoEvent /\ e.month \in Months
    BY <1>1 DEF EventsInv, EventRows, Types, NoEvent
  <2>2. handling'[w] = [event |-> e, was |-> invoice[e.month]] /\ UNCHANGED invoice
    BY <1>1 DEF EventsInv
  <2>3. \A v \in Webhooks : v # w => handling'[v] = handling[v]
    BY <1>1 DEF EventsInv
  <2> QED BY <1>1, <2>1, <2>2, <2>3 DEF HandlingInv, Present, Busy
<1> QED BY <1>3, <1>4, <1>5, <1>6, <1>7 DEF ChargeInv

LEMMA MonthsKept ==
    ASSUME MonthInv, UNCHANGED <<stripe, keys, made>>, \A m \in Months : Present(m)' <=> Present(m)
    PROVE  MonthInv'
<1>1. \A m \in Months : /\ made'[m] = made[m] /\ keys'[m] = keys[m] /\ stripe'[m] = stripe[m]
                        /\ Present(m)' <=> Present(m)
  OBVIOUS
<1> QED BY <1>1 DEF MonthInv

LEMMA StoreKeepsRows ==
    ASSUME InvoicesInv, EventsInv, HandlingInv, NEW w \in Webhooks, handling[w].event \in events, StoreEvent(w)
    PROVE  \A m \in Months : Present(m)' <=> Present(m)
<1> DEFINE e == handling[w].event
           was == handling[w].was
           new == StatusAfter(e, was)
<1>1. e \in EventRows /\ was \in Statuses \cup {"absent"} /\ (was # "absent" => Present(e.month))
  BY DEF EventsInv, HandlingInv
<1>2. was = "absent" => new = was
  BY DEF StatusAfter
<1>3. was # "absent" => new \in Statuses
  BY <1>1 DEF StatusAfter, EventRows, STATUS, AtStripe, Statuses
<1>4. invoice' = IF new # was THEN [invoice EXCEPT ![e.month] = new] ELSE invoice
  BY DEF StoreEvent
<1> HIDE DEF new, was
<1> QED BY <1>1, <1>2, <1>3, <1>4 DEF InvoicesInv, Present, Statuses, EventRows

LEMMA StoreEventInv ==
    ASSUME ChargeInv, NEW w \in Webhooks, Busy(w), handling[w].event \in events, StoreEvent(w)
    PROVE  ChargeInv'
<1> USE DEF StoreEvent, Done, StatusAfter, NoHandling, HoldsAccount
<1>1. InvoicesInv /\ EventsInv /\ MonthInv /\ CreationInv /\ HandlingInv
  BY DEF ChargeInv
<1>2. handling[w].event \in EventRows /\ StatusAfter(handling[w].event, handling[w].was) \in Statuses \cup {"absent"}
  BY <1>1 DEF EventsInv, EventRows, AtStripe, Statuses, STATUS
<1>3. InvoicesInv'
  BY <1>1, <1>2, InvoicingAssumption DEF InvoicesInv, Stages, Statuses, AtStripe
<1>4. EventsInv'
  BY <1>1, <1>2, InvoicingAssumption DEF EventsInv, InvoicesInv, EventRows, AtStripe, Statuses
<1>5. MonthInv'
  <2>1. UNCHANGED <<stripe, keys, made>>
    OBVIOUS
  <2>2. \A m \in Months : Present(m)' <=> Present(m)
    BY <1>1, <1>2, StoreKeepsRows DEF InvoicesInv
  <2> HIDE DEF StoreEvent, Done, StatusAfter, NoHandling, HoldsAccount
  <2> QED BY <1>1, <2>1, <2>2, MonthsKept
<1>6. CreationInv'
  <2>1. \A m \in Months : ~Present(m) => ~Present(m)'
    BY <1>1, StoreKeepsRows
  <2>2. \A c \in Creators : HoldsAccount(c) => creation[c].month \in Months
    BY <1>1 DEF CreationInv
  <2>3. UNCHANGED <<creation, stripe>>
    OBVIOUS
  <2> HIDE DEF StoreEvent, Done, StatusAfter, NoHandling
  <2> QED BY <1>1, <2>1, <2>2, <2>3 DEF CreationInv
<1>7. HandlingInv'
  <2>1. handling'[w] = [event |-> NoEvent, was |-> "absent"]
    BY <1>1 DEF EventsInv
  <2>2. \A v \in Webhooks : v # w => handling'[v] = handling[v]
    BY <1>1 DEF EventsInv
  <2>3. \A m \in Months : Present(m) => Present(m)'
    BY <1>1, StoreKeepsRows
  <2>4. \A v \in Webhooks : Busy(v) => handling[v].event.month \in Months
    BY <1>1 DEF EventsInv, EventRows, Busy
  <2> QED BY <1>1, <2>1, <2>2, <2>3, <2>4 DEF HandlingInv, Busy
<1> QED BY <1>3, <1>4, <1>5, <1>6, <1>7 DEF ChargeInv

LEMMA DropEventInv ==
    ASSUME ChargeInv, NEW w \in Webhooks, DropEvent(w)
    PROVE  ChargeInv'
<1> USE DEF DropEvent, Done, NoEvent, NoHandling, HoldsAccount
<1>1. InvoicesInv /\ EventsInv /\ MonthInv /\ CreationInv /\ HandlingInv
  BY DEF ChargeInv
<1>3. InvoicesInv'
  BY <1>1, InvoicingAssumption DEF InvoicesInv, Stages, Statuses, AtStripe
<1>4. EventsInv'
  BY <1>1, InvoicingAssumption DEF EventsInv, InvoicesInv, EventRows, AtStripe, Statuses
<1>5. MonthInv'
  BY <1>1, InvoicingAssumption DEF MonthInv, CreationInv, InvoicesInv, Present, AtStripe
<1>6. CreationInv'
  BY <1>1, InvoicingAssumption DEF MonthInv, CreationInv, InvoicesInv, Present, Stages, AtStripe
<1>7. HandlingInv'
  BY <1>1, InvoicingAssumption DEF HandlingInv, EventsInv, InvoicesInv, Present, Busy
<1> QED BY <1>3, <1>4, <1>5, <1>6, <1>7 DEF ChargeInv

-----------------------------------------------------------------------------
(* The ledger's rows.                                                        *)

LEMMA LinePair == \A l \in Lines : l[1] \in Months /\ l[2] \in Kinds /\ l = <<l[1], l[2]>>
BY DEF Lines

LEMMA NoPlanRow ==
    /\ PlanRow(NoPlan) /\ NoPlan.made = {} /\ NoPlan.claw = 0
    /\ \A k \in DOMAIN NoPlan.left : FALSE
BY DEF PlanRow, NoPlan, Owners

LEMMA PlanOf ==
    ASSUME LedgerInv, NEW w \in Webhooks, NEW x, PlanRow(x), plan' = [plan EXCEPT ![w] = x]
    PROVE  /\ plan' = [v \in Webhooks |-> plan'[v]] /\ \A v \in Webhooks : PlanRow(plan'[v])
           /\ plan'[w] = x /\ \A v \in Webhooks : v # w => plan'[v] = plan[v]
<1>1. plan = [v \in Webhooks |-> plan[v]] /\ \A v \in Webhooks : PlanRow(plan[v])
  BY DEF LedgerInv
<1>2. plan' = [v \in Webhooks |-> IF v = w THEN x ELSE plan[v]]
  BY <1>1
<1> QED BY <1>1, <1>2

LEMMA ReversalPlan ==
    ASSUME LedgerInv, NEW m \in Months, NEW ref, NEW taken, NEW x \in Reversals(m, ref, taken)
    PROVE  PlanRow(x) /\ \A k \in DOMAIN x.left : k \in Kinds /\ Made(<<m, k>>)
<1> DEFINE cut == {k \in Kinds : Cut(<<m, k>>, taken) > 0}
           unpaid == {k \in cut : Unpaid(<<m, k>>)}
           from == {entry[<<m, k>>].of : k \in cut \ unpaid}
           left == [k \in unpaid |-> entry[<<m, k>>].amount - Cut(<<m, k>>, taken)]
           claw == SumFunction([k \in cut \ unpaid |-> Cut(<<m, k>>, taken)])
<1>1. x = NoPlan \/ \E a \in IF from = {} THEN {NoOne} ELSE from :
                        x = [NoPlan EXCEPT !.of = a, !.left = left, !.claw = claw]
  BY DEF Reversals
<1>2. DOMAIN left = unpaid
  OBVIOUS
<1>3. \A k \in unpaid : k \in Kinds /\ Made(<<m, k>>)
  BY DEF Unpaid, Made
<1>4. \A a \in IF from = {} THEN {NoOne} ELSE from : a \in Owners
  <2>1. \A k \in Kinds : <<m, k>> \in Lines
    BY DEF Lines
  <2>2. \A k \in Kinds : entry[<<m, k>>].of \in Owners
    BY <2>1 DEF LedgerInv, EntryRow
  <2> QED BY <2>2 DEF Owners
<1> HIDE DEF left, claw, unpaid, from
<1>5. x = NoPlan \/ \E a \in Owners : x = [of |-> a, made |-> {}, first |-> 0, left |-> left, claw |-> claw]
  BY <1>1, <1>4 DEF NoPlan
<1>6. CASE x = NoPlan
  BY <1>6, NoPlanRow
<1>7. ASSUME NEW a \in Owners, x = [of |-> a, made |-> {}, first |-> 0, left |-> left, claw |-> claw]
      PROVE  PlanRow(x) /\ x.left = left
  BY <1>7 DEF PlanRow
<1> QED BY <1>2, <1>3, <1>5, <1>6, <1>7

LEMMA AccrualPlan ==
    ASSUME LedgerInv, NEW m
    PROVE  PlanRow(Accrual(m)) /\ Accrual(m).claw = 0 /\ \A k \in DOMAIN Accrual(m).left : FALSE
<1> DEFINE earned == {k \in Kinds :
                IF k = "bonus" THEN \A e \in Months : ~Made(<<e, k>>) \/ entry[<<e, k>>].of # referral
                ELSE ~Made(<<m, k>>) /\ m < FirstPaid(m) + ShareMonths}
           month == IF FirstPaid(m) # first THEN FirstPaid(m) ELSE 0
<1>1. Accrual(m) = IF referral = NoOne THEN NoPlan
                   ELSE [NoPlan EXCEPT !.of = referral, !.first = month, !.made = earned]
  BY DEF Accrual
<1> HIDE DEF earned, month
<1>2. Accrual(m) = NoPlan
      \/ Accrual(m) = [of |-> referral, made |-> earned, first |-> month, left |-> <<>>, claw |-> 0]
  BY <1>1 DEF NoPlan
<1> QED BY <1>2, NoPlanRow DEF PlanRow, LedgerInv

-----------------------------------------------------------------------------
(* Stripe's events and the ledger.                                           *)

LEMMA TakeInv ==
    ASSUME EventsInv, BookInv, NEW w \in Webhooks, NEW e \in events, Take(w, e)
    PROVE  BookInv'
<1>1. LedgerInv /\ EntryInv /\ PlanInv /\ ReversalInv /\ CoverInv
  BY DEF BookInv
<1>2. e.month \in Months /\ e # NoEvent
  BY DEF EventsInv, EventRows, Types, NoEvent
<1>3. /\ handling'[w].event = e /\ handling'[w].was = invoice[e.month]
      /\ \A v \in Webhooks : v # w => handling'[v] = handling[v]
  BY DEF EventsInv, Take, TakeEvent
<1>4. PICK x : /\ PlanRow(x) /\ plan' = [plan EXCEPT ![w] = x]
               /\ x.claw # 0 => IsReturn(e)
               /\ \A k \in DOMAIN x.left : k \in Kinds /\ Made(<<e.month, k>>)
               /\ invoice[e.month] = "absent" => x = NoPlan
  <2>1. CASE invoice[e.month] = "absent"
    BY <2>1, NoPlanRow DEF Take
  <2>2. CASE invoice[e.month] # "absent" /\ IsReturn(e)
    BY <1>1, <1>2, <2>2, ReversalPlan DEF Take
  <2>3. CASE invoice[e.month] # "absent" /\ ~IsReturn(e) /\ TurnsPaid(e, invoice[e.month])
    BY <1>1, <2>3, AccrualPlan DEF Take
  <2>4. CASE invoice[e.month] # "absent" /\ ~IsReturn(e) /\ ~TurnsPaid(e, invoice[e.month])
    BY <2>4, NoPlanRow DEF Take
  <2> QED BY <2>1, <2>2, <2>3, <2>4
<1>5. UNCHANGED <<entry, reversal, payout, referral, releasing, accruals, covered>>
  BY DEF Take
<1>6. /\ plan' = [v \in Webhooks |-> plan'[v]] /\ \A v \in Webhooks : PlanRow(plan'[v])
      /\ plan'[w] = x /\ \A v \in Webhooks : v # w => plan'[v] = plan[v]
  BY <1>1, <1>4, PlanOf
<1>7. LedgerInv'
  BY <1>1, <1>5, <1>6 DEF LedgerInv
<1>8. EntryInv' /\ ReversalInv' /\ CoverInv'
  BY <1>1, <1>5 DEF EntryInv, ReversalInv, CoverInv, Made, Carries, InForce
<1>9. PlanInv'
  BY <1>1, <1>2, <1>3, <1>4, <1>5, <1>6 DEF PlanInv, Made, Busy
<1> QED BY <1>7, <1>8, <1>9 DEF BookInv

LEMMA StoreInv ==
    ASSUME EventsInv, BookInv, NEW w \in Webhooks, Store(w)
    PROVE  BookInv'
<1> DEFINE e == handling[w].event
<1>1. LedgerInv /\ EntryInv /\ PlanInv /\ ReversalInv /\ CoverInv
  BY DEF BookInv
<1>2. e.month \in Months /\ e \in EventRows
  BY DEF EventsInv, EventRows, Store
<1>3. /\ handling'[w].event = NoEvent /\ handling'[w].was = "absent"
      /\ \A v \in Webhooks : v # w => handling'[v] = handling[v]
  BY DEF EventsInv, Store, StoreEvent, Done, NoHandling
<1>4. /\ plan' = [v \in Webhooks |-> plan'[v]] /\ \A v \in Webhooks : PlanRow(plan'[v])
      /\ plan'[w] = NoPlan /\ \A v \in Webhooks : v # w => plan'[v] = plan[v]
  BY <1>1, PlanOf, NoPlanRow DEF Store
<1>5. UNCHANGED <<payout, referral, releasing, covered>>
  BY DEF Store
<1>6. \A l \in Lines :
        /\ EntryRow(entry'[l])
        /\ Made(l) => entry'[l].status # "none" /\ entry'[l].payout = entry[l].payout
        /\ accruals'[l] \in Nat /\ accruals'[l] = IF entry'[l].status # "none" THEN 1 ELSE 0
        /\ entry'[l].payout # 0 => entry'[l].status # "none"
  <2> SUFFICES ASSUME NEW l \in Lines
               PROVE  /\ EntryRow(entry'[l])
                      /\ Made(l) => entry'[l].status # "none" /\ entry'[l].payout = entry[l].payout
                      /\ accruals'[l] \in Nat /\ accruals'[l] = IF entry'[l].status # "none" THEN 1 ELSE 0
                      /\ entry'[l].payout # 0 => entry'[l].status # "none"
    OBVIOUS
  <2>1. l[1] \in Months /\ l[2] \in Kinds /\ l = <<l[1], l[2]>>
    BY LinePair
  <2>2. /\ EntryRow(entry[l]) /\ accruals[l] \in Nat
        /\ accruals[l] = IF Made(l) THEN 1 ELSE 0
        /\ entry[l].payout # 0 => Made(l)
    BY <1>1 DEF LedgerInv, EntryInv
  <2>3. CASE l[1] = e.month /\ l[2] \in plan[w].made
    <3>1. ~Made(l)
      BY <2>1, <2>3 DEF Store, Refused
    <3>2. entry'[l] = [status |-> "held", of |-> plan[w].of, amount |-> Worth[l[2]], payout |-> 0]
      BY <2>3 DEF Store, WriteEntries
    <3>3. accruals'[l] = accruals[l] + 1
      BY <1>1, <2>3 DEF Store, LedgerInv
    <3>4. EntryRow(entry'[l])
      BY <1>1, <3>2, CommissionsAssumption DEF EntryRow, LedgerInv, PlanRow
    <3> QED BY <2>2, <3>1, <3>2, <3>3, <3>4
  <2>4. CASE ~(l[1] = e.month /\ l[2] \in plan[w].made) /\ l[1] = e.month /\ l[2] \in DOMAIN plan[w].left
    <3>1. Made(l)
      BY <1>1, <2>1, <2>4 DEF PlanInv
    <3>2. \/ entry'[l] = [entry[l] EXCEPT !.status = "reversed"]
          \/ entry'[l] = [entry[l] EXCEPT !.amount = plan[w].left[l[2]]]
      BY <2>4 DEF Store, WriteEntries
    <3>3. accruals'[l] = accruals[l]
      BY <1>1, <2>4 DEF Store, LedgerInv
    <3>4. /\ entry'[l] = [status |-> entry'[l].status, of |-> entry[l].of, amount |-> entry'[l].amount, payout |-> entry[l].payout]
          /\ entry'[l].status \in {"reversed", entry[l].status}
      BY <2>2, <3>2 DEF EntryRow
    <3>5. entry'[l].payout = entry[l].payout /\ entry'[l].status # "none"
      BY <3>1, <3>4 DEF Made
    <3>6. EntryRow(entry'[l])
      BY <2>2, <3>4, <3>5 DEF EntryRow
    <3> QED BY <2>2, <3>1, <3>3, <3>5, <3>6
  <2>5. CASE ~(l[1] = e.month /\ l[2] \in plan[w].made) /\ ~(l[1] = e.month /\ l[2] \in DOMAIN plan[w].left)
    <3>1. entry'[l] = entry[l]
      BY <2>5 DEF Store, WriteEntries
    <3>2. accruals'[l] = accruals[l]
      BY <1>1, <2>5 DEF Store, LedgerInv
    <3> QED BY <2>2, <3>1, <3>2 DEF Made
  <2> QED BY <2>3, <2>4, <2>5
<1>7. \/ reversal' = reversal
      \/ /\ plan[w].claw # 0 /\ IsReturn(e) /\ ~Recorded(e.month, e.type)
         /\ reversal' = reversal \cup {[month |-> e.month, ref |-> e.type, of |-> plan[w].of, amount |-> plan[w].claw,
                                        status |-> "payable", payout |-> 0]}
  <2>1. plan[w].claw # 0 => IsReturn(e) /\ ~Recorded(e.month, e.type)
    BY <1>1 DEF PlanInv, Store, Refused
  <2> QED BY <2>1 DEF Store, WriteReversal
<1>8. LedgerInv'
  <2>1. entry' = [l \in Lines |-> entry'[l]] /\ accruals' \in [Lines -> Nat]
    <3>1. entry' = [l \in Lines |-> entry'[l]]
      BY DEF Store, WriteEntries
    <3>2. accruals' = [l \in Lines |-> accruals'[l]]
      BY DEF Store
    <3> QED BY <1>6, <3>1, <3>2
  <2>2. \A l \in Lines : EntryRow(entry'[l])
    BY <1>6
  <2>3. \A r \in reversal' : ReversalRow(r)
    BY <1>1, <1>2, <1>7, CommissionsAssumption DEF LedgerInv, ReversalRow, PlanRow, IsReturn, Refs
  <2> QED BY <1>1, <1>4, <1>5, <2>1, <2>2, <2>3 DEF LedgerInv
<1>9. EntryInv'
  BY <1>1, <1>5, <1>6 DEF EntryInv, Made
<1>10. PlanInv'
  <2>1. \A m, k : Made(<<m, k>>) /\ <<m, k>> \in Lines => Made(<<m, k>>)'
    BY <1>6 DEF Made
  <2>2. \A v \in Webhooks : Busy(v) => handling[v].event.month \in Months
    BY DEF EventsInv, EventRows, Busy
  <2>3. \A v \in Webhooks, k \in Kinds : Busy(v) => <<handling[v].event.month, k>> \in Lines
    BY <2>2 DEF Lines
  <2> QED BY <1>1, <1>3, <1>4, <2>1, <2>3, NoPlanRow DEF PlanInv, Busy
<1>11. ReversalInv'
  BY <1>1, <1>7 DEF ReversalInv, Recorded
<1>12. CoverInv'
  <2> SUFFICES ASSUME NEW p \in Payouts, InForce(p)', NEW l \in covered'[p]
               PROVE  Carries(l, p)'
    BY DEF CoverInv
  <2>1. Carries(l, p)
    BY <1>1, <1>5 DEF CoverInv, InForce
  <2>2. CASE l \in Lines /\ entry[l].payout = p
    <3>1. Made(l)
      BY <1>1, <2>2 DEF EntryInv, Payouts
    <3> QED BY <1>6, <2>2, <3>1 DEF Carries
  <2>3. CASE \E r \in reversal : l = <<r.month, r.ref>> /\ r.payout = p
    BY <1>7, <2>3 DEF Carries
  <2> QED BY <2>1, <2>2, <2>3 DEF Carries
<1> QED BY <1>8, <1>9, <1>10, <1>11, <1>12 DEF BookInv

LEMMA DropInv ==
    ASSUME EventsInv, BookInv, NEW w \in Webhooks, Drop(w)
    PROVE  BookInv'
<1>1. LedgerInv /\ EntryInv /\ PlanInv /\ ReversalInv /\ CoverInv
  BY DEF BookInv
<1>2. /\ handling'[w].event = NoEvent /\ handling'[w].was = "absent"
      /\ \A v \in Webhooks : v # w => handling'[v] = handling[v]
  BY DEF EventsInv, Drop, DropEvent, Done, NoHandling
<1>3. /\ plan' = [v \in Webhooks |-> plan'[v]] /\ \A v \in Webhooks : PlanRow(plan'[v])
      /\ plan'[w] = NoPlan /\ \A v \in Webhooks : v # w => plan'[v] = plan[v]
  BY <1>1, PlanOf, NoPlanRow DEF Drop
<1>4. UNCHANGED <<entry, reversal, payout, referral, releasing, accruals, covered>>
  BY DEF Drop
<1>5. LedgerInv'
  BY <1>1, <1>3, <1>4 DEF LedgerInv
<1>6. EntryInv' /\ ReversalInv' /\ CoverInv'
  BY <1>1, <1>4 DEF EntryInv, ReversalInv, CoverInv, Made, Carries, InForce
<1>7. PlanInv'
  BY <1>1, <1>2, <1>3, <1>4, NoPlanRow DEF PlanInv, Made, Busy
<1> QED BY <1>5, <1>6, <1>7 DEF BookInv

-----------------------------------------------------------------------------
(* The worker, the payouts and the referral.                                 *)

LEMMA ReadHeldInv ==
    ASSUME BookInv, ReadHeld
    PROVE  BookInv'
<1>1. LedgerInv /\ EntryInv /\ PlanInv /\ ReversalInv /\ CoverInv
  BY DEF BookInv
<1>2. UNCHANGED <<handling, entry, reversal, referral, payout, plan, accruals, covered>>
  BY DEF ReadHeld, invoicingVars
<1>3. \A l \in releasing' : l \in Lines /\ Made(l)
  BY DEF ReadHeld, Made
<1>4. LedgerInv' /\ ReversalInv' /\ CoverInv' /\ PlanInv'
  BY <1>1, <1>2 DEF LedgerInv, ReversalInv, CoverInv, PlanInv, Made, Busy, Carries, InForce
<1>5. EntryInv'
  BY <1>1, <1>2, <1>3 DEF EntryInv, Made
<1> QED BY <1>4, <1>5 DEF BookInv

\* What a step that keeps every entry made, and takes no payout's number away, leaves to show.
LEMMA EntriesKept ==
    ASSUME LedgerInv, EntryInv, PlanInv, EventsInv,
           UNCHANGED <<handling, plan, accruals, releasing>> \/ (UNCHANGED <<handling, plan, accruals>> /\ releasing' = {}),
           entry' = [l \in Lines |-> entry'[l]],
           \A l \in Lines : /\ EntryRow(entry'[l]) /\ (Made(l) <=> Made(l)')
                            /\ entry'[l].payout # 0 => Made(l)
    PROVE  EntryInv' /\ PlanInv'
<1>1. EntryInv'
  BY DEF EntryInv, Made
<1>2. \A v \in Webhooks, k \in Kinds : Busy(v) => <<handling[v].event.month, k>> \in Lines
  BY DEF EventsInv, EventRows, Busy, Lines
<1>3. PlanInv'
  BY <1>2 DEF PlanInv, Busy, Made
<1> QED BY <1>1, <1>3

LEMMA ReleaseInv ==
    ASSUME EventsInv, BookInv, Release
    PROVE  BookInv'
<1>1. LedgerInv /\ EntryInv /\ PlanInv /\ ReversalInv /\ CoverInv
  BY DEF BookInv
<1>2. UNCHANGED <<handling, reversal, referral, payout, plan, accruals, covered>> /\ releasing' = {}
  BY DEF Release, invoicingVars
<1>3. /\ entry' = [l \in Lines |-> entry'[l]]
      /\ \A l \in Lines : entry'[l] = IF l \in releasing THEN [entry[l] EXCEPT !.status = "payable"] ELSE entry[l]
  BY DEF Release
<1>4. \A l \in Lines : /\ EntryRow(entry'[l]) /\ (Made(l) <=> Made(l)')
                       /\ entry'[l].payout = entry[l].payout
  <2> SUFFICES ASSUME NEW l \in Lines
               PROVE  /\ EntryRow(entry'[l]) /\ (Made(l) <=> Made(l)')
                      /\ entry'[l].payout = entry[l].payout
    OBVIOUS
  <2>1. EntryRow(entry[l]) /\ (l \in releasing => Made(l))
    BY <1>1 DEF LedgerInv, EntryInv
  <2>2. CASE l \in releasing
    <3>1. entry'[l] = [status |-> "payable", of |-> entry[l].of, amount |-> entry[l].amount, payout |-> entry[l].payout]
      BY <1>3, <2>1, <2>2 DEF EntryRow
    <3> QED BY <2>1, <2>2, <3>1 DEF EntryRow, Made
  <2>3. CASE l \notin releasing
    BY <1>3, <2>1, <2>3 DEF Made
  <2> QED BY <2>2, <2>3
<1>5. EntryInv' /\ PlanInv'
  BY <1>1, <1>2, <1>3, <1>4, EntriesKept DEF EntryInv
<1>6. LedgerInv'
  BY <1>1, <1>2, <1>3, <1>4 DEF LedgerInv
<1>7. ReversalInv' /\ CoverInv'
  BY <1>1, <1>2, <1>4 DEF ReversalInv, CoverInv, Carries, InForce
<1> QED BY <1>5, <1>6, <1>7 DEF BookInv

\* A reversal that goes into a payout, is paid or comes back keeps its invoice and reference.
LEMMA ReversalInPayout ==
    ASSUME NEW r, ReversalRow(r), NEW p \in 0..MaxPayouts, NEW s, s = [r EXCEPT !.payout = p]
    PROVE  ReversalRow(s) /\ s.month = r.month /\ s.ref = r.ref /\ s.payout = p
<1>1. s = [month |-> r.month, ref |-> r.ref, of |-> r.of, amount |-> r.amount, status |-> r.status, payout |-> p]
  BY DEF ReversalRow
<1> QED BY <1>1 DEF ReversalRow

LEMMA ReversalPaid ==
    ASSUME NEW r, ReversalRow(r), NEW s, s = [r EXCEPT !.status = "paid"]
    PROVE  ReversalRow(s) /\ s.month = r.month /\ s.ref = r.ref /\ s.payout = r.payout
<1>1. s = [month |-> r.month, ref |-> r.ref, of |-> r.of, amount |-> r.amount, status |-> "paid", payout |-> r.payout]
  BY DEF ReversalRow
<1> QED BY <1>1 DEF ReversalRow

LEMMA PayoutOf ==
    ASSUME LedgerInv, NEW p \in Payouts, NEW x, PayoutRow(x), payout' = [payout EXCEPT ![p] = x]
    PROVE  /\ payout' = [q \in Payouts |-> payout'[q]] /\ \A q \in Payouts : PayoutRow(payout'[q])
           /\ payout'[p] = x /\ \A q \in Payouts : q # p => payout'[q] = payout[q]
<1>1. payout = [q \in Payouts |-> payout[q]] /\ \A q \in Payouts : PayoutRow(payout[q])
  BY DEF LedgerInv
<1>2. payout' = [q \in Payouts |-> IF q = p THEN x ELSE payout[q]]
  BY <1>1
<1> QED BY <1>1, <1>2

LEMMA CreatePayoutInv ==
    ASSUME EventsInv, BookInv, NEW p \in Payouts, NEW a \in Ambassadors, CreatePayout(p, a)
    PROVE  BookInv'
<1>1. LedgerInv /\ EntryInv /\ PlanInv /\ ReversalInv /\ CoverInv
  BY DEF BookInv
<1>2. UNCHANGED <<handling, referral, plan, accruals, releasing>>
  BY DEF CreatePayout, invoicingVars
<1>3. p \in 0..MaxPayouts /\ p # 0
  BY CommissionsAssumption DEF Payouts
<1>4. /\ payout' = [q \in Payouts |-> payout'[q]] /\ \A q \in Payouts : PayoutRow(payout'[q])
      /\ \A q \in Payouts : q # p => payout'[q] = payout[q]
  <2>1. PayoutRow([status |-> "pending", of |-> a, amount |-> Total(a)])
    BY DEF PayoutRow, Owners
  <2>2. payout' = [payout EXCEPT ![p] = [status |-> "pending", of |-> a, amount |-> Total(a)]]
    BY DEF CreatePayout
  <2> QED BY <1>1, <2>1, <2>2, PayoutOf
<1>5. /\ entry' = [l \in Lines |-> entry'[l]]
      /\ \A l \in Lines : entry'[l] = IF l \in Ready(a) THEN [entry[l] EXCEPT !.payout = p] ELSE entry[l]
  BY DEF CreatePayout
<1>6. \A l \in Lines :
        /\ EntryRow(entry'[l]) /\ (Made(l) <=> Made(l)') /\ (entry'[l].payout # 0 => Made(l))
        /\ entry'[l].payout = IF l \in Ready(a) THEN p ELSE entry[l].payout
  <2> SUFFICES ASSUME NEW l \in Lines
               PROVE  /\ EntryRow(entry'[l]) /\ (Made(l) <=> Made(l)') /\ (entry'[l].payout # 0 => Made(l))
                      /\ entry'[l].payout = IF l \in Ready(a) THEN p ELSE entry[l].payout
    OBVIOUS
  <2>1. EntryRow(entry[l]) /\ (entry[l].payout # 0 => Made(l))
    BY <1>1 DEF LedgerInv, EntryInv
  <2>2. CASE l \in Ready(a)
    <3>1. Made(l)
      BY <2>2 DEF Ready, Made
    <3>2. entry'[l] = [entry[l] EXCEPT !.payout = p]
      BY <1>5, <2>2
    <3>3. EntryRow(entry'[l]) /\ entry'[l].status = entry[l].status /\ entry'[l].payout = p
      <4>1. entry'[l] = [status |-> entry[l].status, of |-> entry[l].of, amount |-> entry[l].amount, payout |-> p]
        BY <2>1, <3>2 DEF EntryRow
      <4> QED BY <1>3, <2>1, <4>1 DEF EntryRow
    <3> QED BY <2>2, <3>1, <3>3 DEF Made
  <2>3. CASE l \notin Ready(a)
    BY <1>5, <2>1, <2>3 DEF Made
  <2> QED BY <2>2, <2>3
<1>7. EntryInv' /\ PlanInv'
  BY <1>1, <1>2, <1>5, <1>6, EntriesKept
<1>8. \A s \in reversal' : \E r \in reversal :
        /\ ReversalRow(s) /\ s.month = r.month /\ s.ref = r.ref
        /\ \/ s = r /\ r \notin ReadyReversals(a)
           \/ s = [r EXCEPT !.payout = p] /\ r \in ReadyReversals(a)
  <2>1. \A r \in reversal : ReversalRow(r)
    BY <1>1 DEF LedgerInv
  <2>2. reversal' = (reversal \ ReadyReversals(a)) \cup {[r EXCEPT !.payout = p] : r \in ReadyReversals(a)}
    BY DEF CreatePayout
  <2>3. \A r \in ReadyReversals(a) : r \in reversal
    BY DEF ReadyReversals
  <2>4. \A r \in ReadyReversals(a) : LET s == [r EXCEPT !.payout = p] IN
            ReversalRow(s) /\ s.month = r.month /\ s.ref = r.ref
    <3> SUFFICES ASSUME NEW r \in ReadyReversals(a), NEW s, s = [r EXCEPT !.payout = p]
                 PROVE  ReversalRow(s) /\ s.month = r.month /\ s.ref = r.ref
      OBVIOUS
    <3> QED BY <1>3, <2>1, <2>3, ReversalInPayout
  <2> QED BY <2>1, <2>2, <2>3, <2>4
<1>9. covered' = [q \in Payouts |-> covered'[q]] /\ covered'[p] = Ready(a) \cup {<<r.month, r.ref>> : r \in ReadyReversals(a)}
      /\ \A q \in Payouts : q # p => covered'[q] = covered[q]
  <2>1. covered = [q \in Payouts |-> covered[q]]
    BY <1>1 DEF LedgerInv
  <2>2. covered' = [q \in Payouts |-> IF q = p THEN Ready(a) \cup {<<r.month, r.ref>> : r \in ReadyReversals(a)}
                                      ELSE covered[q]]
    BY <2>1 DEF CreatePayout
  <2> QED BY <2>2
<1>10. LedgerInv'
  BY <1>1, <1>2, <1>4, <1>5, <1>6, <1>8, <1>9 DEF LedgerInv
<1>11. ReversalInv'
  BY <1>1, <1>8 DEF ReversalInv
<1>12. CoverInv'
  <2> SUFFICES ASSUME NEW q \in Payouts, InForce(q)', NEW l \in covered'[q]
               PROVE  Carries(l, q)'
    BY DEF CoverInv
  <2>1. CASE q = p /\ l \in Ready(a)
    BY <1>6, <2>1 DEF Carries, Ready
  <2>2. CASE q = p /\ l \notin Ready(a)
    <3>1. PICK r \in ReadyReversals(a) : l = <<r.month, r.ref>>
      BY <1>9, <2>2
    <3>2. ReversalRow(r) /\ [r EXCEPT !.payout = p] \in reversal'
      BY <1>1, <3>1 DEF LedgerInv, ReadyReversals, CreatePayout
    <3>3. PICK s : s = [r EXCEPT !.payout = p]
      OBVIOUS
    <3>4. s.month = r.month /\ s.ref = r.ref /\ s.payout = p
      BY <1>3, <3>2, <3>3, ReversalInPayout
    <3> QED BY <2>2, <3>1, <3>2, <3>3, <3>4 DEF Carries
  <2>3. CASE q # p
    <3>1. Carries(l, q) /\ q # 0
      BY <1>1, <1>4, <1>9, <2>3 DEF CoverInv, InForce, Payouts
    <3>2. CASE l \in Lines /\ entry[l].payout = q
      BY <1>6, <3>1, <3>2 DEF Carries, Ready
    <3>3. CASE \E r \in reversal : l = <<r.month, r.ref>> /\ r.payout = q
      BY <3>1, <3>3 DEF Carries, ReadyReversals, CreatePayout
    <3> QED BY <3>1, <3>2, <3>3 DEF Carries
  <2> QED BY <2>1, <2>2, <2>3
<1> QED BY <1>7, <1>10, <1>11, <1>12 DEF BookInv

LEMMA MarkPaidInv ==
    ASSUME EventsInv, BookInv, NEW p \in Payouts, MarkPaid(p)
    PROVE  BookInv'
<1>1. LedgerInv /\ EntryInv /\ PlanInv /\ ReversalInv /\ CoverInv
  BY DEF BookInv
<1>2. UNCHANGED <<handling, referral, plan, accruals, releasing, covered>>
  BY DEF MarkPaid, invoicingVars
<1>3. p \in 0..MaxPayouts /\ p # 0
  BY CommissionsAssumption DEF Payouts
<1>4. /\ payout' = [q \in Payouts |-> payout'[q]] /\ \A q \in Payouts : PayoutRow(payout'[q])
      /\ \A q \in Payouts : InForce(q)' => InForce(q)
  <2> DEFINE x == [payout[p] EXCEPT !.status = "paid"]
  <2>1. x = [status |-> "paid", of |-> payout[p].of, amount |-> payout[p].amount]
    BY <1>1 DEF LedgerInv, PayoutRow
  <2>2. PayoutRow(x)
    BY <1>1, <2>1 DEF LedgerInv, PayoutRow
  <2>3. payout' = [payout EXCEPT ![p] = x] /\ payout[p].status = "pending"
    BY DEF MarkPaid
  <2> HIDE DEF x
  <2> QED BY <1>1, <2>2, <2>3, PayoutOf DEF InForce
<1>5. /\ entry' = [l \in Lines |-> entry'[l]]
      /\ \A l \in Lines : entry'[l] = IF entry[l].payout = p THEN [entry[l] EXCEPT !.status = "paid"] ELSE entry[l]
  BY DEF MarkPaid
<1>6. \A l \in Lines :
        /\ EntryRow(entry'[l]) /\ (Made(l) <=> Made(l)') /\ (entry'[l].payout # 0 => Made(l))
        /\ entry'[l].payout = entry[l].payout
  <2> SUFFICES ASSUME NEW l \in Lines
               PROVE  /\ EntryRow(entry'[l]) /\ (Made(l) <=> Made(l)') /\ (entry'[l].payout # 0 => Made(l))
                      /\ entry'[l].payout = entry[l].payout
    OBVIOUS
  <2>1. EntryRow(entry[l]) /\ (entry[l].payout # 0 => Made(l))
    BY <1>1 DEF LedgerInv, EntryInv
  <2>2. CASE entry[l].payout = p
    <3>1. entry'[l] = [entry[l] EXCEPT !.status = "paid"]
      BY <1>5, <2>2
    <3>2. EntryRow(entry'[l]) /\ entry'[l].status = "paid" /\ entry'[l].payout = entry[l].payout
      <4>1. entry'[l] = [status |-> "paid", of |-> entry[l].of, amount |-> entry[l].amount, payout |-> entry[l].payout]
        BY <2>1, <3>1 DEF EntryRow
      <4> QED BY <2>1, <4>1 DEF EntryRow
    <3> QED BY <1>3, <2>1, <2>2, <3>2 DEF Made
  <2>3. CASE entry[l].payout # p
    BY <1>5, <2>1, <2>3 DEF Made
  <2> QED BY <2>2, <2>3
<1>7. EntryInv' /\ PlanInv'
  BY <1>1, <1>2, <1>5, <1>6, EntriesKept
<1>8. /\ \A s \in reversal' : \E r \in reversal :
            /\ ReversalRow(s) /\ s.month = r.month /\ s.ref = r.ref
            /\ s = IF r.payout = p THEN [r EXCEPT !.status = "paid"] ELSE r
      /\ \A r \in reversal : \E s \in reversal' : s.month = r.month /\ s.ref = r.ref /\ s.payout = r.payout
  <2>1. \A r \in reversal : ReversalRow(r)
    BY <1>1 DEF LedgerInv
  <2>2. reversal' = {IF r.payout = p THEN [r EXCEPT !.status = "paid"] ELSE r : r \in reversal}
    BY DEF MarkPaid
  <2>3. \A r \in reversal : LET s == [r EXCEPT !.status = "paid"] IN
            ReversalRow(s) /\ s.month = r.month /\ s.ref = r.ref /\ s.payout = r.payout
    <3> SUFFICES ASSUME NEW r \in reversal, NEW s, s = [r EXCEPT !.status = "paid"]
                 PROVE  ReversalRow(s) /\ s.month = r.month /\ s.ref = r.ref /\ s.payout = r.payout
      OBVIOUS
    <3> QED BY <2>1, ReversalPaid
  <2> QED BY <2>1, <2>2, <2>3
<1>9. LedgerInv'
  BY <1>1, <1>2, <1>4, <1>5, <1>6, <1>8 DEF LedgerInv
<1>10. ReversalInv'
  BY <1>1, <1>8 DEF ReversalInv
<1>11. CoverInv'
  BY <1>1, <1>2, <1>4, <1>6, <1>8 DEF CoverInv, Carries
<1> QED BY <1>7, <1>9, <1>10, <1>11 DEF BookInv

LEMMA CancelPayoutInv ==
    ASSUME EventsInv, BookInv, NEW p \in Payouts, CancelPayout(p)
    PROVE  BookInv'
<1>1. LedgerInv /\ EntryInv /\ PlanInv /\ ReversalInv /\ CoverInv
  BY DEF BookInv
<1>2. UNCHANGED <<handling, referral, plan, accruals, releasing, covered>>
  BY DEF CancelPayout, invoicingVars
<1>3. 0 \in 0..MaxPayouts
  BY CommissionsAssumption
<1>4. /\ payout' = [q \in Payouts |-> payout'[q]] /\ \A q \in Payouts : PayoutRow(payout'[q])
      /\ ~InForce(p)' /\ \A q \in Payouts : InForce(q)' => InForce(q)
  <2> DEFINE x == [payout[p] EXCEPT !.status = "cancelled"]
  <2>1. x = [status |-> "cancelled", of |-> payout[p].of, amount |-> payout[p].amount]
    BY <1>1 DEF LedgerInv, PayoutRow
  <2>2. PayoutRow(x) /\ x.status = "cancelled"
    BY <1>1, <2>1 DEF LedgerInv, PayoutRow
  <2>3. payout' = [payout EXCEPT ![p] = x]
    BY DEF CancelPayout
  <2> HIDE DEF x
  <2> QED BY <1>1, <2>2, <2>3, PayoutOf DEF InForce
<1>5. /\ entry' = [l \in Lines |-> entry'[l]]
      /\ \A l \in Lines : entry'[l] = IF entry[l].payout = p THEN [entry[l] EXCEPT !.payout = 0] ELSE entry[l]
  BY DEF CancelPayout
<1>6. \A l \in Lines :
        /\ EntryRow(entry'[l]) /\ (Made(l) <=> Made(l)') /\ (entry'[l].payout # 0 => Made(l))
        /\ entry[l].payout # p => entry'[l].payout = entry[l].payout
  <2> SUFFICES ASSUME NEW l \in Lines
               PROVE  /\ EntryRow(entry'[l]) /\ (Made(l) <=> Made(l)') /\ (entry'[l].payout # 0 => Made(l))
                      /\ entry[l].payout # p => entry'[l].payout = entry[l].payout
    OBVIOUS
  <2>1. EntryRow(entry[l]) /\ (entry[l].payout # 0 => Made(l))
    BY <1>1 DEF LedgerInv, EntryInv
  <2>2. CASE entry[l].payout = p
    <3>1. entry'[l] = [entry[l] EXCEPT !.payout = 0]
      BY <1>5, <2>2
    <3>2. EntryRow(entry'[l]) /\ entry'[l].status = entry[l].status /\ entry'[l].payout = 0
      <4>1. entry'[l] = [status |-> entry[l].status, of |-> entry[l].of, amount |-> entry[l].amount, payout |-> 0]
        BY <2>1, <3>1 DEF EntryRow
      <4> QED BY <1>3, <2>1, <4>1 DEF EntryRow
    <3> QED BY <2>2, <3>2 DEF Made
  <2>3. CASE entry[l].payout # p
    BY <1>5, <2>1, <2>3 DEF Made
  <2> QED BY <2>2, <2>3
<1>7. EntryInv' /\ PlanInv'
  BY <1>1, <1>2, <1>5, <1>6, EntriesKept
<1>8. /\ \A s \in reversal' : \E r \in reversal :
            /\ ReversalRow(s) /\ s.month = r.month /\ s.ref = r.ref
            /\ s = IF r.payout = p THEN [r EXCEPT !.payout = 0] ELSE r
      /\ \A r \in reversal : r.payout # p => r \in reversal'
  <2>1. \A r \in reversal : ReversalRow(r)
    BY <1>1 DEF LedgerInv
  <2>2. reversal' = {IF r.payout = p THEN [r EXCEPT !.payout = 0] ELSE r : r \in reversal}
    BY DEF CancelPayout
  <2>3. \A r \in reversal : LET s == [r EXCEPT !.payout = 0] IN
            ReversalRow(s) /\ s.month = r.month /\ s.ref = r.ref
    <3> SUFFICES ASSUME NEW r \in reversal, NEW s, s = [r EXCEPT !.payout = 0]
                 PROVE  ReversalRow(s) /\ s.month = r.month /\ s.ref = r.ref
      OBVIOUS
    <3> QED BY <1>3, <2>1, ReversalInPayout
  <2> QED BY <2>1, <2>2, <2>3
<1>9. LedgerInv'
  BY <1>1, <1>2, <1>4, <1>5, <1>6, <1>8 DEF LedgerInv
<1>10. ReversalInv'
  BY <1>1, <1>8 DEF ReversalInv
<1>11. CoverInv'
  <2> SUFFICES ASSUME NEW q \in Payouts, InForce(q)', NEW l \in covered'[q]
               PROVE  Carries(l, q)'
    BY DEF CoverInv
  <2>1. q # p /\ Carries(l, q)
    BY <1>1, <1>2, <1>4 DEF CoverInv
  <2> QED BY <1>6, <1>8, <2>1 DEF Carries
<1> QED BY <1>7, <1>9, <1>10, <1>11 DEF BookInv

-----------------------------------------------------------------------------
(* Every step.                                                               *)

IInv == ChargeInv /\ BookInv

LEMMA InitIInv == Init => IInv
<1> SUFFICES ASSUME Init PROVE IInv
  OBVIOUS
<1>1. InvoicesInv /\ EventsInv /\ MonthInv /\ CreationInv /\ HandlingInv
  BY DEF Init, InvoicingInit, InvoicesInv, EventsInv, MonthInv, CreationInv, HandlingInv, Present,
     Idle, Stages, NoEvent, NoHandling, HoldsAccount
<1>2. LedgerInv
  BY NoPlanRow, CommissionsAssumption DEF Init, LedgerInv, EntryRow, NoEntry, PayoutRow, NoPayout, Owners
<1>3. EntryInv /\ PlanInv /\ ReversalInv /\ CoverInv
  BY NoPlanRow DEF Init, EntryInv, PlanInv, ReversalInv, CoverInv, Made, NoEntry, InForce, NoPayout
<1> QED BY <1>1, <1>2, <1>3 DEF IInv, ChargeInv, BookInv

\* A step that leaves the ledger and the events in work alone.
LEMMA KeepInv ==
    ASSUME BookInv, Keep, UNCHANGED handling
    PROVE  BookInv'
BY DEF BookInv, Keep, ledgerVars, LedgerInv, EntryInv, PlanInv, ReversalInv, CoverInv, Made, Busy,
   Carries, InForce

\* A new draft takes the events of the older one out of work, which had no row and no plan.
LEMMA KeepPostInvoice ==
    ASSUME ChargeInv, BookInv, Keep, NEW c \in Creators, PostInvoice(c)
    PROVE  BookInv'
<1>1. LedgerInv /\ EntryInv /\ PlanInv /\ ReversalInv /\ CoverInv
  BY DEF BookInv
<1>2. UNCHANGED <<entry, reversal, referral, first, payout, plan, releasing, accruals, covered>>
  BY DEF Keep, ledgerVars
<1>3. LedgerInv' /\ EntryInv' /\ ReversalInv' /\ CoverInv'
  BY <1>1, <1>2 DEF LedgerInv, EntryInv, ReversalInv, CoverInv, Made, Carries, InForce
<1>4. CASE UNCHANGED handling
  BY <1>1, <1>2, <1>3, <1>4 DEF BookInv, PlanInv, Made, Busy
<1>5. CASE handling' = [w \in Webhooks |-> IF handling[w].event.month = creation[c].month THEN NoHandling
                                          ELSE handling[w]]
  <2>1. ~Present(creation[c].month)
    BY DEF ChargeInv, CreationInv, PostInvoice, HoldsAccount
  <2>2. \A w \in Webhooks : handling[w].event.month = creation[c].month => plan[w] = NoPlan
    BY <1>1, <2>1 DEF ChargeInv, HandlingInv, PlanInv
  <2>3. \A w \in Webhooks : \/ handling'[w] = handling[w]
                           \/ plan[w] = NoPlan
    BY <1>5, <2>2
  <2>4. PlanInv'
    <3> SUFFICES ASSUME NEW w \in Webhooks
                 PROVE  /\ handling'[w].was = "absent" => plan[w] = NoPlan
                        /\ plan[w].claw # 0 => IsReturn(handling'[w].event)
                        /\ \A k \in DOMAIN plan[w].left :
                                k \in Kinds /\ handling'[w].event # NoEvent /\ Made(<<handling'[w].event.month, k>>)
      BY <1>2 DEF PlanInv, Made, Busy
    <3> QED BY <1>1, <2>3, NoPlanRow DEF PlanInv, Busy
  <2> QED BY <1>3, <2>4 DEF BookInv
<1> QED BY <1>3, <1>4, <1>5 DEF BookInv, PostInvoice

\* A step that leaves the invoices and Stripe alone.
LEMMA InvoicesKept ==
    ASSUME ChargeInv, UNCHANGED <<invoice, creation, stripe, keys, charge, events, handling, made>>
    PROVE  ChargeInv'
BY DEF ChargeInv, InvoicesInv, EventsInv, MonthInv, CreationInv, HandlingInv, Present, Busy, HoldsAccount

LEMMA NextIInv == IInv /\ [Next]_vars => IInv'
<1> SUFFICES ASSUME IInv, [Next]_vars PROVE IInv'
  OBVIOUS
<1>0. ChargeInv /\ BookInv /\ EventsInv
  BY DEF IInv, ChargeInv
<1>1. ASSUME NEW c \in Creators, CreatorStep(c), Keep
      PROVE  IInv'
  <2>1. UNCHANGED handling \/ PostInvoice(c)
    BY <1>1 DEF CreatorStep, Begin, Reserve, PostLines, PostFinalize, CommitInvoice, Abandon
  <2>2. ChargeInv'
    BY <1>0, <1>1, BeginInv, ReserveInv, PostInvoiceInv, PostLinesInv, PostFinalizeInv, CommitInvoiceInv,
       AbandonInv DEF CreatorStep
  <2> QED BY <1>0, <1>1, <2>1, <2>2, KeepInv, KeepPostInvoice DEF IInv
<1>2. ASSUME NEW m \in Months, StripeStep(m), Keep
      PROVE  IInv'
  <2>1. UNCHANGED handling
    BY <1>2 DEF StripeStep, KeysRunOut, AutoAdvance, PaymentFails, Pay, GiveUpOn, Emits, Refund,
       CreditNote, Return
  <2>2. ChargeInv'
    BY <1>0, <1>2, KeysRunOutInv, AutoAdvanceInv, PaymentFailsInv, PayInv, GiveUpOnInv, RefundInv, CreditNoteInv
       DEF StripeStep
  <2> QED BY <1>0, <1>2, <2>1, <2>2, KeepInv DEF IInv
<1>3. ASSUME NEW w \in Webhooks, WebhookStep(w)
      PROVE  IInv'
  <2>1. CASE \E e \in events : Take(w, e)
    BY <1>0, <2>1, TakeInv, TakeEventInv DEF IInv, Take
  <2>2. CASE Store(w)
    BY <1>0, <2>2, StoreInv, StoreEventInv DEF IInv, Store
  <2>3. CASE Drop(w)
    BY <1>0, <2>3, DropInv, DropEventInv DEF IInv, Drop
  <2> QED BY <1>3, <2>1, <2>2, <2>3 DEF WebhookStep
<1>4. CASE WorkerStep
  <2>1. ChargeInv'
    BY <1>0, <1>4, InvoicesKept DEF WorkerStep, ReadHeld, Release, invoicingVars
  <2> QED BY <1>0, <1>4, <2>1, ReadHeldInv, ReleaseInv DEF IInv, WorkerStep
<1>5. CASE OperatorStep
  <2>1. ChargeInv'
    BY <1>0, <1>5, InvoicesKept DEF OperatorStep, CreatePayout, MarkPaid, CancelPayout, invoicingVars
  <2> QED BY <1>0, <1>5, <2>1, CreatePayoutInv, MarkPaidInv, CancelPayoutInv DEF IInv, OperatorStep
<1>6. CASE MoveReferral
  <2>1. ChargeInv'
    BY <1>0, <1>6, InvoicesKept DEF MoveReferral
  <2>2. BookInv'
    BY <1>0, <1>6 DEF MoveReferral, Owners, BookInv, LedgerInv, EntryInv, PlanInv, ReversalInv, CoverInv, Made,
       Busy, Carries, InForce
  <2> QED BY <2>1, <2>2 DEF IInv
<1>7. CASE UNCHANGED vars
  <2>1. ChargeInv'
    BY <1>0, <1>7, InvoicesKept DEF vars, invoicingVars
  <2> QED BY <1>0, <1>7, <2>1, KeepInv DEF IInv, vars, invoicingVars, Keep
<1> QED BY <1>1, <1>2, <1>3, <1>4, <1>5, <1>6, <1>7 DEF Next

-----------------------------------------------------------------------------
(* Sums over a finite set.  SumFunctionOnSet is a recursive function on the   *)
(* subsets of the set; what holds of every subset is shown at a smallest one   *)
(* of which it does not.                                                      *)

AnyOf(s) == CHOOSE x \in s : TRUE

IsSum(g, f, S) == g = [s \in SUBSET S |-> IF s = {} THEN 0 ELSE f[AnyOf(s)] + g[s \ {AnyOf(s)}]]

SumOn(f, S) == CHOOSE g : IsSum(g, f, S)

LEMMA Smallest ==
    ASSUME NEW S, IsFiniteSet(S), NEW Bad \in SUBSET (SUBSET S), Bad # {}
    PROVE  \E T \in Bad : \A U \in SUBSET T : U # T => U \notin Bad
<1>1. IsWellFoundedOn(StrictSubsetOrdering(S), FiniteSubsetsOf(S))
  BY FS_StrictSubsetOrderingWellFounded
<1>2. Bad \subseteq FiniteSubsetsOf(S)
  BY FS_FiniteSubsetsOfFinite
<1>3. PICK T \in Bad : \A U \in Bad : <<U, T>> \notin StrictSubsetOrdering(S)
  BY <1>1, <1>2, WFMin
<1> QED BY <1>3 DEF StrictSubsetOrdering

LEMMA SumUnfolds ==
    ASSUME NEW f, NEW S
    PROVE  SumFunctionOnSet(f, S) = SumOn(f, S)[S]
BY DEF SumFunctionOnSet, FoldFunctionOnSet, MapThenFoldSet, SumOn, IsSum, AnyOf

LEMMA AnyOfIn ==
    ASSUME NEW s, s # {}
    PROVE  AnyOf(s) \in s
BY DEF AnyOf

LEMMA SumStep ==
    ASSUME NEW g, NEW f, NEW S, IsSum(g, f, S), NEW s \in SUBSET S
    PROVE  g[s] = IF s = {} THEN 0 ELSE f[AnyOf(s)] + g[s \ {AnyOf(s)}]
<1>1. g = [t \in SUBSET S |-> IF t = {} THEN 0 ELSE f[AnyOf(t)] + g[t \ {AnyOf(t)}]]
  BY DEF IsSum
<1> QED BY <1>1

\* Two sums agree where both are defined.
LEMMA SumUnique ==
    ASSUME NEW f, NEW S, IsFiniteSet(S), NEW U \in SUBSET S,
           NEW g, IsSum(g, f, S), NEW h, IsSum(h, f, U)
    PROVE  \A T \in SUBSET U : g[T] = h[T]
<1> DEFINE Bad == {T \in SUBSET U : g[T] # h[T]}
<1> SUFFICES ASSUME Bad # {} PROVE FALSE
  OBVIOUS
<1>1. Bad \in SUBSET (SUBSET S)
  OBVIOUS
<1>2. PICK T \in Bad : \A V \in SUBSET T : V # T => V \notin Bad
  <2> HIDE DEF Bad
  <2> QED BY <1>1, Smallest
<1>3. g[T] = IF T = {} THEN 0 ELSE f[AnyOf(T)] + g[T \ {AnyOf(T)}]
  BY <1>2, SumStep
<1>4. h[T] = IF T = {} THEN 0 ELSE f[AnyOf(T)] + h[T \ {AnyOf(T)}]
  BY <1>2, SumStep
<1>5. CASE T = {}
  BY <1>2, <1>3, <1>4, <1>5
<1>6. CASE T # {}
  <2>1. T \ {AnyOf(T)} \in SUBSET T /\ T \ {AnyOf(T)} # T
    BY <1>6, AnyOfIn
  <2>2. g[T \ {AnyOf(T)}] = h[T \ {AnyOf(T)}]
    BY <1>2, <2>1
  <2> QED BY <1>2, <1>3, <1>4, <1>6, <2>2
<1> QED BY <1>5, <1>6

LEMMA SumExists ==
    ASSUME NEW f, NEW S, IsFiniteSet(S)
    PROVE  IsSum(SumOn(f, S), f, S)
<1> DEFINE Has(U) == \E g : IsSum(g, f, U)
           Bad == {U \in SUBSET S : ~Has(U)}
<1>1. Has(S) => IsSum(SumOn(f, S), f, S)
  BY DEF SumOn
<1> SUFFICES ASSUME Bad # {} PROVE FALSE
  BY <1>1
<1>2. PICK U \in Bad : \A V \in SUBSET U : V # U => V \notin Bad
  <2>1. Bad \in SUBSET (SUBSET S)
    OBVIOUS
  <2> HIDE DEF Bad
  <2> QED BY <2>1, Smallest
<1>3. \A V \in SUBSET U : V # U => IsSum(SumOn(f, V), f, V)
  BY <1>2 DEF SumOn
<1>4. \A V \in SUBSET U : IsFiniteSet(V)
  BY <1>2, FS_Subset
<1> DEFINE a == AnyOf(U)
           g == [s \in SUBSET U |-> IF s # U THEN SumOn(f, s)[s]
                                    ELSE IF s = {} THEN 0 ELSE f[a] + SumOn(f, U \ {a})[U \ {a}]]
<1>5. \A s \in SUBSET U : s # U => g[s] = SumOn(f, s)[s]
  OBVIOUS
<1>6. g[U] = IF U = {} THEN 0 ELSE f[a] + SumOn(f, U \ {a})[U \ {a}]
  OBVIOUS
<1>7. g = [s \in SUBSET U |-> g[s]]
  OBVIOUS
<1> HIDE DEF g
<1>8. ASSUME NEW s \in SUBSET U
      PROVE  g[s] = IF s = {} THEN 0 ELSE f[AnyOf(s)] + g[s \ {AnyOf(s)}]
  <2> DEFINE b == AnyOf(s)
  <2>1. CASE s = U
    <3>1. CASE U # {}
      <4>1. U \ {a} \in SUBSET U /\ U \ {a} # U
        BY <3>1, AnyOfIn
      <4>2. g[U \ {a}] = SumOn(f, U \ {a})[U \ {a}]
        BY <1>5, <4>1
      <4> QED BY <1>6, <2>1, <4>2
    <3>2. CASE U = {}
      BY <1>6, <2>1, <3>2
    <3> QED BY <3>1, <3>2
  <2>2. CASE s # U /\ s = {}
    <3>1. g[s] = SumOn(f, s)[s] /\ IsSum(SumOn(f, s), f, s)
      BY <1>3, <1>5, <2>2
    <3> QED BY <2>2, <3>1, SumStep
  <2>3. CASE s # U /\ s # {}
    <3>1. s \ {b} \in SUBSET s /\ s \ {b} # U /\ s \ {b} \in SUBSET U
      BY <2>3, AnyOfIn
    <3>2. IsSum(SumOn(f, s), f, s) /\ IsSum(SumOn(f, s \ {b}), f, s \ {b})
      BY <1>3, <2>3, <3>1
    <3>3. SumOn(f, s)[s] = f[b] + SumOn(f, s)[s \ {b}]
      BY <2>3, <3>2, SumStep
    <3>4. SumOn(f, s)[s \ {b}] = SumOn(f, s \ {b})[s \ {b}]
      BY <1>4, <3>1, <3>2, SumUnique
    <3>5. g[s] = SumOn(f, s)[s] /\ g[s \ {b}] = SumOn(f, s \ {b})[s \ {b}]
      BY <1>5, <2>3, <3>1
    <3> QED BY <2>3, <3>3, <3>4, <3>5
  <2> QED BY <2>1, <2>2, <2>3
<1>9. IsSum(g, f, U)
  BY <1>7, <1>8 DEF IsSum
<1> QED BY <1>2, <1>9

\* The sum of nothing, and of a set from which the element the sum takes first is left out.
LEMMA SumFirst ==
    ASSUME NEW f, NEW S, IsFiniteSet(S)
    PROVE  /\ S = {} => SumFunctionOnSet(f, S) = 0
           /\ S # {} => /\ AnyOf(S) \in S
                        /\ SumFunctionOnSet(f, S)
                            = f[AnyOf(S)] + SumFunctionOnSet(f, S \ {AnyOf(S)})
<1> DEFINE R == S \ {AnyOf(S)}
<1>1. R \in SUBSET S /\ IsFiniteSet(R)
  BY FS_Subset
<1>2. IsSum(SumOn(f, S), f, S) /\ IsSum(SumOn(f, R), f, R)
  BY <1>1, SumExists
<1>3. SumOn(f, S)[S] = IF S = {} THEN 0 ELSE f[AnyOf(S)] + SumOn(f, S)[R]
  BY <1>2, SumStep
<1>4. SumOn(f, S)[R] = SumOn(f, R)[R]
  <2> DEFINE g == SumOn(f, S)
             h == SumOn(f, R)
  <2>1. R \in SUBSET S /\ IsSum(g, f, S) /\ IsSum(h, f, R)
    BY <1>1, <1>2
  <2> HIDE DEF g, h, R
  <2>3. g[R] = h[R]
    BY <2>1, SumUnique
  <2> QED BY <2>3 DEF g, h, R
<1>5. SumFunctionOnSet(f, S) = SumOn(f, S)[S] /\ SumFunctionOnSet(f, R) = SumOn(f, R)[R]
  BY SumUnfolds
<1> QED BY <1>3, <1>4, <1>5, AnyOfIn

LEMMA SumInt ==
    ASSUME NEW f, NEW S, IsFiniteSet(S), \A x \in S : f[x] \in Int
    PROVE  SumFunctionOnSet(f, S) \in Int
<1> DEFINE Bad == {T \in SUBSET S : SumFunctionOnSet(f, T) \notin Int}
<1> SUFFICES ASSUME Bad # {} PROVE FALSE
  OBVIOUS
<1>1. PICK T \in Bad : \A V \in SUBSET T : V # T => V \notin Bad
  <2>1. Bad \in SUBSET (SUBSET S)
    OBVIOUS
  <2> HIDE DEF Bad
  <2> QED BY <2>1, Smallest
<1>2. IsFiniteSet(T)
  BY FS_Subset
<1>3. T # {}
  <2>1. T = {} => SumFunctionOnSet(f, T) = 0
    BY <1>2, SumFirst
  <2> QED BY <1>1, <2>1
<1>4. /\ AnyOf(T) \in T
      /\ SumFunctionOnSet(f, T) = f[AnyOf(T)] + SumFunctionOnSet(f, T \ {AnyOf(T)})
  BY <1>2, <1>3, SumFirst
<1>5. SumFunctionOnSet(f, T \ {AnyOf(T)}) \in Int
  BY <1>1, <1>4
<1> QED BY <1>4, <1>5

\* Whichever element is left out.
LEMMA SumRemove ==
    ASSUME NEW f, NEW S, IsFiniteSet(S), \A x \in S : f[x] \in Int, NEW x \in S
    PROVE  SumFunctionOnSet(f, S) = f[x] + SumFunctionOnSet(f, S \ {x})
<1> DEFINE Good(T) == \A y \in T : SumFunctionOnSet(f, T) = f[y] + SumFunctionOnSet(f, T \ {y})
           Bad == {T \in SUBSET S : ~Good(T)}
<1> SUFFICES ASSUME Bad # {} PROVE FALSE
  OBVIOUS
<1>1. PICK T \in Bad : \A V \in SUBSET T : V # T => V \notin Bad
  <2>1. Bad \in SUBSET (SUBSET S)
    OBVIOUS
  <2> HIDE DEF Bad
  <2> QED BY <2>1, Smallest
<1>2. PICK y \in T : SumFunctionOnSet(f, T) # f[y] + SumFunctionOnSet(f, T \ {y})
  BY <1>1
<1> DEFINE a == AnyOf(T)
           R == T \ {a, y}
<1>3. IsFiniteSet(T) /\ IsFiniteSet(T \ {y}) /\ IsFiniteSet(R)
  BY FS_Subset
<1>4. a \in T /\ SumFunctionOnSet(f, T) = f[a] + SumFunctionOnSet(f, T \ {a})
  BY <1>2, <1>3, SumFirst
<1>5. a # y
  BY <1>2, <1>4
<1>6. Good(T \ {a}) /\ Good(T \ {y})
  BY <1>1, <1>2, <1>4
<1>7. (T \ {a}) \ {y} = R /\ (T \ {y}) \ {a} = R
  OBVIOUS
<1>8. SumFunctionOnSet(f, T \ {a}) = f[y] + SumFunctionOnSet(f, R)
  BY <1>2, <1>5, <1>6, <1>7
<1>9. SumFunctionOnSet(f, T \ {y}) = f[a] + SumFunctionOnSet(f, R)
  BY <1>4, <1>5, <1>6, <1>7
<1>10. f[a] \in Int /\ f[y] \in Int /\ SumFunctionOnSet(f, R) \in Int
  BY <1>2, <1>3, <1>4, SumInt
<1> QED BY <1>2, <1>4, <1>8, <1>9, <1>10

\* The sum of smaller values is smaller.
LEMMA SumMonotone ==
    ASSUME NEW f, NEW g, NEW S, IsFiniteSet(S),
           \A x \in S : f[x] \in Int /\ g[x] \in Int /\ f[x] <= g[x]
    PROVE  SumFunctionOnSet(f, S) <= SumFunctionOnSet(g, S)
<1> DEFINE Bad == {T \in SUBSET S : ~(SumFunctionOnSet(f, T) <= SumFunctionOnSet(g, T))}
<1> SUFFICES ASSUME Bad # {} PROVE FALSE
  OBVIOUS
<1>1. PICK T \in Bad : \A V \in SUBSET T : V # T => V \notin Bad
  <2>1. Bad \in SUBSET (SUBSET S)
    OBVIOUS
  <2> HIDE DEF Bad
  <2> QED BY <2>1, Smallest
<1>2. IsFiniteSet(T)
  BY FS_Subset
<1>3. T # {}
  <2>1. T = {} => SumFunctionOnSet(f, T) = 0 /\ SumFunctionOnSet(g, T) = 0
    BY <1>2, SumFirst
  <2> QED BY <1>1, <2>1
<1>4. PICK y : y \in T
  BY <1>3
<1> DEFINE R == T \ {y}
<1>5. SumFunctionOnSet(f, T) = f[y] + SumFunctionOnSet(f, R)
  BY <1>2, <1>4, SumRemove
<1>6. SumFunctionOnSet(g, T) = g[y] + SumFunctionOnSet(g, R)
  BY <1>2, <1>4, SumRemove
<1>7. SumFunctionOnSet(f, R) <= SumFunctionOnSet(g, R)
  BY <1>1, <1>4
<1>8. SumFunctionOnSet(f, R) \in Int /\ SumFunctionOnSet(g, R) \in Int
  <2>1. IsFiniteSet(R)
    BY <1>2, FS_Subset
  <2> QED BY <2>1, SumInt
<1>9. f[y] \in Int /\ g[y] \in Int /\ f[y] <= g[y]
  BY <1>1, <1>4
<1> HIDE DEF R
<1>10. SumFunctionOnSet(f, T) <= SumFunctionOnSet(g, T)
  BY <1>5, <1>6, <1>7, <1>8, <1>9
<1> QED BY <1>1, <1>10

\* Only the values on the set count.
LEMMA SumSame ==
    ASSUME NEW f, NEW g, NEW S, IsFiniteSet(S), \A x \in S : f[x] \in Int /\ f[x] = g[x]
    PROVE  SumFunctionOnSet(f, S) = SumFunctionOnSet(g, S)
<1>1. SumFunctionOnSet(f, S) <= SumFunctionOnSet(g, S)
  BY SumMonotone
<1>2. SumFunctionOnSet(g, S) <= SumFunctionOnSet(f, S)
  BY SumMonotone
<1>3. SumFunctionOnSet(f, S) \in Int /\ SumFunctionOnSet(g, S) \in Int
  BY SumInt
<1> QED BY <1>1, <1>2, <1>3

LEMMA SumNat ==
    ASSUME NEW f, NEW S, IsFiniteSet(S), \A x \in S : f[x] \in Nat
    PROVE  SumFunctionOnSet(f, S) \in Nat
<1> DEFINE zero == [x \in S |-> 0]
           Bad == {T \in SUBSET S : SumFunctionOnSet(zero, T) # 0}
<1>1. SumFunctionOnSet(zero, S) = 0
  <2> SUFFICES ASSUME Bad # {} PROVE FALSE
    OBVIOUS
  <2>1. PICK T \in Bad : \A V \in SUBSET T : V # T => V \notin Bad
    <3>1. Bad \in SUBSET (SUBSET S)
      OBVIOUS
    <3> HIDE DEF Bad
    <3> QED BY <3>1, Smallest
  <2>2. IsFiniteSet(T)
    BY FS_Subset
  <2>3. T # {}
    <3>1. T = {} => SumFunctionOnSet(zero, T) = 0
      BY <2>2, SumFirst
    <3> QED BY <2>1, <3>1
  <2>4. AnyOf(T) \in T /\ SumFunctionOnSet(zero, T) = zero[AnyOf(T)] + SumFunctionOnSet(zero, T \ {AnyOf(T)})
    BY <2>2, <2>3, SumFirst
  <2>5. zero[AnyOf(T)] = 0
    BY <2>1, <2>4
  <2>6. SumFunctionOnSet(zero, T \ {AnyOf(T)}) = 0
    BY <2>1, <2>4
  <2> HIDE DEF zero
  <2>7. SumFunctionOnSet(zero, T) = 0
    BY <2>4, <2>5, <2>6
  <2> QED BY <2>1, <2>7
<1>2. \A x \in S : zero[x] \in Int /\ f[x] \in Int /\ zero[x] <= f[x]
  OBVIOUS
<1> HIDE DEF zero
<1>3. SumFunctionOnSet(zero, S) <= SumFunctionOnSet(f, S)
  BY <1>2, SumMonotone
<1>4. SumFunctionOnSet(f, S) \in Int
  BY SumInt
<1> QED BY <1>1, <1>3, <1>4

\* The sum over two sets without a common element.
LEMMA SumUnion ==
    ASSUME NEW f, NEW S, IsFiniteSet(S), NEW U, IsFiniteSet(U), S \cap U = {},
           \A x \in S \cup U : f[x] \in Int
    PROVE  SumFunctionOnSet(f, S \cup U) = SumFunctionOnSet(f, S) + SumFunctionOnSet(f, U)
<1> DEFINE Good(T) == SumFunctionOnSet(f, T \cup U) = SumFunctionOnSet(f, T) + SumFunctionOnSet(f, U)
           Bad == {T \in SUBSET S : ~Good(T)}
<1> SUFFICES ASSUME Bad # {} PROVE FALSE
  OBVIOUS
<1>1. PICK T \in Bad : \A V \in SUBSET T : V # T => V \notin Bad
  <2>1. Bad \in SUBSET (SUBSET S)
    OBVIOUS
  <2> HIDE DEF Bad
  <2> QED BY <2>1, Smallest
<1>2. IsFiniteSet(T) /\ IsFiniteSet(T \cup U)
  <2>1. IsFiniteSet(T)
    BY FS_Subset
  <2> QED BY <2>1, FS_Union
<1>3. SumFunctionOnSet(f, U) \in Int
  BY SumInt
<1>4. T # {}
  <2>1. T = {} => SumFunctionOnSet(f, T) = 0
    BY <1>2, SumFirst
  <2>2. T = {} => T \cup U = U
    OBVIOUS
  <2>3. T = {} => SumFunctionOnSet(f, T \cup U) = 0 + SumFunctionOnSet(f, U)
    BY <1>3, <2>2
  <2>4. T = {} => Good(T)
    BY <2>1, <2>3
  <2> QED BY <1>1, <2>4
<1>5. PICK y : y \in T
  BY <1>4
<1> DEFINE R == T \ {y}
<1>6. f[y] \in Int /\ y \notin U /\ y \in T \cup U /\ \A x \in T \cup U : f[x] \in Int
  BY <1>1, <1>5
<1>7. SumFunctionOnSet(f, T) = f[y] + SumFunctionOnSet(f, R)
  BY <1>2, <1>5, <1>6, SumRemove
<1>8. SumFunctionOnSet(f, T \cup U) = f[y] + SumFunctionOnSet(f, R \cup U)
  <2>1. (T \cup U) \ {y} = R \cup U
    BY <1>6
  <2>2. SumFunctionOnSet(f, T \cup U) = f[y] + SumFunctionOnSet(f, (T \cup U) \ {y})
    BY <1>2, <1>6, SumRemove
  <2> QED BY <2>1, <2>2
<1>9. Good(R)
  BY <1>1, <1>5
<1>10. SumFunctionOnSet(f, R) \in Int
  <2>1. IsFiniteSet(R)
    BY <1>2, FS_Subset
  <2> QED BY <1>6, <2>1, SumInt
<1> HIDE DEF R
<1>11. Good(T)
  BY <1>3, <1>6, <1>7, <1>8, <1>9, <1>10
<1> QED BY <1>1, <1>11

LEMMA SumSubset ==
    ASSUME NEW f, NEW S, IsFiniteSet(S), \A x \in S : f[x] \in Nat, NEW T \in SUBSET S
    PROVE  SumFunctionOnSet(f, T) <= SumFunctionOnSet(f, S)
<1> DEFINE R == S \ T
<1>1. IsFiniteSet(T) /\ IsFiniteSet(R) /\ T \cap R = {} /\ T \cup R = S
  BY FS_Subset
<1>2. SumFunctionOnSet(f, T) \in Nat /\ SumFunctionOnSet(f, R) \in Nat
  BY <1>1, SumNat
<1> HIDE DEF R
<1>3. SumFunctionOnSet(f, S) = SumFunctionOnSet(f, T) + SumFunctionOnSet(f, R)
  BY <1>1, SumUnion
<1> QED BY <1>2, <1>3

-----------------------------------------------------------------------------
(* The amounts: what Stripe took back is a part of the invoice, an entry and   *)
(* what a webhook is about to leave of it are a part of what it earned, and a   *)
(* payout is at most what the lines it was created for earned.                 *)

Earned == [l \in Lines |-> Worth[l[2]]]

AccountInv == faults \in 0..MaxFaults

ReturnsInv ==
    /\ \A m \in Months : charge[m].refunded \in Nat /\ charge[m].credited \in Nat
                         /\ charge[m].refunded + charge[m].credited <= Gross
    /\ \A e \in events : e.taken \in 0..Gross
    /\ \A w \in Webhooks : handling[w].event.taken \in 0..Gross

PlanBounded(x) ==
    /\ x.made \subseteq Kinds /\ x.claw \in 0..(Bonus + Share) /\ x.first \in Months \cup {0}
    /\ \A k \in DOMAIN x.left : k \in Kinds /\ x.left[k] \in 0..Worth[k]

AmountsInv ==
    /\ \A l \in Lines : entry[l].amount \in 0..Earned[l]
    /\ \A r \in reversal : r.amount \in 1..(Bonus + Share) /\ r.status \in {"payable", "paid"}
    /\ \A w \in Webhooks : PlanBounded(plan[w])
    /\ first \in Months \cup {0}

PaidOutInv ==
    \A p \in Payouts :
        /\ payout[p].status \in {"none", "pending", "paid", "cancelled"}
        /\ payout[p].amount \in Nat
        /\ payout[p].amount <= SumFunctionOnSet(Earned, covered[p] \cap Lines)

AllInv == IInv /\ AccountInv /\ ReturnsInv /\ AmountsInv /\ PaidOutInv

LEMMA LinesFinite == IsFiniteSet(Lines) /\ IsFiniteSet(Kinds) /\ IsFiniteSet(Payouts)
<1>1. IsFiniteSet({"bonus"}) /\ IsFiniteSet({"share"})
  BY FS_Singleton
<1>2. Kinds = {"bonus"} \cup {"share"}
  BY DEF Kinds
<1>3. IsFiniteSet(Kinds)
  BY <1>1, <1>2, FS_Union
<1>4. IsFiniteSet(Lines)
  BY <1>3, FS_Product, InvoicingAssumption DEF Lines
<1>5. IsFiniteSet(Payouts)
  BY FS_Interval, CommissionsAssumption DEF Payouts
<1> QED BY <1>3, <1>4, <1>5

LEMMA EarnedNat ==
    /\ Worth["bonus"] = Bonus /\ Worth["share"] = Share
    /\ \A k \in Kinds : Worth[k] \in Nat /\ Worth[k] <= Bonus + Share
    /\ \A l \in Lines : Earned[l] = Worth[l[2]] /\ Earned[l] \in Nat /\ Earned[l] <= Bonus + Share
<1>1. Worth["bonus"] = Bonus /\ Worth["share"] = Share
  BY DEF Worth
<1>2. \A k \in Kinds : Worth[k] \in Nat /\ Worth[k] <= Bonus + Share
  BY <1>1, CommissionsAssumption DEF Kinds
<1>3. \A l \in Lines : Earned[l] = Worth[l[2]] /\ l[2] \in Kinds
  BY LinePair DEF Earned
<1> QED BY <1>1, <1>2, <1>3

\* Half to even is within the share that is rounded: a part of an amount is not more than it.
LEMMA RoundedPart ==
    ASSUME NEW a \in Nat, NEW t \in Nat, t < Gross
    PROVE  Rounded(a * t, Gross) \in 0..a
<1> DEFINE n == a * t
           q == n \div Gross
           m == n % Gross
<1>1. n \in Nat
  OBVIOUS
<1> HIDE DEF n
<1>2. q \in Nat /\ m \in Nat /\ m < Gross /\ n = q * Gross + m
  BY <1>1, InvoicingAssumption
<1>3. Rounded(n, Gross) = q \/ (Rounded(n, Gross) = q + 1 /\ 2 * m >= Gross)
  BY <1>2, InvoicingAssumption DEF Rounded
<1> HIDE DEF q, m
<1>4. CASE a = 0
  <2>1. n = 0
    BY <1>4 DEF n
  <2>2. q * Gross = 0 /\ m = 0
    <3>1. q * Gross \in Nat
      BY <1>2, InvoicingAssumption
    <3> QED BY <1>2, <2>1, <3>1
  <2>3. q = 0
    BY <1>2, <2>2, InvoicingAssumption
  <2> QED BY <1>3, <1>4, <2>2, <2>3, InvoicingAssumption DEF n
<1>5. CASE a # 0
  <2>1. n <= a * Gross - a
    <3>1. a * t <= a * (Gross - 1)
      BY InvoicingAssumption
    <3> QED BY <3>1, InvoicingAssumption DEF n
  <2>2. q < a
    <3> SUFFICES ASSUME q >= a PROVE FALSE
      BY <1>2
    <3>1. q * Gross >= a * Gross
      BY <1>2, InvoicingAssumption
    <3> QED BY <1>2, <1>5, <2>1, <3>1, InvoicingAssumption
  <2> QED BY <1>2, <1>3, <2>2 DEF n
<1> QED BY <1>4, <1>5

\* What a return takes off an entry is a part of what is left of it.
LEMMA CutPart ==
    ASSUME NEW l \in Lines, entry[l].amount \in Nat, NEW taken \in 0..Gross
    PROVE  Cut(l, taken) \in 0..entry[l].amount
<1>1. CASE entry[l].status \in {"none", "reversed"} \/ taken >= Gross \/ l[2] = "bonus"
  BY <1>1, InvoicingAssumption DEF Cut
<1>2. CASE ~(entry[l].status \in {"none", "reversed"} \/ taken >= Gross \/ l[2] = "bonus")
  <2>1. taken \in Nat /\ taken < Gross
    BY <1>2, InvoicingAssumption
  <2>2. Cut(l, taken) = Rounded(entry[l].amount * taken, Gross)
    BY <1>2 DEF Cut
  <2> QED BY <2>1, <2>2, RoundedPart
<1> QED BY <1>1, <1>2

LEMMA NoPlanBounded == PlanBounded(NoPlan)
BY CommissionsAssumption DEF PlanBounded, NoPlan

LEMMA ReversalBounded ==
    ASSUME NEW m \in Months, NEW ref, NEW taken \in 0..Gross,
           \A l \in Lines : entry[l].amount \in 0..Earned[l], NEW x \in Reversals(m, ref, taken)
    PROVE  PlanBounded(x)
<1> DEFINE cut == {k \in Kinds : Cut(<<m, k>>, taken) > 0}
           unpaid == {k \in cut : Unpaid(<<m, k>>)}
           rest == cut \ unpaid
           left == [k \in unpaid |-> entry[<<m, k>>].amount - Cut(<<m, k>>, taken)]
           taking == [k \in rest |-> Cut(<<m, k>>, taken)]
           claw == SumFunction(taking)
<1>1. \A k \in Kinds : /\ Cut(<<m, k>>, taken) \in Nat
                       /\ entry[<<m, k>>].amount \in 0..Worth[k]
                       /\ entry[<<m, k>>].amount - Cut(<<m, k>>, taken) \in 0..Worth[k]
                       /\ Cut(<<m, k>>, taken) <= Worth[k]
  <2> SUFFICES ASSUME NEW k \in Kinds
               PROVE  /\ Cut(<<m, k>>, taken) \in Nat
                      /\ entry[<<m, k>>].amount \in 0..Worth[k]
                      /\ entry[<<m, k>>].amount - Cut(<<m, k>>, taken) \in 0..Worth[k]
                      /\ Cut(<<m, k>>, taken) <= Worth[k]
    OBVIOUS
  <2> DEFINE l == <<m, k>>
  <2>1. l \in Lines /\ l[2] = k
    BY DEF Lines
  <2> HIDE DEF l
  <2>2. entry[l].amount \in 0..Worth[k] /\ Worth[k] \in Nat
    BY <2>1, EarnedNat
  <2>3. Cut(l, taken) \in 0..entry[l].amount
    BY <2>1, <2>2, CutPart
  <2> QED BY <2>2, <2>3 DEF l
<1>2. claw \in 0..(Bonus + Share)
  <2> DEFINE all == [k \in Kinds |-> Cut(<<m, k>>, taken)]
  <2>1. \A k \in Kinds : all[k] \in Nat /\ all[k] <= Worth[k]
    BY <1>1
  <2>2. rest \in SUBSET Kinds /\ \A k \in rest : taking[k] = all[k]
    OBVIOUS
  <2>3. claw = SumFunctionOnSet(taking, rest)
    BY DEF SumFunction
  <2> HIDE DEF all, taking, rest, claw
  <2>4. IsFiniteSet(Kinds) /\ IsFiniteSet(rest)
    BY <2>2, LinesFinite, FS_Subset
  <2>5. claw = SumFunctionOnSet(all, rest) /\ claw \in Nat
    <3>1. \A k \in rest : taking[k] \in Int /\ taking[k] = all[k] /\ all[k] \in Nat
      BY <2>1, <2>2
    <3>2. SumFunctionOnSet(taking, rest) = SumFunctionOnSet(all, rest)
      BY <2>4, <3>1, SumSame
    <3>3. SumFunctionOnSet(all, rest) \in Nat
      BY <2>4, <3>1, SumNat
    <3> QED BY <2>3, <3>2, <3>3
  <2>6. SumFunctionOnSet(all, rest) <= SumFunctionOnSet(all, Kinds)
    BY <2>1, <2>2, <2>4, SumSubset
  <2>7. SumFunctionOnSet(all, Kinds) = all["bonus"] + all["share"]
    <3>1. Kinds \ {"bonus"} = {"share"} /\ {"share"} \ {"share"} = {} /\ "bonus" \in Kinds /\ "share" \in Kinds
      BY DEF Kinds
    <3>2. SumFunctionOnSet(all, Kinds) = all["bonus"] + SumFunctionOnSet(all, {"share"})
      BY <2>1, <2>4, <3>1, SumRemove
    <3>3. IsFiniteSet({"share"}) /\ IsFiniteSet({})
      BY FS_Singleton, FS_EmptySet
    <3>4. SumFunctionOnSet(all, {"share"}) = all["share"] + SumFunctionOnSet(all, {})
      BY <2>1, <3>1, <3>3, SumRemove
    <3>5. SumFunctionOnSet(all, {}) = 0
      BY <3>3, SumFirst
    <3> QED BY <2>1, <3>1, <3>2, <3>4, <3>5
  <2>8. all["bonus"] \in Nat /\ all["share"] \in Nat /\ all["bonus"] <= Bonus /\ all["share"] <= Share
    BY <2>1, EarnedNat DEF Kinds
  <2> QED BY <2>5, <2>6, <2>7, <2>8, CommissionsAssumption
<1>3. DOMAIN left = unpaid /\ \A k \in unpaid : k \in Kinds /\ left[k] \in 0..Worth[k]
  BY <1>1
<1>4. x = NoPlan \/ \E a : x = [NoPlan EXCEPT !.of = a, !.left = left, !.claw = claw]
  BY DEF Reversals
<1> HIDE DEF left, claw, unpaid
<1>5. x = NoPlan \/ \E a : x = [of |-> a, made |-> {}, first |-> 0, left |-> left, claw |-> claw]
  BY <1>4 DEF NoPlan
<1>6. ASSUME NEW a, x = [of |-> a, made |-> {}, first |-> 0, left |-> left, claw |-> claw]
      PROVE  PlanBounded(x)
  BY <1>2, <1>3, <1>6 DEF PlanBounded
<1> QED BY <1>5, <1>6, NoPlanBounded

LEMMA AccrualBounded ==
    ASSUME NEW m \in Months, first \in Months \cup {0}
    PROVE  PlanBounded(Accrual(m))
<1> DEFINE earned == {k \in Kinds :
                IF k = "bonus" THEN \A e \in Months : ~Made(<<e, k>>) \/ entry[<<e, k>>].of # referral
                ELSE ~Made(<<m, k>>) /\ m < FirstPaid(m) + ShareMonths}
           month == IF FirstPaid(m) # first THEN FirstPaid(m) ELSE 0
<1>1. Accrual(m) = IF referral = NoOne THEN NoPlan
                   ELSE [NoPlan EXCEPT !.of = referral, !.first = month, !.made = earned]
  BY DEF Accrual
<1>2. earned \subseteq Kinds /\ month \in Months \cup {0}
  BY DEF FirstPaid
<1> HIDE DEF earned, month
<1>3. Accrual(m) = NoPlan
      \/ Accrual(m) = [of |-> referral, made |-> earned, first |-> month, left |-> <<>>, claw |-> 0]
  BY <1>1 DEF NoPlan
<1>4. CASE Accrual(m) = [of |-> referral, made |-> earned, first |-> month, left |-> <<>>, claw |-> 0]
  BY <1>2, <1>4, CommissionsAssumption DEF PlanBounded
<1> QED BY <1>3, <1>4, NoPlanBounded

LEMMA ReturnsStep ==
    ASSUME IInv, ReturnsInv, [Next]_vars
    PROVE  ReturnsInv'
<1>1. InvoicesInv /\ EventsInv
  BY DEF IInv, ChargeInv
<1>2. ASSUME UNCHANGED <<charge, handling>>, \A e \in events' : e \in events \/ e.taken \in 0..Gross
      PROVE  ReturnsInv'
  BY <1>2 DEF ReturnsInv
<1>3. ASSUME NEW m, NEW type, NEW status PROVE EventOf(m, type, status).taken \in 0..Gross
  BY InvoicingAssumption DEF EventOf
<1>4. ASSUME NEW c \in Creators, CreatorStep(c) PROVE ReturnsInv'
  <2>1. CASE PostInvoice(c)
    <3> DEFINE m == creation[c].month
    <3>1. CASE "invoice" \in keys[m]
      BY <1>2, <2>1, <3>1 DEF PostInvoice
    <3>2. CASE "invoice" \notin keys[m]
      <4>1. /\ charge' = [charge EXCEPT ![m] = [refunded |-> 0, credited |-> 0]]
            /\ events' \subseteq events
            /\ handling' = [w \in Webhooks |-> IF handling[w].event.month = m THEN NoHandling ELSE handling[w]]
        BY <2>1, <3>2 DEF PostInvoice
      <4>2. NoHandling.event.taken \in 0..Gross
        BY InvoicingAssumption DEF NoHandling, NoEvent
      <4>3. \A w \in Webhooks : handling'[w].event.taken \in 0..Gross
        BY <4>1, <4>2 DEF ReturnsInv
      <4>4. \A n \in Months : charge'[n].refunded \in Nat /\ charge'[n].credited \in Nat
                              /\ charge'[n].refunded + charge'[n].credited <= Gross
        BY <1>1, <4>1, InvoicingAssumption DEF ReturnsInv, InvoicesInv
      <4> QED BY <4>1, <4>3, <4>4 DEF ReturnsInv
    <3> QED BY <3>1, <3>2
  <2>2. CASE PostFinalize(c)
    <3>1. \/ events' = events
          \/ events' = events \cup {EventOf(creation[c].month, "finalized", "open")}
      BY <2>2 DEF PostFinalize
    <3>2. UNCHANGED <<charge, handling>>
      BY <2>2 DEF PostFinalize
    <3> QED BY <1>2, <1>3, <3>1, <3>2
  <2>3. CASE ~PostFinalize(c) /\ ~PostInvoice(c)
    <3>1. UNCHANGED <<charge, handling, events>>
      BY <1>4, <2>3 DEF CreatorStep, Begin, Reserve, PostLines, CommitInvoice, Abandon
    <3> QED BY <1>2, <3>1
  <2> QED BY <2>1, <2>2, <2>3
<1>5. ASSUME NEW m \in Months, StripeStep(m) PROVE ReturnsInv'
  <2>1. CASE \/ KeysRunOut(m) \/ AutoAdvance(m) \/ PaymentFails(m) \/ Pay(m)
             \/ GiveUpOn(m, "void") \/ GiveUpOn(m, "uncollectible")
    BY <1>2, <1>3, <2>1 DEF KeysRunOut, AutoAdvance, PaymentFails, Pay, GiveUpOn, Emits
  <2>2. /\ charge[m].refunded \in Nat /\ charge[m].credited \in Nat
        /\ charge \in [Months -> [refunded : Int, credited : Int]]
    BY <1>1 DEF ReturnsInv, InvoicesInv
  <2>3. CASE Refund(m)
    <3>1. PICK part \in 1..(Gross - charge[m].refunded - charge[m].credited) :
            /\ charge' = [charge EXCEPT ![m].refunded = charge[m].refunded + part]
            /\ Return(m, "refund", charge[m].refunded + part)
      BY <2>3 DEF Refund
    <3>2. /\ charge'[m].refunded = charge[m].refunded + part /\ charge'[m].credited = charge[m].credited
          /\ \A n \in Months : n # m => charge'[n] = charge[n]
      BY <2>2, <3>1
    <3>3. charge[m].refunded + part \in 0..Gross
      BY <2>2, InvoicingAssumption
    <3>4. /\ events' = events \cup {[EventOf(m, "refund", "paid") EXCEPT !.taken = charge[m].refunded + part]}
          /\ UNCHANGED handling
      BY <3>1 DEF Return
    <3>5. \A e \in events' : e.taken \in 0..Gross
      BY <3>3, <3>4 DEF ReturnsInv, EventOf
    <3> QED BY <2>2, <3>2, <3>4, <3>5, InvoicingAssumption DEF ReturnsInv
  <2>4. CASE CreditNote(m)
    <3>1. PICK part \in 1..(Gross - charge[m].refunded - charge[m].credited) :
            /\ charge[m].credited = 0
            /\ charge' = [charge EXCEPT ![m].credited = part]
            /\ Return(m, "credit_note", part)
      BY <2>4 DEF CreditNote
    <3>2. /\ charge'[m].refunded = charge[m].refunded /\ charge'[m].credited = part
          /\ \A n \in Months : n # m => charge'[n] = charge[n]
      BY <2>2, <3>1
    <3>3. part \in 0..Gross
      BY <2>2, InvoicingAssumption
    <3>4. /\ events' = events \cup {[EventOf(m, "credit_note", "paid") EXCEPT !.taken = part]}
          /\ UNCHANGED handling
      BY <3>1 DEF Return
    <3>5. \A e \in events' : e.taken \in 0..Gross
      BY <3>3, <3>4 DEF ReturnsInv, EventOf
    <3> QED BY <2>2, <3>1, <3>2, <3>4, <3>5, InvoicingAssumption DEF ReturnsInv
  <2> QED BY <1>5, <2>1, <2>3, <2>4 DEF StripeStep
<1>6. ASSUME NEW w \in Webhooks, WebhookStep(w) PROVE ReturnsInv'
  <2>1. NoEvent.taken \in 0..Gross
    BY InvoicingAssumption DEF NoEvent
  <2>2. PICK e : /\ e = NoEvent \/ e \in events
                 /\ handling'[w].event = e /\ \A v \in Webhooks : v # w => handling'[v] = handling[v]
                 /\ events' \subseteq events /\ UNCHANGED charge
    <3>1. CASE \E e \in events : Take(w, e)
      BY <1>1, <3>1 DEF EventsInv, Take, TakeEvent
    <3>2. CASE Store(w)
      BY <1>1, <3>2 DEF EventsInv, Store, StoreEvent, Done, NoHandling
    <3>3. CASE Drop(w)
      BY <1>1, <3>3 DEF EventsInv, Drop, DropEvent, Done, NoHandling
    <3> QED BY <1>6, <3>1, <3>2, <3>3 DEF WebhookStep
  <2>3. \A v \in Webhooks : handling'[v].event.taken \in 0..Gross
    BY <2>1, <2>2 DEF ReturnsInv
  <2> QED BY <2>2, <2>3 DEF ReturnsInv
<1>7. CASE WorkerStep \/ OperatorStep \/ MoveReferral \/ UNCHANGED vars
  BY <1>2, <1>7 DEF WorkerStep, ReadHeld, Release, OperatorStep, CreatePayout, MarkPaid, CancelPayout,
     MoveReferral, vars, invoicingVars
<1> QED BY <1>4, <1>5, <1>6, <1>7 DEF Next

LEMMA AccountStep ==
    ASSUME AccountInv, [Next]_vars
    PROVE  AccountInv'
<1> USE InvoicingAssumption DEF AccountInv
<1> DEFINE Counted == faults' = faults \/ (faults < MaxFaults /\ faults' = faults + 1)
<1>1. Counted
  <2>1. ASSUME NEW c \in Creators, CreatorStep(c) PROVE Counted
    BY <2>1 DEF CreatorStep, Begin, Reserve, PostInvoice, PostLines, PostFinalize, CommitInvoice, Abandon
  <2>2. ASSUME NEW m \in Months, StripeStep(m) PROVE Counted
    BY <2>2 DEF StripeStep, KeysRunOut, AutoAdvance, PaymentFails, Pay, GiveUpOn, Emits, Refund,
       CreditNote, Return
  <2>3. ASSUME NEW w \in Webhooks, WebhookStep(w) PROVE Counted
    BY <2>3 DEF WebhookStep, Take, TakeEvent, Store, StoreEvent, Drop, DropEvent
  <2>4. CASE WorkerStep \/ OperatorStep \/ MoveReferral \/ UNCHANGED vars
    BY <2>4 DEF WorkerStep, ReadHeld, Release, OperatorStep, CreatePayout, MarkPaid, CancelPayout,
       MoveReferral, vars, invoicingVars
  <2> QED BY <2>1, <2>2, <2>3, <2>4 DEF Next
<1> QED BY <1>1

LEMMA TakeAmounts ==
    ASSUME IInv, ReturnsInv, AmountsInv, NEW w \in Webhooks, NEW e \in events, Take(w, e)
    PROVE  AmountsInv'
<1>1. LedgerInv /\ EventsInv
  BY DEF IInv, BookInv, ChargeInv
<1>2. e.month \in Months /\ e.taken \in 0..Gross
  BY <1>1 DEF ReturnsInv, EventsInv, EventRows, Types, NoEvent
<1>3. PICK x : plan' = [plan EXCEPT ![w] = x] /\ PlanBounded(x)
  <2>1. CASE invoice[e.month] = "absent"
    BY <2>1, NoPlanBounded DEF Take
  <2>2. CASE invoice[e.month] # "absent" /\ IsReturn(e)
    <3>1. \A x \in Reversals(e.month, e.type, e.taken) : PlanBounded(x)
      BY <1>2, ReversalBounded DEF AmountsInv
    <3> QED BY <2>2, <3>1 DEF Take
  <2>3. CASE invoice[e.month] # "absent" /\ ~IsReturn(e) /\ TurnsPaid(e, invoice[e.month])
    <3>1. PlanBounded(Accrual(e.month))
      BY <1>2, AccrualBounded DEF AmountsInv
    <3> QED BY <2>3, <3>1 DEF Take
  <2>4. CASE invoice[e.month] # "absent" /\ ~IsReturn(e) /\ ~TurnsPaid(e, invoice[e.month])
    BY <2>4, NoPlanBounded DEF Take
  <2> QED BY <2>1, <2>2, <2>3, <2>4
<1>4. UNCHANGED <<entry, reversal, first>>
  BY DEF Take
<1>5. \A v \in Webhooks : PlanBounded(plan'[v])
  BY <1>1, <1>3 DEF LedgerInv, AmountsInv
<1> QED BY <1>4, <1>5 DEF AmountsInv, PlanBounded

LEMMA StoreAmounts ==
    ASSUME IInv, AmountsInv, NEW w \in Webhooks, Store(w)
    PROVE  AmountsInv'
<1> DEFINE e == handling[w].event
<1>1. LedgerInv /\ EventsInv /\ PlanBounded(plan[w])
  BY DEF IInv, BookInv, ChargeInv, AmountsInv
<1>2. \A l \in Lines : entry'[l].amount \in 0..Earned[l]
  <2> SUFFICES ASSUME NEW l \in Lines PROVE entry'[l].amount \in 0..Earned[l]
    OBVIOUS
  <2>1. /\ entry[l].amount \in 0..Earned[l] /\ EntryRow(entry[l])
        /\ Earned[l] = Worth[l[2]] /\ Earned[l] \in Nat /\ l[2] \in Kinds
    BY <1>1, EarnedNat, LinePair DEF AmountsInv, LedgerInv
  <2>2. CASE l[1] = e.month /\ l[2] \in plan[w].made
    <3>1. entry'[l] = [status |-> "held", of |-> plan[w].of, amount |-> Worth[l[2]], payout |-> 0]
      BY <2>2 DEF Store, WriteEntries
    <3> QED BY <2>1, <3>1
  <2>3. CASE ~(l[1] = e.month /\ l[2] \in plan[w].made) /\ l[1] = e.month /\ l[2] \in DOMAIN plan[w].left
    <3>1. \/ entry'[l] = [entry[l] EXCEPT !.status = "reversed"]
          \/ entry'[l] = [entry[l] EXCEPT !.amount = plan[w].left[l[2]]]
      BY <2>3 DEF Store, WriteEntries
    <3>2. \/ entry'[l] = [status |-> "reversed", of |-> entry[l].of, amount |-> entry[l].amount, payout |-> entry[l].payout]
          \/ entry'[l] = [status |-> entry[l].status, of |-> entry[l].of, amount |-> plan[w].left[l[2]], payout |-> entry[l].payout]
      BY <2>1, <3>1 DEF EntryRow
    <3>3. plan[w].left[l[2]] \in 0..Worth[l[2]]
      BY <1>1, <2>3 DEF PlanBounded
    <3> QED BY <2>1, <3>2, <3>3
  <2>4. CASE ~(l[1] = e.month /\ l[2] \in plan[w].made) /\ ~(l[1] = e.month /\ l[2] \in DOMAIN plan[w].left)
    <3>1. entry'[l] = entry[l]
      BY <2>4 DEF Store, WriteEntries
    <3> QED BY <2>1, <3>1
  <2> QED BY <2>2, <2>3, <2>4
<1>3. \A r \in reversal' : r.amount \in 1..(Bonus + Share) /\ r.status \in {"payable", "paid"}
  <2>1. CASE plan[w].claw = 0
    BY <2>1 DEF Store, WriteReversal, AmountsInv
  <2>2. CASE plan[w].claw # 0
    <3>1. reversal' = reversal \cup {[month |-> e.month, ref |-> e.type, of |-> plan[w].of, amount |-> plan[w].claw,
                                      status |-> "payable", payout |-> 0]}
      BY <2>2 DEF Store, WriteReversal
    <3>2. plan[w].claw \in 1..(Bonus + Share)
      BY <1>1, <2>2, CommissionsAssumption DEF PlanBounded
    <3> QED BY <3>1, <3>2 DEF AmountsInv
  <2> QED BY <2>1, <2>2
<1>4. \A v \in Webhooks : PlanBounded(plan'[v])
  BY <1>1, NoPlanBounded DEF Store, LedgerInv, AmountsInv
<1>5. first' \in Months \cup {0}
  BY <1>1 DEF Store, AmountsInv, PlanBounded
<1> QED BY <1>2, <1>3, <1>4, <1>5 DEF AmountsInv, PlanBounded, Earned

\* A step that changes no amount.
LEMMA AmountsKept ==
    ASSUME AmountsInv, first' \in {first, 0}, \A w \in Webhooks : plan'[w] \in {plan[w], NoPlan},
           \A l \in Lines : entry'[l].amount = entry[l].amount,
           \A s \in reversal' : \E r \in reversal : s.amount = r.amount /\ s.status \in {r.status, "paid"}
    PROVE  AmountsInv'
<1>1. \A w \in Webhooks : PlanBounded(plan'[w])
  BY NoPlanBounded DEF AmountsInv
<1>2. \A s \in reversal' : s.amount \in 1..(Bonus + Share) /\ s.status \in {"payable", "paid"}
  BY DEF AmountsInv
<1>3. first' \in Months \cup {0} /\ \A l \in Lines : entry'[l].amount \in 0..Earned[l]
  BY DEF AmountsInv
<1> QED BY <1>1, <1>2, <1>3 DEF AmountsInv, PlanBounded, Earned

LEMMA AmountsStep ==
    ASSUME IInv, ReturnsInv, AmountsInv, [Next]_vars
    PROVE  AmountsInv'
<1>1. LedgerInv
  BY DEF IInv, BookInv
<1>2. /\ \A l \in Lines : /\ EntryRow(entry[l])
                          /\ \A s : [entry[l] EXCEPT !.status = s].amount = entry[l].amount
                          /\ \A n : [entry[l] EXCEPT !.payout = n].amount = entry[l].amount
      /\ \A r \in reversal : ReversalRow(r)
  BY <1>1 DEF LedgerInv, EntryRow
<1>3. \A r \in reversal :
        /\ [r EXCEPT !.status = "paid"].amount = r.amount /\ [r EXCEPT !.status = "paid"].status = "paid"
        /\ \A n : [r EXCEPT !.payout = n].amount = r.amount /\ [r EXCEPT !.payout = n].status = r.status
  BY <1>2 DEF ReversalRow
<1>4. ASSUME ledgerVars' = ledgerVars PROVE AmountsInv'
  BY <1>4, AmountsKept DEF ledgerVars
<1>5. ASSUME NEW w \in Webhooks, WebhookStep(w) PROVE AmountsInv'
  <2>1. CASE Drop(w)
    <3>1. UNCHANGED <<entry, reversal, first>> /\ plan' = [plan EXCEPT ![w] = NoPlan]
      BY <2>1 DEF Drop
    <3>2. \A v \in Webhooks : plan'[v] \in {plan[v], NoPlan}
      BY <1>1, <3>1 DEF LedgerInv
    <3> QED BY <3>1, <3>2, AmountsKept
  <2> QED BY <1>5, <2>1, TakeAmounts, StoreAmounts DEF WebhookStep
<1>6. CASE ReadHeld \/ MoveReferral
  BY <1>6, AmountsKept DEF ReadHeld, MoveReferral
<1>7. CASE Release
  <2>1. \A l \in Lines : entry'[l].amount = entry[l].amount
    BY <1>2, <1>7 DEF Release
  <2> QED BY <1>7, <2>1, AmountsKept DEF Release
<1>8. ASSUME NEW p \in Payouts, (\E a \in Ambassadors : CreatePayout(p, a)) \/ MarkPaid(p) \/ CancelPayout(p)
      PROVE  AmountsInv'
  <2>1. \A l \in Lines : \/ entry'[l] = entry[l]
                         \/ \E s : entry'[l] = [entry[l] EXCEPT !.status = s]
                         \/ \E n : entry'[l] = [entry[l] EXCEPT !.payout = n]
    <3>1. CASE \E a \in Ambassadors : CreatePayout(p, a)
      BY <3>1 DEF CreatePayout
    <3>2. CASE MarkPaid(p)
      BY <3>2 DEF MarkPaid
    <3>3. CASE CancelPayout(p)
      BY <3>3 DEF CancelPayout
    <3> QED BY <1>8, <3>1, <3>2, <3>3
  <2>2. \A s \in reversal' : \E r \in reversal : \/ s = r
                                                 \/ s = [r EXCEPT !.status = "paid"]
                                                 \/ \E n : s = [r EXCEPT !.payout = n]
    <3>1. CASE \E a \in Ambassadors : CreatePayout(p, a)
      BY <3>1 DEF CreatePayout, ReadyReversals
    <3>2. CASE MarkPaid(p)
      BY <3>2 DEF MarkPaid
    <3>3. CASE CancelPayout(p)
      BY <3>3 DEF CancelPayout
    <3> QED BY <1>8, <3>1, <3>2, <3>3
  <2>4. ASSUME NEW l \in Lines PROVE entry'[l].amount = entry[l].amount
    <3>1. CASE entry'[l] = entry[l]
      BY <3>1
    <3>2. ASSUME NEW s, entry'[l] = [entry[l] EXCEPT !.status = s] PROVE entry'[l].amount = entry[l].amount
      BY <1>2, <3>2
    <3>3. ASSUME NEW n, entry'[l] = [entry[l] EXCEPT !.payout = n] PROVE entry'[l].amount = entry[l].amount
      BY <1>2, <3>3
    <3> QED BY <2>1, <3>1, <3>2, <3>3
  <2>5. ASSUME NEW s \in reversal'
        PROVE  \E r \in reversal : s.amount = r.amount /\ s.status \in {r.status, "paid"}
    <3>1. PICK r \in reversal : \/ s = r
                                \/ s = [r EXCEPT !.status = "paid"]
                                \/ \E n : s = [r EXCEPT !.payout = n]
      BY <2>2
    <3>2. ASSUME NEW n, s = [r EXCEPT !.payout = n] PROVE s.amount = r.amount /\ s.status = r.status
      BY <1>3, <3>2
    <3>3. CASE s = [r EXCEPT !.status = "paid"]
      BY <1>3, <3>3
    <3> QED BY <3>1, <3>2, <3>3
  <2>3. UNCHANGED <<first, plan>>
    BY <1>8 DEF CreatePayout, MarkPaid, CancelPayout
  <2> QED BY <2>3, <2>4, <2>5, AmountsKept
<1> QED BY <1>4, <1>5, <1>6, <1>7, <1>8 DEF Next, Keep, vars, WorkerStep, OperatorStep

\* What a payout is created for: the sum of the lines that are ready is at most what they earned.
LEMMA TotalEarned ==
    ASSUME IInv, AmountsInv, NEW a \in Ambassadors
    PROVE  Total(a) \in Int /\ Total(a) <= SumFunctionOnSet(Earned, Ready(a))
<1>1. IsFiniteSet(Ready(a)) /\ Ready(a) \subseteq Lines
  BY LinesFinite, FS_Subset DEF Ready
<1>2. IsFiniteSet(ReadyReversals(a))
  <2> DEFINE key == [r \in reversal |-> <<r.month, r.ref>>]
  <2>1. key \in [reversal -> Months \X Refs]
    BY DEF IInv, BookInv, LedgerInv, ReversalRow
  <2>2. \A r, s \in reversal : key[r] = key[s] => r = s
    BY DEF IInv, BookInv, ReversalInv
  <2>3. key \in Injection(reversal, Months \X Refs)
    BY <2>1, <2>2 DEF Injection, IsInjective
  <2>4. IsFiniteSet(Refs)
    <3>1. IsFiniteSet({"refund"}) /\ IsFiniteSet({"credit_note"})
      BY FS_Singleton
    <3>2. Refs = {"refund"} \cup {"credit_note"}
      BY DEF Refs
    <3> QED BY <3>1, <3>2, FS_Union
  <2>5. IsFiniteSet(Months \X Refs)
    BY <2>4, FS_Product, InvoicingAssumption
  <2>6. IsFiniteSet(reversal)
    <3> HIDE DEF key
    <3> QED BY <2>3, <2>5, FS_Injection
  <2> QED BY <2>6, FS_Subset DEF ReadyReversals
<1> DEFINE lines == [l \in Ready(a) |-> entry[l].amount]
           back == [r \in ReadyReversals(a) |-> r.amount]
<1>3. Total(a) = SumFunctionOnSet(lines, Ready(a)) - SumFunctionOnSet(back, ReadyReversals(a))
  BY DEF Total, SumFunction
<1>4. \A l \in Ready(a) : lines[l] \in Int /\ Earned[l] \in Int /\ lines[l] <= Earned[l]
  BY <1>1, EarnedNat DEF AmountsInv
<1>5. \A r \in ReadyReversals(a) : back[r] \in Nat
  BY CommissionsAssumption DEF ReadyReversals, AmountsInv
<1> HIDE DEF lines, back
<1>6. SumFunctionOnSet(lines, Ready(a)) <= SumFunctionOnSet(Earned, Ready(a))
  BY <1>1, <1>4, SumMonotone
<1>7. SumFunctionOnSet(lines, Ready(a)) \in Int /\ SumFunctionOnSet(Earned, Ready(a)) \in Int
  BY <1>1, <1>4, SumInt
<1>8. SumFunctionOnSet(back, ReadyReversals(a)) \in Nat
  BY <1>2, <1>5, SumNat
<1> QED BY <1>3, <1>6, <1>7, <1>8

LEMMA PaidOutStep ==
    ASSUME IInv, AmountsInv, PaidOutInv, [Next]_vars
    PROVE  PaidOutInv'
<1>1. LedgerInv
  BY DEF IInv, BookInv
<1>2. ASSUME UNCHANGED covered,
             \A p \in Payouts : /\ payout'[p].amount = payout[p].amount
                                /\ payout'[p].status \in {payout[p].status, "paid", "cancelled"}
      PROVE  PaidOutInv'
  BY <1>2 DEF PaidOutInv, Earned
<1>3. ASSUME UNCHANGED <<payout, covered>> PROVE PaidOutInv'
  BY <1>2, <1>3
<1>4. ASSUME NEW p \in Payouts, MarkPaid(p) \/ CancelPayout(p) PROVE PaidOutInv'
  <2>1. PICK s \in {"paid", "cancelled"} : payout' = [payout EXCEPT ![p].status = s]
    BY <1>4 DEF MarkPaid, CancelPayout
  <2>2. \A q \in Payouts : PayoutRow(payout[q])
    BY <1>1 DEF LedgerInv
  <2>3. \A q \in Payouts : /\ payout'[q].amount = payout[q].amount
                           /\ payout'[q].status \in {payout[q].status, "paid", "cancelled"}
    BY <1>1, <2>1, <2>2 DEF LedgerInv, PayoutRow
  <2> QED BY <1>2, <1>4, <2>3 DEF MarkPaid, CancelPayout
<1>5. ASSUME NEW p \in Payouts, NEW a \in Ambassadors, CreatePayout(p, a) PROVE PaidOutInv'
  <2>1. Total(a) \in Nat /\ Total(a) <= SumFunctionOnSet(Earned, Ready(a))
    BY <1>5, TotalEarned, CommissionsAssumption DEF CreatePayout
  <2>2. /\ payout' = [payout EXCEPT ![p] = [status |-> "pending", of |-> a, amount |-> Total(a)]]
        /\ covered' = [covered EXCEPT ![p] = Ready(a) \cup {<<r.month, r.ref>> : r \in ReadyReversals(a)}]
    BY <1>5 DEF CreatePayout
  <2>3. /\ payout'[p] = [status |-> "pending", of |-> a, amount |-> Total(a)]
        /\ covered'[p] = Ready(a) \cup {<<r.month, r.ref>> : r \in ReadyReversals(a)}
        /\ \A q \in Payouts : q # p => payout'[q] = payout[q] /\ covered'[q] = covered[q]
    BY <1>1, <2>2 DEF LedgerInv
  <2>4. \A r \in ReadyReversals(a) : <<r.month, r.ref>> \notin Lines
    BY <1>1 DEF LedgerInv, ReadyReversals, ReversalRow, Refs, Lines, Kinds
  <2>5. covered'[p] \cap Lines = Ready(a)
    BY <2>3, <2>4 DEF Ready
  <2>6. ASSUME NEW q \in Payouts
        PROVE  /\ payout'[q].status \in {"none", "pending", "paid", "cancelled"}
               /\ payout'[q].amount \in Nat
               /\ payout'[q].amount <= SumFunctionOnSet(Earned, covered'[q] \cap Lines)
    <3>1. CASE q = p
      <4>1. covered'[q] \cap Lines = Ready(a)
        BY <2>5, <3>1
      <4>2. payout'[q].status = "pending" /\ payout'[q].amount = Total(a)
        BY <2>3, <3>1
      <4> QED BY <2>1, <4>1, <4>2
    <3>2. CASE q # p
      BY <2>3, <3>2 DEF PaidOutInv
    <3> QED BY <3>1, <3>2
  <2> QED BY <2>6 DEF PaidOutInv, Earned
<1>6. CASE ReadHeld \/ Release \/ MoveReferral \/ \E w \in Webhooks : WebhookStep(w)
  BY <1>3, <1>6 DEF ReadHeld, Release, MoveReferral, WebhookStep, Take, Store, Drop
<1>7. CASE Keep \/ UNCHANGED vars
  BY <1>3, <1>7 DEF Keep, vars, ledgerVars
<1> QED BY <1>4, <1>5, <1>6, <1>7 DEF Next, WorkerStep, OperatorStep

LEMMA AllInvInit == Init => AllInv
<1> SUFFICES ASSUME Init PROVE AllInv
  OBVIOUS
<1>1. AccountInv /\ ReturnsInv
  BY InvoicingAssumption DEF Init, InvoicingInit, AccountInv, ReturnsInv, NoEvent, NoHandling
<1>2. AmountsInv
  BY NoPlanBounded, EarnedNat DEF Init, AmountsInv, NoEntry
<1>3. PaidOutInv
  <2> SUFFICES ASSUME NEW p \in Payouts
               PROVE  /\ payout[p].status \in {"none", "pending", "paid", "cancelled"}
                      /\ payout[p].amount \in Nat
                      /\ payout[p].amount <= SumFunctionOnSet(Earned, covered[p] \cap Lines)
    BY DEF PaidOutInv
  <2>1. covered[p] \cap Lines = {} /\ payout[p] = [status |-> "none", of |-> NoOne, amount |-> 0]
    BY DEF Init, NoPayout
  <2>2. SumFunctionOnSet(Earned, {}) = 0
    BY FS_EmptySet, SumFirst
  <2>3. payout[p].status = "none" /\ payout[p].amount = 0
    BY <2>1
  <2>4. SumFunctionOnSet(Earned, covered[p] \cap Lines) = 0
    BY <2>1, <2>2
  <2> QED BY <2>3, <2>4
<1> QED BY <1>1, <1>2, <1>3, InitIInv DEF AllInv

LEMMA AllInductive == Spec => []AllInv
<1>1. AllInv /\ [Next]_vars => AllInv'
  BY NextIInv, AccountStep, ReturnsStep, AmountsStep, PaidOutStep DEF AllInv
<1> QED BY <1>1, AllInvInit, PTL DEF Spec


-----------------------------------------------------------------------------
(* Theorems of the specification.                                            *)

LEMMA Inductive == Spec => []IInv
BY InitIInv, NextIInv, PTL DEF Spec

\* While Stripe keeps the keys of its lines, and from its row on, a month is charged at most once,
\* however creations overlap and stop, and a row stands for a whole, finalized invoice
\* (billing/stripe.py create_invoice).
THEOREM MonthsChargedOnce == Spec => []ChargedOnce
<1>1. IInv => ChargedOnce
  BY DEF IInv, ChargeInv, MonthInv, InvoicesInv, ChargedOnce
<1> QED BY <1>1, Inductive, PTL

\* The bonus and the share of an invoice are earned once, whatever order Stripe's events come in
\* and whatever two processes read before either writes (ambassadors/service.py).
THEOREM EntriesAccruedOnce == Spec => []AccruedOnce
<1>1. IInv => AccruedOnce
  BY DEF IInv, BookInv, EntryInv, LedgerInv, AccruedOnce
<1> QED BY <1>1, Inductive, PTL

\* No entry and no reversal is in two payouts in force (ambassadors/service.py create_payouts,
\* mark_paid, cancel_payout).
THEOREM LinesTransferredOnce == Spec => []TransferredOnce
<1>1. IInv => TransferredOnce
  <2> SUFFICES ASSUME IInv, NEW p \in Payouts, NEW q \in Payouts, p # q, InForce(p), InForce(q),
                      NEW l \in covered[p], l \in covered[q]
               PROVE  FALSE
    BY DEF TransferredOnce, InForce
  <2>1. Carries(l, p) /\ Carries(l, q) /\ LedgerInv /\ ReversalInv
    BY DEF IInv, BookInv, CoverInv
  <2>2. \A r \in reversal : <<r.month, r.ref>> \notin Lines
    BY <2>1 DEF LedgerInv, ReversalRow, Refs, Lines, Kinds
  <2>3. CASE l \in Lines
    BY <2>1, <2>2, <2>3 DEF Carries
  <2>4. CASE l \notin Lines
    <3>1. PICK r \in reversal : l = <<r.month, r.ref>> /\ r.payout = p
      BY <2>1, <2>4 DEF Carries
    <3>2. PICK s \in reversal : l = <<s.month, s.ref>> /\ s.payout = q
      BY <2>1, <2>4 DEF Carries
    <3>3. r.month = s.month /\ r.ref = s.ref
      BY <3>1, <3>2
    <3> QED BY <2>1, <3>1, <3>2, <3>3 DEF ReversalInv
  <2> QED BY <2>3, <2>4
<1> QED BY <1>1, Inductive, PTL

\* Every row of the ledger and of the invoices has its type: no entry is worth more than it earned
\* or less than nothing, no reversal is empty, and no payout is negative.
THEOREM LedgerTypeCorrect == Spec => []TypeOK
<1>1. AllInv => TypeOK
  <2> SUFFICES ASSUME AllInv PROVE TypeOK
    OBVIOUS
  <2>1. /\ LedgerInv /\ EntryInv /\ InvoicesInv /\ EventsInv
        /\ AccountInv /\ ReturnsInv /\ AmountsInv /\ PaidOutInv
    BY DEF AllInv, IInv, BookInv, ChargeInv
  <2>2. InvoicingTypeOK
    <3>1. charge \in [Months -> [refunded : 0..Gross, credited : 0..Gross]]
      BY <2>1, InvoicingAssumption DEF InvoicesInv, ReturnsInv
    <3>2. handling \in [Webhooks -> [event : [type : Types \cup {"none"}, month : Months \cup {0},
                                              status : AtStripe \cup {"none"}, taken : 0..Gross],
                                     was : Statuses \cup {"absent"}]]
      <4> SUFFICES ASSUME NEW w \in Webhooks
                   PROVE  handling[w].event \in [type : Types \cup {"none"}, month : Months \cup {0},
                                                 status : AtStripe \cup {"none"}, taken : 0..Gross]
        BY <2>1 DEF EventsInv
      <4>1. CASE handling[w].event \in EventRows
        BY <2>1, <4>1 DEF EventRows, ReturnsInv
      <4>2. CASE handling[w].event = NoEvent
        BY <4>2, InvoicingAssumption DEF NoEvent
      <4> QED BY <2>1, <4>1, <4>2 DEF EventsInv
    <3> QED BY <2>1, <3>1, <3>2 DEF InvoicingTypeOK, InvoicesInv, AccountInv
  <2>3. entry \in [Lines -> [status : {"none", "held", "payable", "paid", "reversed"},
                             of : Ambassadors \cup {NoOne}, amount : 0..(Bonus + Share),
                             payout : 0..MaxPayouts]]
    <3>1. ASSUME NEW l \in Lines
          PROVE  entry[l] \in [status : {"none", "held", "payable", "paid", "reversed"},
                               of : Ambassadors \cup {NoOne}, amount : 0..(Bonus + Share),
                               payout : 0..MaxPayouts]
      <4>1. EntryRow(entry[l]) /\ entry[l].amount \in 0..(Bonus + Share)
        BY <2>1, EarnedNat, CommissionsAssumption DEF LedgerInv, AmountsInv
      <4> QED BY <4>1 DEF EntryRow, Owners
    <3> QED BY <2>1, <3>1 DEF LedgerInv
  <2>4. ASSUME NEW r \in reversal
        PROVE  r \in [month : Months, ref : Refs, of : Ambassadors \cup {NoOne}, amount : 1..(Bonus + Share),
                      status : {"payable", "paid"}, payout : 0..MaxPayouts]
    BY <2>1 DEF LedgerInv, ReversalRow, AmountsInv, Owners
  <2>5. payout \in [Payouts -> [status : {"none", "pending", "paid", "cancelled"},
                               of : Ambassadors \cup {NoOne}, amount : Nat]]
    <3>1. ASSUME NEW p \in Payouts
          PROVE  payout[p] \in [status : {"none", "pending", "paid", "cancelled"},
                              of : Ambassadors \cup {NoOne}, amount : Nat]
      <4>1. PayoutRow(payout[p])
        BY <2>1 DEF LedgerInv
      <4>2. payout[p].status \in {"none", "pending", "paid", "cancelled"} /\ payout[p].amount \in Nat
        BY <2>1 DEF PaidOutInv
      <4> QED BY <4>1, <4>2 DEF PayoutRow, Owners
    <3> QED BY <2>1, <3>1 DEF LedgerInv
  <2>6. /\ referral \in Ambassadors \cup {NoOne} /\ first \in Months \cup {0} /\ accruals \in [Lines -> Nat] /\ releasing \subseteq Lines
        /\ \A w \in Webhooks : plan[w].made \subseteq Kinds /\ DOMAIN plan[w].left \subseteq Kinds
    BY <2>1 DEF AmountsInv, LedgerInv, EntryInv, PlanBounded, Owners
  <2> QED BY <2>2, <2>3, <2>4, <2>5, <2>6 DEF TypeOK
<1> QED BY <1>1, AllInductive, PTL

\* What a set of payouts has paid is at most what the lines they were created for earned.
LEMMA PaidWasCovered ==
    ASSUME AllInv, TransferredOnce
    PROVE  LET paid == [p \in Payouts |-> IF payout[p].status = "paid" THEN payout[p].amount ELSE 0]
               lines == {l \in Lines : \E p \in Payouts : payout[p].status = "paid" /\ l \in covered[p]}
           IN  SumFunctionOnSet(paid, Payouts) <= SumFunctionOnSet(Earned, lines)
<1> DEFINE paid == [p \in Payouts |-> IF payout[p].status = "paid" THEN payout[p].amount ELSE 0]
           lines(P) == {l \in Lines : \E p \in P : payout[p].status = "paid" /\ l \in covered[p]}
           Good(P) == SumFunctionOnSet(paid, P) <= SumFunctionOnSet(Earned, lines(P))
           Bad == {P \in SUBSET Payouts : ~Good(P)}
<1> SUFFICES ASSUME Bad # {} PROVE FALSE
  OBVIOUS
<1>1. \A p \in Payouts : /\ paid[p] \in Nat
                         /\ payout[p].status = "paid" => paid[p] = payout[p].amount
                         /\ payout[p].status # "paid" => paid[p] = 0
                         /\ payout[p].amount <= SumFunctionOnSet(Earned, covered[p] \cap Lines)
  BY DEF AllInv, PaidOutInv
<1>2. PICK P \in Bad : \A V \in SUBSET P : V # P => V \notin Bad
  <2>1. Bad \in SUBSET (SUBSET Payouts) /\ IsFiniteSet(Payouts)
    BY LinesFinite
  <2> HIDE DEF Bad
  <2> QED BY <2>1, Smallest
<1>3. P \in SUBSET Payouts /\ ~Good(P) /\ \A q \in P : paid[q] \in Nat
  BY <1>1, <1>2
<1> HIDE DEF paid, Bad
<1>4. IsFiniteSet(P) /\ \A Q : IsFiniteSet(lines(Q)) /\ SumFunctionOnSet(Earned, lines(Q)) \in Int
  <2>1. IsFiniteSet(P)
    BY <1>3, LinesFinite, FS_Subset
  <2>2. ASSUME NEW Q PROVE IsFiniteSet(lines(Q)) /\ SumFunctionOnSet(Earned, lines(Q)) \in Int
    <3>1. lines(Q) \in SUBSET Lines
      OBVIOUS
    <3> HIDE DEF lines
    <3>2. IsFiniteSet(lines(Q))
      BY <3>1, LinesFinite, FS_Subset
    <3>3. \A l \in lines(Q) : Earned[l] \in Int
      BY <3>1, EarnedNat
    <3> QED BY <3>2, <3>3, SumInt
  <2> QED BY <2>1, <2>2
<1>5. P # {}
  <2>1. P = {} => SumFunctionOnSet(paid, P) = 0 /\ lines(P) = {}
    BY <1>4, SumFirst
  <2>2. SumFunctionOnSet(Earned, {}) = 0
    BY FS_EmptySet, SumFirst
  <2>3. P = {} => SumFunctionOnSet(Earned, lines(P)) = 0
    BY <2>1, <2>2
  <2> HIDE DEF lines
  <2> QED BY <1>3, <2>1, <2>3
<1>6. PICK p : p \in P
  BY <1>5
<1> DEFINE R == P \ {p}
<1>7. SumFunctionOnSet(paid, P) = paid[p] + SumFunctionOnSet(paid, R)
  <2>1. \A q \in P : paid[q] \in Int
    BY <1>3
  <2> QED BY <1>4, <1>6, <2>1, SumRemove
<1>8. Good(R) /\ R \subseteq Payouts
  BY <1>2, <1>3, <1>6 DEF Bad
<1>9. SumFunctionOnSet(paid, R) \in Int /\ paid[p] \in Nat
  <2>1. \A q \in R : paid[q] \in Int
    BY <1>3
  <2>2. R \in SUBSET P
    OBVIOUS
  <2> HIDE DEF R
  <2>3. IsFiniteSet(R)
    BY <1>4, <2>2, FS_Subset
  <2> QED BY <1>1, <1>3, <1>6, <2>1, <2>3, SumInt
<1>10. CASE payout[p].status # "paid"
  <2>1. lines(P) = lines(R)
    BY <1>6, <1>10
  <2>2. paid[p] = 0
    BY <1>1, <1>3, <1>6, <1>10
  <2> HIDE DEF lines, R
  <2> QED BY <1>3, <1>4, <1>7, <1>8, <1>9, <2>1, <2>2
<1>11. CASE payout[p].status = "paid"
  <2> DEFINE own == covered[p] \cap Lines
  <2>1. lines(P) = lines(R) \cup own
    BY <1>6, <1>11
  <2>2. lines(R) \cap own = {}
    <3> SUFFICES ASSUME NEW l \in lines(R), l \in covered[p] PROVE FALSE
      OBVIOUS
    <3>1. PICK q \in R : payout[q].status = "paid" /\ l \in covered[q]
      OBVIOUS
    <3>2. q # p /\ q \in Payouts /\ p \in Payouts
      BY <1>3, <1>6, <3>1
    <3> QED BY <1>11, <3>1, <3>2 DEF TransferredOnce
  <2>3. IsFiniteSet(own) /\ \A l \in lines(R) \cup own : Earned[l] \in Int
    <3>1. own \in SUBSET Lines /\ lines(R) \subseteq Lines
      OBVIOUS
    <3> HIDE DEF own, lines
    <3>2. IsFiniteSet(own)
      BY <3>1, LinesFinite, FS_Subset
    <3>3. \A l \in Lines : Earned[l] \in Nat
      BY EarnedNat
    <3>4. \A l \in lines(R) \cup own : Earned[l] \in Int
      BY <3>1, <3>3
    <3> QED BY <3>2, <3>4
  <2>4. paid[p] <= SumFunctionOnSet(Earned, own)
    BY <1>1, <1>3, <1>6, <1>11
  <2> HIDE DEF lines, R, own
  <2>5. SumFunctionOnSet(Earned, lines(P)) = SumFunctionOnSet(Earned, lines(R)) + SumFunctionOnSet(Earned, own)
    BY <1>4, <2>1, <2>2, <2>3, SumUnion
  <2>6. SumFunctionOnSet(Earned, own) \in Int
    BY <2>3, SumInt
  <2> QED BY <1>3, <1>4, <1>7, <1>8, <1>9, <2>4, <2>5, <2>6
<1> QED BY <1>10, <1>11

\* The payouts that were paid never exceed what the invoices earned, whatever was refunded before
\* and after, and however often payouts were cancelled and created again (ambassadors/service.py
\* create_payouts, reverse_for_invoice).
THEOREM PaidWasEarned == Spec => []TransferredWasEarned
<1>1. AllInv /\ TransferredOnce => TransferredWasEarned
  <2> SUFFICES ASSUME AllInv, TransferredOnce PROVE TransferredWasEarned
    OBVIOUS
  <2> DEFINE paid == [p \in Payouts |-> IF payout[p].status = "paid" THEN payout[p].amount ELSE 0]
             lines == {l \in Lines : \E p \in Payouts : payout[p].status = "paid" /\ l \in covered[p]}
             accrued == [l \in Lines |-> accruals[l] * Worth[l[2]]]
  <2>1. SumFunctionOnSet(paid, Payouts) <= SumFunctionOnSet(Earned, lines)
    BY PaidWasCovered
  <2>2. lines \in SUBSET Lines /\ IsFiniteSet(Lines)
    BY LinesFinite
  <2>3. /\ \A l \in Lines : accruals[l] \in {0, 1} /\ accrued[l] = accruals[l] * Worth[l[2]]
        /\ \A l \in lines : accruals[l] = 1
    <3>1. \A l \in Lines : accruals[l] = IF Made(l) THEN 1 ELSE 0
      BY DEF AllInv, IInv, BookInv, EntryInv
    <3>2. ASSUME NEW l \in lines PROVE Made(l)
      <4>1. PICK p \in Payouts : payout[p].status = "paid" /\ l \in covered[p]
        OBVIOUS
      <4>2. Carries(l, p)
        BY <4>1 DEF AllInv, IInv, BookInv, CoverInv, InForce
      <4>3. \A r \in reversal : <<r.month, r.ref>> \notin Lines
        BY DEF AllInv, IInv, BookInv, LedgerInv, ReversalRow, Refs, Lines, Kinds
      <4>4. entry[l].payout = p /\ p # 0
        BY <4>2, <4>3 DEF Carries, Payouts
      <4> QED BY <4>4 DEF AllInv, IInv, BookInv, EntryInv
    <3> QED BY <3>1, <3>2
  <2>4. /\ \A l \in Lines : accrued[l] \in Nat /\ Earned[l] \in Nat
        /\ \A l \in lines : accrued[l] = Earned[l]
    <3>1. ASSUME NEW l \in Lines PROVE accrued[l] \in Nat /\ Earned[l] \in Nat /\ (accruals[l] = 1 => accrued[l] = Earned[l])
      <4>1. Worth[l[2]] \in Nat /\ Earned[l] = Worth[l[2]]
        BY EarnedNat, LinePair
      <4> QED BY <2>3, <4>1
    <3> QED BY <2>3, <3>1
  <2>5. TransferredWasEarned <=> SumFunctionOnSet(paid, Payouts) <= SumFunctionOnSet(accrued, Lines)
    BY DEF TransferredWasEarned, SumFunction
  <2> HIDE DEF paid, lines, accrued
  <2>6. IsFiniteSet(lines)
    BY <2>2, FS_Subset
  <2>7. SumFunctionOnSet(Earned, lines) = SumFunctionOnSet(accrued, lines)
    <3>1. \A l \in lines : Earned[l] \in Int /\ Earned[l] = accrued[l]
      BY <2>2, <2>4
    <3> QED BY <2>6, <3>1, SumSame
  <2>8. SumFunctionOnSet(accrued, lines) <= SumFunctionOnSet(accrued, Lines)
    BY <2>2, <2>4, SumSubset
  <2>9. SumFunctionOnSet(accrued, lines) \in Int /\ SumFunctionOnSet(accrued, Lines) \in Int
    BY <2>2, <2>4, <2>6, SumInt
  <2>10. SumFunctionOnSet(paid, Payouts) \in Int
    <3>1. \A p \in Payouts : paid[p] \in Nat
      <4> SUFFICES ASSUME NEW p \in Payouts PROVE paid[p] \in Nat
        OBVIOUS
      <4>1. payout[p].amount \in Nat
        BY DEF AllInv, PaidOutInv
      <4>2. paid[p] = IF payout[p].status = "paid" THEN payout[p].amount ELSE 0
        BY DEF paid
      <4> QED BY <4>1, <4>2
    <3> QED BY <3>1, LinesFinite, SumNat
  <2> QED BY <2>1, <2>5, <2>7, <2>8, <2>9, <2>10
<1> QED BY <1>1, AllInductive, LinesTransferredOnce, PTL


=============================================================================
