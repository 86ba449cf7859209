---------------------------- MODULE Commissions ----------------------------
(***************************************************************************)
(* The ledgers of the ambassadors (app/modules/ambassadors/service.py): what   *)
(* the paid invoices of one company earn for the one who referred it, what      *)
(* refunds take back, the worker's release after the hold, and the operators'   *)
(* payouts.                                                                 *)
(*                                                                         *)
(* An event of Stripe is handled in two steps, its reads (Invoicing!TakeEvent *)
(* and the view of the ledger) and its commit, for nothing locks the rows it  *)
(* reads.  The release job is two steps as well.  Payouts are created under    *)
(* locks on the ambassador and the entries, and settled under a lock on the    *)
(* payout: one step each.  The ambassador's terms do not change, and a private *)
(* ambassador's missing papers (payout_blockers) are an operator who waits.   *)
(***************************************************************************)
EXTENDS Invoicing, Functions

CONSTANTS
    Ambassadors,
    NoOne,         \* no ambassador
    Bonus,         \* Ambassador.bonus_minor
    Share,         \* the share of an invoice's net at Ambassador.rate_bp
    ShareMonths,   \* Ambassador.months
    MinPayout,     \* MIN_PAYOUT_MINOR
    MaxPayouts     \* bound on payouts

ASSUME CommissionsAssumption ==
    /\ NoOne \notin Ambassadors
    /\ Bonus \in Nat \ {0} /\ Share \in Nat \ {0}
    /\ ShareMonths \in Nat \ {0}
    /\ MinPayout \in Nat /\ MaxPayouts \in Nat

VARIABLES
    entry,         \* commission_entries: the bonus and the share of each invoice
    reversal,      \* commission_entries of kind reversal; amounts are taken off
    referral,      \* Referral.ambassador_id of the company
    first,         \* Referral.first_paid_month, 0 before a payment
    payout,        \* ambassador_payouts
    plan,          \* webhooks: what the transaction will write
    releasing,     \* the entries the release job has read as held and due
    accruals,      \* history: how often each entry was made
    covered        \* history: the lines each payout was created for

ledgerVars == <<entry, reversal, referral, first, payout, plan, releasing, accruals, covered>>
vars == <<invoicingVars, ledgerVars>>

Kinds == {"bonus", "share"}
Lines == Months \X Kinds
Worth == [bonus |-> Bonus, share |-> Share]
Refs == {"refund", "credit_note"}
Payouts == 1..MaxPayouts
NoEntry == [status |-> "none", of |-> NoOne, amount |-> 0, payout |-> 0]
NoPayout == [status |-> "none", of |-> NoOne, amount |-> 0]
NoPlan == [of |-> NoOne, made |-> {}, first |-> 0, left |-> <<>>, claw |-> 0]

TypeOK ==
    /\ InvoicingTypeOK
    /\ entry \in [Lines -> [status : {"none", "held", "payable", "paid", "reversed"},
                            of : Ambassadors \cup {NoOne}, amount : 0..(Bonus + Share), payout : 0..MaxPayouts]]
    /\ \A r \in reversal : r \in [month : Months, ref : Refs, of : Ambassadors \cup {NoOne},
                                  amount : 1..(Bonus + Share), status : {"payable", "paid"}, payout : 0..MaxPayouts]
    /\ referral \in Ambassadors \cup {NoOne}
    /\ first \in Months \cup {0}
    /\ payout \in [Payouts -> [status : {"none", "pending", "paid", "cancelled"},
                              of : Ambassadors \cup {NoOne}, amount : Nat]]
    /\ \A w \in Webhooks : plan[w].made \subseteq Kinds /\ DOMAIN plan[w].left \subseteq Kinds
    /\ releasing \subseteq Lines
    /\ accruals \in [Lines -> Nat]

Init ==
    /\ InvoicingInit
    /\ entry = [l \in Lines |-> NoEntry]
    /\ reversal = {}
    /\ referral \in Ambassadors
    /\ first = 0
    /\ payout = [p \in Payouts |-> NoPayout]
    /\ plan = [w \in Webhooks |-> NoPlan]
    /\ releasing = {}
    /\ accruals = [l \in Lines |-> 0]
    /\ covered = [p \in Payouts |-> {}]

Made(l) == entry[l].status # "none"

(***************************************************************************)
(* accrue_for_invoice: the bonus unless the ambassador has had one for the      *)
(* company, and the share of the months that count from the first paid one.    *)
(***************************************************************************)
FirstPaid(m) == IF first = 0 \/ m < first THEN m ELSE first

Accrual(m) ==
    IF referral = NoOne THEN NoPlan
    ELSE [NoPlan EXCEPT
            !.of = referral,
            !.first = IF FirstPaid(m) # first THEN FirstPaid(m) ELSE 0,
            !.made = {k \in Kinds :
                IF k = "bonus" THEN \A e \in Months : ~Made(<<e, k>>) \/ entry[<<e, k>>].of # referral
                ELSE ~Made(<<m, k>>) /\ m < FirstPaid(m) + ShareMonths}]

(***************************************************************************)
(* reverse_for_invoice: the refunded part of an entry that is in no payout is *)
(* taken off, that of another is clawed back - all of it from the ambassador   *)
(* whose entry came last; the bonus only goes entirely.                       *)
(***************************************************************************)
\* Python's round: halves to the even neighbour
Rounded(n, d) ==
    LET q == n \div d
        r == 2 * (n % d) IN
    IF r < d \/ (r = d /\ q % 2 = 0) THEN q ELSE q + 1

\* Variant: of what was earned, not of what is left of it.
Cut_OfWorth(l, taken) ==
    IF entry[l].status \in {"none", "reversed"} THEN 0
    ELSE IF taken >= Gross THEN Worth[l[2]]
    ELSE IF l[2] = "bonus" THEN 0 ELSE Rounded(Worth[l[2]] * taken, Gross)

Cut(l, taken) ==
    IF entry[l].status \in {"none", "reversed"} THEN 0
    ELSE IF taken >= Gross THEN entry[l].amount
    ELSE IF l[2] = "bonus" THEN 0 ELSE Rounded(entry[l].amount * taken, Gross)

Unpaid(l) == entry[l].status \in {"held", "payable"} /\ entry[l].payout = 0

Recorded(m, ref) == \E r \in reversal : r.month = m /\ r.ref = ref

Reversals(m, ref, taken) ==
    LET cut == {k \in Kinds : Cut(<<m, k>>, taken) > 0}
        unpaid == {k \in cut : Unpaid(<<m, k>>)}
        from == {entry[<<m, k>>].of : k \in cut \ unpaid} IN
    IF Recorded(m, ref) THEN {NoPlan}
    ELSE {[NoPlan EXCEPT
            !.of = a,
            !.left = [k \in unpaid |-> entry[<<m, k>>].amount - Cut(<<m, k>>, taken)],
            !.claw = SumFunction([k \in cut \ unpaid |-> Cut(<<m, k>>, taken)])]
          : a \in IF from = {} THEN {NoOne} ELSE from}

(***************************************************************************)
(* process_event: what the reads decide, and the commit of what they decided  *)
(***************************************************************************)
Take(w, e) ==
    LET m == e.month
        was == invoice[m] IN
    /\ TakeEvent(w, e)
    /\ \E x \in (IF was = "absent" THEN {NoPlan}
                 ELSE IF IsReturn(e) THEN Reversals(m, e.type, e.taken)
                 ELSE IF TurnsPaid(e, was) THEN {Accrual(m)}
                 ELSE {NoPlan}) :
            plan' = [plan EXCEPT ![w] = x]
    /\ UNCHANGED <<entry, reversal, referral, first, payout, releasing, accruals, covered>>

\* Variant: no unique index.
Refused_Never(w) == FALSE

\* uq_commission_entries_invoice_kind, and the Referral row that gets another first month
Refused(w) ==
    LET e == handling[w].event IN
    \/ \E k \in plan[w].made : Made(<<e.month, k>>)
    \/ plan[w].claw # 0 /\ Recorded(e.month, e.type)
    \/ plan[w].first # 0 /\ referral = NoOne

WriteEntries(w) ==
    LET m == handling[w].event.month
        new(k) == [status |-> "held", of |-> plan[w].of, amount |-> Worth[k], payout |-> 0]
        cut(l, left) == IF left = 0 THEN [entry[l] EXCEPT !.status = "reversed"]
                        ELSE [entry[l] EXCEPT !.amount = left] IN
    entry' = [l \in Lines |->
                IF l[1] = m /\ l[2] \in plan[w].made THEN new(l[2])
                ELSE IF l[1] = m /\ l[2] \in DOMAIN plan[w].left THEN cut(l, plan[w].left[l[2]])
                ELSE entry[l]]

WriteReversal(w) ==
    LET e == handling[w].event IN
    reversal' = IF plan[w].claw = 0 THEN reversal
                ELSE reversal \cup {[month |-> e.month, ref |-> e.type, of |-> plan[w].of, amount |-> plan[w].claw,
                                     status |-> "payable", payout |-> 0]}

Store(w) ==
    /\ Busy(w) /\ handling[w].event \in events /\ ~Refused(w)
    /\ StoreEvent(w)
    /\ WriteEntries(w)
    /\ WriteReversal(w)
    /\ first' = IF plan[w].first # 0 THEN plan[w].first ELSE first
    /\ accruals' = [l \in Lines |-> IF l[1] = handling[w].event.month /\ l[2] \in plan[w].made
                                    THEN accruals[l] + 1 ELSE accruals[l]]
    /\ plan' = [plan EXCEPT ![w] = NoPlan]
    /\ UNCHANGED <<payout, referral, releasing, covered>>

Drop(w) ==
    /\ Busy(w) /\ (handling[w].event \notin events \/ Refused(w))
    /\ DropEvent(w)
    /\ plan' = [plan EXCEPT ![w] = NoPlan]
    /\ UNCHANGED <<entry, reversal, referral, first, payout, releasing, accruals, covered>>

(***************************************************************************)
(* release_held: the entries of an invoice share their hold_until, and those  *)
(* of any of the invoices may be past it.                                    *)
(***************************************************************************)
ReadHeld ==
    /\ releasing = {}
    /\ \E due \in SUBSET Months :
            releasing' = {l \in Lines : l[1] \in due /\ entry[l].status = "held"}
    /\ releasing' # {}
    /\ UNCHANGED <<invoicingVars, entry, reversal, referral, first, payout, plan, accruals, covered>>

Release ==
    /\ releasing # {}
    /\ entry' = [l \in Lines |-> IF l \in releasing THEN [entry[l] EXCEPT !.status = "payable"]
                                 ELSE entry[l]]
    /\ releasing' = {}
    /\ UNCHANGED <<invoicingVars, reversal, referral, first, payout, plan, accruals, covered>>

(***************************************************************************)
(* Payouts                                                                  *)
(***************************************************************************)
\* Variant: those of a pending payout too.
Ready_AnyPayable(a) == {l \in Lines : entry[l].of = a /\ entry[l].status = "payable"}

Ready(a) == {l \in Lines : entry[l].of = a /\ entry[l].status = "payable" /\ entry[l].payout = 0}
ReadyReversals(a) == {r \in reversal : r.of = a /\ r.status = "payable" /\ r.payout = 0}

Total(a) == SumFunction([l \in Ready(a) |-> entry[l].amount])
            - SumFunction([r \in ReadyReversals(a) |-> r.amount])

CreatePayout(p, a) ==
    /\ payout[p].status = "none" /\ \A q \in 1..(p - 1) : payout[q].status # "none"
    /\ Ready(a) \cup ReadyReversals(a) # {}
    /\ Total(a) >= MinPayout
    /\ payout' = [payout EXCEPT ![p] = [status |-> "pending", of |-> a, amount |-> Total(a)]]
    /\ entry' = [l \in Lines |-> IF l \in Ready(a) THEN [entry[l] EXCEPT !.payout = p] ELSE entry[l]]
    /\ reversal' = (reversal \ ReadyReversals(a)) \cup {[r EXCEPT !.payout = p] : r \in ReadyReversals(a)}
    /\ covered' = [covered EXCEPT ![p] = Ready(a) \cup {<<r.month, r.ref>> : r \in ReadyReversals(a)}]
    /\ UNCHANGED <<invoicingVars, referral, first, plan, releasing, accruals>>

\* Variant: a cancelled payout is paid too.
MarkPaid_AnyStatus(p) ==
    /\ payout[p].status \in {"pending", "cancelled"}
    /\ payout' = [payout EXCEPT ![p].status = "paid"]
    /\ entry' = [l \in Lines |-> IF entry[l].payout = p THEN [entry[l] EXCEPT !.status = "paid"]
                                 ELSE entry[l]]
    /\ reversal' = {IF r.payout = p THEN [r EXCEPT !.status = "paid"] ELSE r : r \in reversal}
    /\ UNCHANGED <<invoicingVars, referral, first, plan, releasing, accruals, covered>>

MarkPaid(p) ==
    /\ payout[p].status = "pending"
    /\ payout' = [payout EXCEPT ![p].status = "paid"]
    /\ entry' = [l \in Lines |-> IF entry[l].payout = p THEN [entry[l] EXCEPT !.status = "paid"]
                                 ELSE entry[l]]
    /\ reversal' = {IF r.payout = p THEN [r EXCEPT !.status = "paid"] ELSE r : r \in reversal}
    /\ UNCHANGED <<invoicingVars, referral, first, plan, releasing, accruals, covered>>

CancelPayout(p) ==
    /\ payout[p].status = "pending"
    /\ payout' = [payout EXCEPT ![p].status = "cancelled"]
    /\ entry' = [l \in Lines |-> IF entry[l].payout = p THEN [entry[l] EXCEPT !.payout = 0]
                                 ELSE entry[l]]
    /\ reversal' = {IF r.payout = p THEN [r EXCEPT !.payout = 0] ELSE r : r \in reversal}
    /\ UNCHANGED <<invoicingVars, referral, first, plan, releasing, accruals, covered>>

\* op_move_referral and add_code: the attribution goes, and its first month with it, or comes,
\* or goes over to another ambassador with the month it has.
MoveReferral ==
    /\ faults < MaxFaults
    /\ faults' = faults + 1
    /\ \E a \in Ambassadors \cup {NoOne} : a # referral /\ referral' = a
    /\ first' = IF referral' = NoOne THEN 0 ELSE first
    /\ UNCHANGED <<invoice, creation, stripe, keys, charge, events, handling, made,
                   entry, reversal, payout, plan, releasing, accruals, covered>>

Keep == UNCHANGED ledgerVars

WebhookStep(w) == (\E e \in events : Take(w, e)) \/ Store(w) \/ Drop(w)
WorkerStep == ReadHeld \/ Release
OperatorStep == \E p \in Payouts : (\E a \in Ambassadors : CreatePayout(p, a)) \/ MarkPaid(p) \/ CancelPayout(p)

Next ==
    \/ (\E c \in Creators : CreatorStep(c)) /\ Keep
    \/ (\E m \in Months : StripeStep(m)) /\ Keep
    \/ \E w \in Webhooks : WebhookStep(w)
    \/ WorkerStep
    \/ OperatorStep
    \/ MoveReferral

Spec == Init /\ [][Next]_vars

(***************************************************************************)
(* Properties                                                               *)
(***************************************************************************)
\* An invoice earns its bonus and its share once, though Stripe tells of a payment twice, two
\* processes read before either writes, and a late event puts the row back to open.
AccruedOnce == \A l \in Lines : accruals[l] <= 1

\* No line is in two payouts that are pending or paid: it is transferred once.
TransferredOnce ==
    \A p, q \in Payouts :
        p # q /\ payout[p].status \in {"pending", "paid"} /\ payout[q].status \in {"pending", "paid"}
            => covered[p] \cap covered[q] = {}

\* What was transferred never exceeds what was earned.
TransferredWasEarned ==
    SumFunction([p \in Payouts |-> IF payout[p].status = "paid" THEN payout[p].amount ELSE 0])
        <= SumFunction([l \in Lines |-> accruals[l] * Worth[l[2]]])

=============================================================================
