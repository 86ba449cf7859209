----------------------------- MODULE Invoicing -----------------------------
(***************************************************************************)
(* Monthly invoices of one company (app/modules/billing/stripe.py): the      *)
(* creation of an invoice, which calls Stripe inside its transaction, and     *)
(* the reading and storing of Stripe's webhook events                       *)
(* (app/modules/webhooks/router.py).  Commissions adds what an event does to  *)
(* the ambassador who referred the company.                                 *)
(*                                                                         *)
(* A creation is one of two things: the worker's job, which invoices last     *)
(* month every minute until there is an invoice, or the owner's request for   *)
(* any closed month.  Either may stop at any point and leave nothing here but *)
(* everything at Stripe, which answers a POST's idempotency key again for a day. *)
(* Amounts and discounts are left out, and so is what becomes at Stripe of an   *)
(* invoice that a later one has taken the place of.                           *)
(***************************************************************************)
EXTENDS Integers, FiniteSets

CONSTANTS
    Months,        \* closed months, as numbers
    Creators,      \* transactions of create_invoice that may overlap
    Webhooks,      \* API processes that take Stripe's events
    Gross,         \* the invoice's total: refunds and credit notes are parts of it
    MaxFaults      \* bound on creations that stop half-way and on failed payments

ASSUME InvoicingAssumption ==
    /\ Months \subseteq Nat \ {0} /\ IsFiniteSet(Months)
    /\ Gross \in Nat \ {0}
    /\ MaxFaults \in Nat

VARIABLES
    invoice,       \* invoices: the status by month ("absent": no row)
    creation,      \* creators: how far their transaction is, and for which month
    stripe,        \* Stripe's newest invoice by month
    keys,          \* by month: the POSTs whose idempotency keys Stripe still knows
    charge,        \* by month: what Stripe refunded and credited of the invoice so far
    events,        \* Stripe's events that no transaction has recorded yet
    handling,      \* webhooks: the event in work and the status its row was read with
    made,          \* history: how often the month's lines were put on an invoice, as far as
                   \* Stripe's keys and then the row remember
    faults         \* history: faults so far

invoicingVars == <<invoice, creation, stripe, keys, charge, events, handling, made, faults>>

Statuses == {"creating", "open", "paid", "payment_failed", "failed", "void"}
Stages == {"idle", "waiting", "reserved", "posted", "lined", "finalized"}
AtStripe == {"draft", "open", "paid", "void", "uncollectible"}
Types == {"finalized", "payment_failed", "paid", "payment_succeeded", "given_up", "refund", "credit_note"}
Posts == {"invoice", "lines", "finalize"}
Idle == [stage |-> "idle", month |-> 0]
NoEvent == [type |-> "none", month |-> 0, status |-> "none", taken |-> 0]
NoHandling == [event |-> NoEvent, was |-> "absent"]

\* billing.stripe.STATUS
STATUS == [draft |-> "creating", open |-> "open", paid |-> "paid", void |-> "void",
           uncollectible |-> "failed"]

Present(m) == invoice[m] # "absent"

InvoicingInit ==
    /\ invoice = [m \in Months |-> "absent"]
    /\ creation = [c \in Creators |-> Idle]
    /\ stripe = [m \in Months |-> [status |-> "none", lined |-> FALSE, answered |-> FALSE]]
    /\ keys = [m \in Months |-> {}]
    /\ charge = [m \in Months |-> [refunded |-> 0, credited |-> 0]]
    /\ events = {}
    /\ handling = [w \in Webhooks |-> NoHandling]
    /\ made = [m \in Months |-> 0]
    /\ faults = 0

InvoicingTypeOK ==
    /\ invoice \in [Months -> Statuses \cup {"absent"}]
    /\ creation \in [Creators -> [stage : Stages, month : Months \cup {0}]]
    /\ stripe \in [Months -> [status : AtStripe \cup {"none"}, lined : BOOLEAN, answered : BOOLEAN]]
    /\ keys \in [Months -> SUBSET Posts]
    /\ charge \in [Months -> [refunded : 0..Gross, credited : 0..Gross]]
    /\ handling \in [Webhooks -> [event : [type : Types \cup {"none"}, month : Months \cup {0},
                                           status : AtStripe \cup {"none"}, taken : 0..Gross],
                                  was : Statuses \cup {"absent"}]]
    /\ made \in [Months -> Nat]
    /\ faults \in 0..MaxFaults

(***************************************************************************)
(* create_invoice                                                           *)
(***************************************************************************)
Stage(c, to) == creation' = [creation EXCEPT ![c].stage = to]

\* A month without a row is looked for before the account is locked.
Begin(c, m) ==
    /\ creation[c].stage = "idle"
    /\ ~Present(m)
    /\ creation' = [creation EXCEPT ![c] = [Idle EXCEPT !.stage = "waiting", !.month = m]]
    /\ UNCHANGED <<invoice, stripe, keys, charge, events, handling, made, faults>>

HoldsAccount(c) == creation[c].stage \notin {"idle", "waiting"}

\* Variant: no unique index, and the row is not looked for again under the lock.
Reserve_Unchecked(c) ==
    /\ creation[c].stage = "waiting"
    /\ \A d \in Creators : ~HoldsAccount(d)
    /\ Stage(c, "reserved")
    /\ UNCHANGED <<invoice, stripe, keys, charge, events, handling, made, faults>>

\* The account's lock, the statement, and the row whose unique (workspace, month) reserves
\* the month; a row another creation committed meanwhile ends this one.
Reserve(c) ==
    /\ creation[c].stage = "waiting"
    /\ \A d \in Creators : ~HoldsAccount(d)
    /\ IF Present(creation[c].month) THEN creation' = [creation EXCEPT ![c] = Idle]
       ELSE Stage(c, "reserved")
    /\ UNCHANGED <<invoice, stripe, keys, charge, events, handling, made, faults>>

Known(m, post) == keys' = [keys EXCEPT ![m] = @ \cup {post}]

\* POST /invoices: Stripe answers with the invoice it made for the key.  Once the key has run
\* out it makes another, and what becomes of the older one finds no row here.
PostInvoice(c) ==
    LET m == creation[c].month IN
    /\ creation[c].stage = "reserved"
    /\ Stage(c, "posted")
    /\ IF "invoice" \in keys[m]
       THEN UNCHANGED <<stripe, keys, charge, events, handling>>
       ELSE /\ stripe' = [stripe EXCEPT ![m] = [status |-> "draft", lined |-> FALSE, answered |-> FALSE]]
            /\ Known(m, "invoice")
            /\ charge' = [charge EXCEPT ![m] = [refunded |-> 0, credited |-> 0]]
            /\ events' = {e \in events : e.month # m}
            /\ handling' = [w \in Webhooks |-> IF handling[w].event.month = m THEN NoHandling ELSE handling[w]]
    /\ UNCHANGED <<invoice, made, faults>>

\* POST /invoiceitems, one key per line: new lines need a draft, and a key that came with
\* another invoice is refused.
PostLines(c) ==
    LET m == creation[c].month IN
    /\ creation[c].stage = "posted"
    /\ IF "lines" \in keys[m] THEN stripe[m].lined /\ UNCHANGED made
       ELSE stripe[m].status = "draft" /\ made' = [made EXCEPT ![m] = @ + 1]
    /\ stripe' = [stripe EXCEPT ![m].lined = TRUE]
    /\ Known(m, "lines")
    /\ Stage(c, "lined")
    /\ UNCHANGED <<invoice, charge, events, handling, faults>>

EventOf(m, type, status) == [type |-> type, month |-> m, status |-> status, taken |-> 0]

\* POST /invoices/{id}/finalize, of a draft or with the key of the same call
PostFinalize(c) ==
    LET m == creation[c].month IN
    /\ creation[c].stage = "lined"
    /\ IF "finalize" \in keys[m] THEN stripe[m].answered ELSE stripe[m].status = "draft"
    /\ stripe' = [stripe EXCEPT ![m].answered = TRUE,
                                ![m].status = IF @ = "draft" THEN "open" ELSE @]
    /\ Known(m, "finalize")
    /\ events' = IF stripe[m].status = "draft"
                 THEN events \cup {EventOf(m, "finalized", "open")} ELSE events
    /\ Stage(c, "finalized")
    /\ UNCHANGED <<invoice, charge, handling, made, faults>>

\* apply_stripe_invoice of the answer, and the caller's commit.  Bound: the keys are gone as
\* soon as there is a row, for a row outlives them.
CommitInvoice(c) ==
    /\ creation[c].stage = "finalized"
    /\ keys' = [keys EXCEPT ![creation[c].month] = {}]
    /\ made' = [made EXCEPT ![creation[c].month] = IF @ = 0 THEN 1 ELSE @]
    /\ invoice' = [invoice EXCEPT ![creation[c].month] = "open"]
    /\ creation' = [creation EXCEPT ![c] = Idle]
    /\ UNCHANGED <<stripe, charge, events, handling, faults>>

\* No card, nothing to charge, StripeFailed or a crash: the transaction is rolled back.
Abandon(c) ==
    /\ creation[c].stage # "idle"
    /\ faults < MaxFaults
    /\ faults' = faults + 1
    /\ creation' = [creation EXCEPT ![c] = Idle]
    /\ UNCHANGED <<invoice, stripe, keys, charge, events, handling, made>>

(***************************************************************************)
(* Stripe                                                                   *)
(***************************************************************************)
\* Keys are kept for 24 hours.
KeysRunOut(m) ==
    /\ \E out \in SUBSET keys[m] :
        /\ out # {}
        /\ keys' = [keys EXCEPT ![m] = @ \ out]
        /\ made' = IF "lines" \in out THEN [made EXCEPT ![m] = 0] ELSE made
    /\ UNCHANGED <<invoice, creation, stripe, charge, events, handling, faults>>

Emits(m, status, es) ==
    /\ stripe' = [stripe EXCEPT ![m].status = status]
    /\ events' = events \cup es
    /\ UNCHANGED <<invoice, creation, keys, charge, handling, made>>

\* auto_advance finalizes a draft that was left behind.
AutoAdvance(m) ==
    /\ stripe[m].status = "draft"
    /\ Emits(m, "open", {EventOf(m, "finalized", "open")})
    /\ UNCHANGED faults

PaymentFails(m) ==
    /\ stripe[m].status = "open"
    /\ faults < MaxFaults
    /\ faults' = faults + 1
    /\ Emits(m, "open", {EventOf(m, "payment_failed", "open")})

\* invoice.paid and invoice.payment_succeeded come with the same payment.
Pay(m) ==
    /\ stripe[m].status = "open"
    /\ Emits(m, "paid", {EventOf(m, "paid", "paid"), EventOf(m, "payment_succeeded", "paid")})
    /\ UNCHANGED faults

GiveUpOn(m, status) ==
    /\ stripe[m].status = "open"
    /\ Emits(m, status, {EventOf(m, "given_up", status)})
    /\ UNCHANGED faults

\* charge.refunded carries the charge's refunds so far, credit_note.created its own total.
\* Bound: only of an invoice that has its row, for without one the event has no effect.
Return(m, type, taken) ==
    /\ stripe[m].status = "paid"
    /\ Present(m)
    /\ events' = events \cup {[EventOf(m, type, "paid") EXCEPT !.taken = taken]}
    /\ UNCHANGED <<invoice, creation, stripe, keys, handling, made, faults>>

Refund(m) ==
    \E part \in 1..(Gross - charge[m].refunded - charge[m].credited) :
        /\ charge' = [charge EXCEPT ![m].refunded = @ + part]
        /\ Return(m, "refund", charge[m].refunded + part)

CreditNote(m) ==
    \E part \in 1..(Gross - charge[m].refunded - charge[m].credited) :
        /\ charge[m].credited = 0
        /\ charge' = [charge EXCEPT ![m].credited = part]
        /\ Return(m, "credit_note", part)

(***************************************************************************)
(* POST /webhooks/stripe: an event is recorded in the transaction of its      *)
(* effect, so one that fails comes again and one that is recorded does not.   *)
(***************************************************************************)
Busy(w) == handling[w].event # NoEvent
IsReturn(e) == e.type \in {"refund", "credit_note"}

\* process_event up to its last read; without a row the outcome is "unmatched".
TakeEvent(w, e) ==
    /\ ~Busy(w)
    /\ handling' = [handling EXCEPT ![w] = [event |-> e, was |-> invoice[e.month]]]
    /\ UNCHANGED <<invoice, creation, stripe, keys, charge, events, made, faults>>

StatusAfter(e, was) ==
    IF was = "absent" \/ IsReturn(e) THEN was
    ELSE IF e.type = "payment_failed" THEN "payment_failed" ELSE STATUS[e.status]

TurnsPaid(e, was) == StatusAfter(e, was) = "paid" /\ was # "paid"

Done(w) == handling' = [handling EXCEPT ![w] = NoHandling]

\* The commit: the row's status is written only where it differs from what was read.
StoreEvent(w) ==
    LET e == handling[w].event
        was == handling[w].was IN
    /\ events' = events \ {e}
    /\ invoice' = IF StatusAfter(e, was) # was
                  THEN [invoice EXCEPT ![e.month] = StatusAfter(e, was)] ELSE invoice
    /\ Done(w)
    /\ UNCHANGED <<creation, stripe, keys, charge, made, faults>>

\* Another process recorded the event first, or a unique index refused a row.
DropEvent(w) ==
    /\ Done(w)
    /\ UNCHANGED <<invoice, creation, stripe, keys, charge, events, made, faults>>

CreatorStep(c) ==
    \/ \E m \in Months : Begin(c, m)
    \/ Reserve(c) \/ PostInvoice(c) \/ PostLines(c) \/ PostFinalize(c)
    \/ CommitInvoice(c) \/ Abandon(c)

StripeStep(m) ==
    \/ KeysRunOut(m) \/ AutoAdvance(m) \/ PaymentFails(m) \/ Pay(m)
    \/ GiveUpOn(m, "void") \/ GiveUpOn(m, "uncollectible")
    \/ Refund(m) \/ CreditNote(m)

(***************************************************************************)
(* Properties                                                               *)
(***************************************************************************)
\* A month is charged at most once, however often its creation is cut short and repeated
\* (create_invoice: idempotent per month), but for the attempts that Stripe's keys do not
\* outlive: until there is a row, the count begins again when the keys of the lines run out.
\* Then the row stands for a whole, finalized invoice, and alone keeps a second one away.
ChargedOnce ==
    \A m \in Months :
        /\ made[m] <= 1
        /\ Present(m) => stripe[m].lined /\ stripe[m].status \notin {"none", "draft"}

=============================================================================
