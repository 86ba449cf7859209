--------------------------- MODULE Subscriptions ---------------------------
(***************************************************************************)
(* What a private account bought (app/modules/privat/subscriptions.py and      *)
(* payments.py): its one row in private_subscriptions, which mirrors a Stripe  *)
(* subscription, and the credit packs in its ledger.                        *)
(*                                                                         *)
(* Stripe's events come in any order, and each is handled until its           *)
(* transaction records it.  A subscription's own events carry a snapshot; the  *)
(* end of a Checkout, told by an event or by the user's return, makes the      *)
(* handler ask Stripe for the subscription first and lock the row after.     *)
(* Plans, intervals and dates are left out, but for whether the trial or the  *)
(* paid period the row speaks of is over.                                    *)
(***************************************************************************)
EXTENDS Naturals

CONSTANTS
    Subs,          \* Checkouts for a subscription, and the subscription each makes
    NoSub,         \* no subscription
    Packs,         \* Checkouts for a credit pack
    Handlers,      \* webhook processes and requests
    MaxChanges     \* bound on what Stripe changes of subscriptions

ASSUME SubscriptionsAssumption ==
    /\ NoSub \notin Subs
    /\ MaxChanges \in Nat

VARIABLES
    row,           \* private_subscriptions
    session,       \* Checkouts by subscription: how far, and whether with a trial
    stripe,        \* the subscriptions at Stripe: the status, and how many Stripe has sent of it
    pack,          \* Checkouts by credit pack
    purchases,     \* credit_ledger: the packs with a purchase
    events,        \* events no transaction has recorded
    work,          \* handlers: the message in work and what its reads answered
    granted,       \* history: purchases entered by pack
    seen,          \* history: the newest answer handled of each subscription
    late,          \* history: the subscriptions of which an older answer was handled last
    left,          \* history: those from which a live one has taken the row over
    changes        \* history: changes at Stripe

told == <<seen, late, left>>
shopVars == <<row, session, stripe, pack, purchases, events, work, granted, told, changes>>

Live == {"trialing", "active", "past_due"}
AtStripe == Live \cup {"canceled"}
STRIPE_STATUS == [trialing |-> "trial", active |-> "active", past_due |-> "past_due",
                  canceled |-> "canceled"]

Rows == [sub : Subs \cup {NoSub}, status : {"none", "trial", "active", "past_due", "canceled"},
         tried : BOOLEAN, over : BOOLEAN]
Message(type, of, status, at) == [type |-> type, of |-> of, status |-> status, at |-> at]
PackMessage(type, p, status) == Message(type, p, status, 0)
NoWork == [msg |-> Message("none", NoSub, "none", 0), got |-> "none", at |-> 0]

ShopTypeOK ==
    /\ row \in Rows
    /\ session \in [Subs -> [status : {"none", "open", "complete"}, trial : BOOLEAN]]
    /\ stripe \in [Subs -> [status : AtStripe \cup {"none"}, at : Nat]]
    /\ pack \in [Packs -> {"none", "open", "pending", "paid", "failed"}]
    /\ purchases \subseteq Packs
    /\ \A h \in Handlers : /\ work[h].msg.of \in Subs \cup Packs \cup {NoSub}
                           /\ work[h].got \in AtStripe \cup {"none", "new", "known"}
                           /\ work[h].at \in Nat
    /\ granted \in [Packs -> Nat]
    /\ seen \in [Subs -> Nat] /\ late \subseteq Subs /\ left \subseteq Subs
    /\ changes \in 0..MaxChanges

\* The row of start_free, from onboarding, or that of an account with an old trial without a card.
ShopInit ==
    /\ row \in {[sub |-> NoSub, status |-> "none", tried |-> FALSE, over |-> FALSE],
               [sub |-> NoSub, status |-> "trial", tried |-> TRUE, over |-> FALSE]}
    /\ session = [s \in Subs |-> [status |-> "none", trial |-> FALSE]]
    /\ stripe = [s \in Subs |-> [status |-> "none", at |-> 0]]
    /\ pack = [p \in Packs |-> "none"]
    /\ purchases = {}
    /\ events = {}
    /\ work = [h \in Handlers |-> NoWork]
    /\ granted = [p \in Packs |-> 0]
    /\ seen = [s \in Subs |-> 0] /\ late = {} /\ left = {}
    /\ changes = 0

\* _state: the rights the row gives now
Entitled ==
    \/ row.status \in {"active", "past_due"}
    \/ row.status \in {"trial", "canceled"} /\ ~row.over

(***************************************************************************)
(* The user's requests and Stripe                                           *)
(***************************************************************************)
\* trial_available: asked when the Checkout is opened.
TrialAvailable == ~row.tried /\ row.sub = NoSub

\* A trial without a card that has more than 48 hours left goes on at Stripe.
CardlessTrial == row.status = "trial" /\ row.sub = NoSub /\ ~row.over

Checkout(s) ==
    /\ session[s].status = "none"
    /\ \E trial \in {TrialAvailable} \cup (IF CardlessTrial THEN {TRUE} ELSE {}) :
            session' = [session EXCEPT ![s] = [status |-> "open", trial |-> trial]]
    /\ UNCHANGED <<row, stripe, pack, purchases, events, work, granted, told, changes>>

Subscribe(s) ==
    LET status == IF session[s].trial THEN "trialing" ELSE "active" IN
    /\ session[s].status = "open"
    /\ session' = [session EXCEPT ![s].status = "complete"]
    /\ stripe' = [stripe EXCEPT ![s] = [status |-> status, at |-> 1]]
    /\ events' = events \cup {Message("subscribed", s, "none", 0), Message("updated", s, status, 1)}
    /\ UNCHANGED <<row, pack, purchases, work, granted, told, changes>>

\* A renewal, a failed payment, the portal (also a cancellation at the period's end, which
\* leaves the status), or the end.
Change(s, status) ==
    /\ stripe[s].status \in Live
    /\ status # "trialing" \/ stripe[s].status = "trialing"
    /\ changes < MaxChanges
    /\ changes' = changes + 1
    /\ stripe' = [stripe EXCEPT ![s] = [status |-> status, at |-> stripe[s].at + 1]]
    /\ events' = events \cup {Message("updated", s, status, stripe[s].at + 1)}
    /\ UNCHANGED <<row, session, pack, purchases, work, granted, told>>

\* The trial or the period the row speaks of runs out.
Lapse ==
    /\ row.status \in {"trial", "canceled"} /\ ~row.over
    /\ row' = [row EXCEPT !.over = TRUE]
    /\ UNCHANGED <<session, stripe, pack, purchases, events, work, granted, told, changes>>

BuyPack(p) ==
    /\ pack[p] = "none"
    /\ pack' = [pack EXCEPT ![p] = "open"]
    /\ UNCHANGED <<row, session, stripe, purchases, events, work, granted, told, changes>>

\* checkout.session.completed, paid or not yet, and async_payment_succeeded or _failed
FinishPack(p, status) ==
    /\ \/ pack[p] = "open" /\ status \in {"pending", "paid"}
       \/ pack[p] = "pending" /\ status \in {"paid", "failed"}
    /\ pack' = [pack EXCEPT ![p] = status]
    /\ events' = events \cup IF status = "paid"
                 THEN {PackMessage("paid", p, "paid"), PackMessage("async_paid", p, "paid")}
                 ELSE {PackMessage(status, p, status)}
    /\ UNCHANGED <<row, session, stripe, purchases, work, granted, told, changes>>

(***************************************************************************)
(* upsert_from_stripe_subscription                                          *)
(***************************************************************************)
\* Variant: the end of any subscription is stored.
Upsert_AnyEnd(s, status) ==
    [sub |-> s, status |-> STRIPE_STATUS[status], over |-> FALSE, tried |-> row.tried \/ status = "trialing"]

Upsert(s, status) ==
    IF row.sub \notin {NoSub, s} /\ status = "canceled" THEN row
    ELSE [sub |-> s, status |-> STRIPE_STATUS[status], over |-> FALSE,
          tried |-> row.tried \/ status = "trialing"]

Mirror(s, status, at) ==
    /\ row' = Upsert(s, status)
    /\ seen' = [seen EXCEPT ![s] = IF at > @ THEN at ELSE @]
    /\ late' = IF at < seen[s] THEN late \cup {s} ELSE late \ {s}
    /\ left' = IF status = "canceled" THEN left ELSE (left \cup {row.sub}) \ {NoSub, s}

Recorded(e) == events' = events \ {e}

\* on_subscription_event: the row is locked, the snapshot stored.
StoreSnapshot(e) ==
    /\ e.type = "updated"
    /\ Mirror(e.of, e.status, e.at)
    /\ Recorded(e)
    /\ UNCHANGED <<session, stripe, pack, purchases, work, granted, changes>>

\* on_checkout_completed and sync_from_session: GET /subscriptions/{id} comes first.
Fetch(h, msg) ==
    /\ work[h] = NoWork
    /\ work' = [work EXCEPT ![h] = [msg |-> msg, got |-> stripe[msg.of].status, at |-> stripe[msg.of].at]]
    /\ UNCHANGED <<row, session, stripe, pack, purchases, events, granted, told, changes>>

FetchSubscribed(h, e) == e.type = "subscribed" /\ Fetch(h, e)
Return(h, s) == session[s].status = "complete" /\ Fetch(h, Message("returned", s, "none", 0))

\* A webhook whose event another process has recorded is rolled back.
StoreFetched(h) ==
    LET msg == work[h].msg IN
    /\ msg.type \in {"subscribed", "returned"}
    /\ IF msg.type = "returned" \/ msg \in events THEN Mirror(msg.of, work[h].got, work[h].at)
       ELSE UNCHANGED <<row, told>>
    /\ Recorded(msg)
    /\ work' = [work EXCEPT ![h] = NoWork]
    /\ UNCHANGED <<session, stripe, pack, purchases, granted, changes>>

(***************************************************************************)
(* payments.on_checkout_event and ledger.add                                *)
(***************************************************************************)
IsPack(e) == e.type \in {"paid", "async_paid", "pending", "failed"}

\* Only a paid session is granted, and only one whose source_ref has no row yet.
LookupPack(h, e) ==
    /\ IsPack(e) /\ work[h] = NoWork
    /\ work' = [work EXCEPT ![h] =
            [NoWork EXCEPT !.msg = e,
                           !.got = IF e.status = "paid" /\ e.of \notin purchases THEN "new" ELSE "known"]]
    /\ UNCHANGED <<row, session, stripe, pack, purchases, events, granted, told, changes>>

\* Variant: source_ref without its unique index.
Inserted_NoIndex(h) == work[h].got = "new" /\ work[h].msg \in events

\* The unique source_ref, and the event another process may have recorded.
Inserted(h) == work[h].got = "new" /\ work[h].msg \in events /\ work[h].msg.of \notin purchases

StorePack(h) ==
    LET p == work[h].msg.of IN
    /\ IsPack(work[h].msg)
    /\ IF Inserted(h)
       THEN /\ purchases' = purchases \cup {p}
            /\ granted' = [granted EXCEPT ![p] = @ + 1]
       ELSE UNCHANGED <<purchases, granted>>
    /\ Recorded(work[h].msg)
    /\ work' = [work EXCEPT ![h] = NoWork]
    /\ UNCHANGED <<row, session, stripe, pack, told, changes>>

\* A crash, or Stripe does not answer: the transaction is gone, its event is not.
Fail(h) ==
    /\ work[h] # NoWork
    /\ work' = [work EXCEPT ![h] = NoWork]
    /\ UNCHANGED <<row, session, stripe, pack, purchases, events, granted, told, changes>>

BuyerStep ==
    \/ \E s \in Subs : Checkout(s) \/ Subscribe(s)
    \/ \E p \in Packs : BuyPack(p)

StripeStep ==
    \/ \E s \in Subs, status \in AtStripe : Change(s, status)
    \/ \E p \in Packs, status \in {"pending", "paid", "failed"} : FinishPack(p, status)

HandlerStep(h) ==
    \/ \E e \in events : FetchSubscribed(h, e) \/ LookupPack(h, e)
    \/ \E s \in Subs : Return(h, s)
    \/ StoreFetched(h) \/ StorePack(h) \/ Fail(h)

ShopNext ==
    \/ BuyerStep \/ StripeStep \/ Lapse
    \/ \E e \in events : StoreSnapshot(e)
    \/ \E h \in Handlers : HandlerStep(h)

ShopSpec == ShopInit /\ [][ShopNext]_shopVars

(***************************************************************************)
(* Properties                                                               *)
(***************************************************************************)
\* "The credits are granted ONLY by the signed webhook": a pack is entered once, and only when
\* its session was paid, though two events tell of it and two processes read before they write.
GrantedOnce ==
    \A p \in Packs : granted[p] <= 1 /\ (granted[p] = 1 <=> p \in purchases)
                      /\ (p \in purchases => pack[p] = "paid")

Quiet == events = {} /\ \A h \in Handlers : work[h] = NoWork

Rights == {"trial", "active", "past_due"}

\* The only writer of active, past_due and canceled is Stripe: without a completed Checkout there
\* is at most an old trial without a card.  And what Stripe says reaches the row, however two
\* Checkouts, their events and the user's return are interleaved.  Once every event is handled
\* the row says of its subscription what Stripe does, unless an older answer was handled last
\* (nothing compares their age); and whoever has a live subscription has its rights, unless
\* another that was live has taken the row over from it, and ended.
RightsFromStripe ==
    /\ row.sub = NoSub => row.status = "none" \/ (row.status = "trial" /\ row.tried)
    /\ row.sub # NoSub => session[row.sub].status = "complete" /\ stripe[row.sub].status # "none"
    /\ Quiet => /\ row.sub \notin late \cup {NoSub} => row.status = STRIPE_STATUS[stripe[row.sub].status]
                /\ \A s \in Subs : stripe[s].status \in Live => row.status \in Rights \/ s \in left

=============================================================================
