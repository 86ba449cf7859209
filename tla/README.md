# TLA+ specifications of Dialogbot

Dialogbot is a Danish AI receptionist: it answers the calls of small businesses,
calls lists of contacts for them, and, for private users, calls businesses on
their behalf. These modules specify the parts of the backend whose correctness
depends on several processes: what the worker processes, API requests, webhooks
and phone calls may do to the same rows, in every order, with crashes and lost
answers in between.

Paths are relative to `src/`; `file.py:123` is a line of the source.

1. [The system](#the-system)
2. [Modules](#modules)
3. [Outbox](#outbox) · [PrivateCalls](#privatecalls) · [Campaigns](#campaigns) ·
   [SalesCampaigns](#salescampaigns) · [BrowserRuns](#browserruns) ·
   [Invoicing and Commissions](#invoicing-and-commissions) · [Subscriptions](#subscriptions) ·
   [Bookings](#bookings) · [Provisioning](#provisioning) · [SocialPosts](#socialposts)
4. [Runs](#runs)
5. [Fairness](#fairness)
6. [Proofs](#proofs)
7. [Where code and words disagree](#where-code-and-words-disagree)
8. [What is not modelled](#what-is-not-modelled)
9. [Plan](#plan)

## The system

One PostgreSQL database (READ COMMITTED) holds all state. Around it run

- **API processes** (FastAPI, `app/main.py`): one synchronous SQLAlchemy session
  per request, mostly one transaction. Sessions have `expire_on_commit=False`: a
  row that was read stays as it was read.
- **worker processes** (`python -m app.worker.runner`), any number: each loops
  over `process_once` (outbox events) and, every 60 seconds, `run_schedules`
  (campaign dispatch, the sweep of stale private calls, invoices, telephony jobs,
  social posts, reports, ...).
- **browser workers** (`browser_worker/runner.py`): consume the `browser.*`
  outbox events and drive a page in a thread per run.
- **outside services**: Vapi (phone calls), Twilio (numbers), Resend (mail),
  Stripe (payment), the customers' calendars, Facebook, Instagram and TikTok,
  language models. They are asked over HTTP, may refuse, or not answer in time
  although they did what was asked, and report back later through webhooks.

There is no in-memory state shared between processes. Everything that goes wrong
goes wrong between two transactions, or between a transaction and a request to an
outside service.

| Component (code) | State it keeps | Operations | What is hard | What makes it correct |
|---|---|---|---|---|
| Outbox and worker loop (`core/outbox.py`, `worker/runner.py`, `integrations/email.py`) | `outbox_events` (status, attempts, lease, next attempt), `email_deliveries` | enqueue in the caller's transaction; claim, handle, finish in three transactions | a crash between any two; a lease that runs out under a slow worker; a POST without an answer; racing dedupe keys | one mail per event; the lease excludes; retries are bounded and end; no event is acknowledged without its effect |
| Private calls (`privat/calls.py`, `ledger.py`, `subscriptions.py`) | `private_tasks`, `private_calls`, `credit_ledger` | propose, approve now or for later, decline, retry, dial, report, call-back report, sweep | money is reserved in one transaction and settled in another; dial may be overtaken by the report or the sweep; two tasks are approved at once | never overdrawn; dialled once; a reservation is settled exactly once, and in the end |
| Campaigns (`campaigns/service.py`, `router.py`) | `campaigns`, `campaign_contacts`, `campaign_calls`, `do_not_call` | dispatch, dial, report, import, start, pause, remove, block, unblock | a pass dials inside its transaction and commits at its end; plain reads of staff requests race passes and reports | bounded calls per contact, one in flight, one charge per attempt, the do-not-call list is heeded, a campaign ends |
| Sales channel (`sales/outbound.py`, `policy.py`) | the same rows, `contact_basis`, the dispatch key | the internal dial inside the same pass, members, basis, start, stop | its commit before the POST releases the whole pass's locks; a basis is withdrawn between the policy and the POST | as campaigns; the policy is asked last |
| Browser bookings (`browser/service.py`, `browser_worker/`) | `browser_runs`, credits | start, approve, decline, sweep, replay; compare-and-set transitions | thread per run outside the event's transaction; answers older than the page | one booking per approval; credits settled once |
| Subscriptions and credits (`privat/subscriptions.py`, `payments.py`, `ledger.py`) | `private_subscriptions`, `credit_ledger` | Checkout, return from it, trial, Stripe's events | events in any order and twice; the subscription is fetched before the row is locked; two Checkouts of one account | rights come from Stripe and arrive; a pack is granted once |
| Bookings and calendars (`bookings/`, `integrations/actions.py`, `connectors/calendar.py`) | `bookings`, `booking_settings`, `integration_connections` | book, move, cancel, mirror to the calendar | free times are read over HTTP under a lock that a cancellation does not take; the calendar is told before the commit | no double booking; the mirror follows |
| Business billing (`billing/`) | `invoices`, Stripe's ids, `webhook_events` | monthly invoice by the worker or the owner, webhooks | three kinds of POST inside one transaction; events out of order | one invoice per month, charged once |
| Ambassador programme (`ambassadors/service.py`) | `commission_entries`, payouts | accrue, reverse, release, pay out, cancel | a webhook reads without locks; refunds after a payout; concurrent payouts | earned once, transferred once, never more than was earned |
| Telephony jobs (`telephony/platform.py`, `providers.py`) | `telephony_setups`, `telephony_jobs`, accounts, numbers | verify, documents, connect, run the job | the job is decided on a stale copy; providers that do and do not answer; lock order | one number bought and used; a verified number is one the customer answers |
| Social posts (`social/service.py`, `publishers.py`) | `social_posts` | plan, rebuild, approve, cancel, publish, sweep | publishing is committed before the platform is called; requests write back what they read without a lock | no post more than was asked for; one a day; none left in the middle |
| Integrations (`integrations/events.py`, `oauth.py`) | connections, sinks | fan-out of domain events, connect, disconnect | delivery races disconnect | every sink gets each event |
| Workspaces, identity, idempotency (`workspaces/`, `identity/`, `core/idempotency.py`) | users, sessions, invitations, stored answers | single-transaction commands | two requests with one key | one effect per key |
| Others: knowledge, leads, reports, assistant, funnel, chat and apps, AI and speech, operator pages, web frontend | their own tables | mostly single-transaction commands and read models | few interleavings | see [below](#what-is-not-modelled) |

How they interact: a command changes its rows and enqueues an event in the same
transaction (`outbox.enqueue`); a worker handles the event. `calls.approve` for
later enqueues `privat.call_due`, which the worker turns into a dial. Both
campaigns and private calls create calls with `campaigns.create_call`, and their
reports come through one webhook (`telephony/vapi.py`), which looks for the call
in private calls and in campaigns before it treats it as an ordinary one.
Private calls and browser bookings spend the same credit balance.

The hazards list in `PROJECT.json` names each place where this can go wrong, with
the property that covers it, or the reason why none does yet.

## Modules

| Module | What it is |
|---|---|
| `Outbox` | events, leases, retries, the mail handler, crashes |
| `MailPromise` | what the outbox promises about one mail per business event (abstract) |
| `OutboxProofs` | the theorems about `Outbox`, `Outbox` implements `MailPromise` among them |
| `PrivateCalls` | calls on a private user's behalf, their credits and plan calls |
| `PrivateProofs` | the theorems about `PrivateCalls` and `Subscriptions` |
| `Campaigns` | the dispatch pass, its calls, reports, and the staff's requests |
| `CampaignsProofs` | the theorems about `Campaigns` and `SalesCampaigns` |
| `SalesCampaigns` | `Campaigns` and Dialogbot's own campaigns in the same pass (EXTENDS `Campaigns`) |
| `BrowserRuns` | bookings on a website: the run, its thread, the user's answers, its credit |
| `BrowserRunsProofs` | the theorems about `BrowserRuns` |
| `Invoicing` | a company's monthly invoices, Stripe, and its events |
| `Commissions` | `Invoicing` and the ambassador's ledger: entries, reversals, payouts (EXTENDS `Invoicing`) |
| `CommissionsProofs` | the theorems about `Commissions` and `Invoicing` in it |
| `Subscriptions` | a private account's subscription and credit packs against Stripe's events |
| `Bookings` | booking, moving and cancelling, with the connected calendar |
| `BookingsProofs` | the theorems about `Bookings` |
| `Provisioning` | the customer's number and the job that buys and imports one |
| `ProvisioningProofs` | the theorems about `Provisioning` |
| `SocialPosts` | Dialogbot's own posts of one platform and day |
| `SocialPostsProofs` | the theorems about `SocialPosts` |
| `MCOutbox`, `MCPrivateCalls`, `MCCampaigns`, `MCCampaignsLife`, `MCBrowserRuns`, `MCCommissions`, `MCSubscriptions`, `MCBookings`, `MCProvisioning`, `MCSocialPosts` | instances for TLC |

In all of them **an action is one transaction**, or one stretch of code between two
points where another process can see or change something: a commit, a row lock,
the sending or the answer of a request, a slow call between a read and a write.
Row locks appear as guards (an action that would wait is disabled), a plain SELECT
reads the committed rows, and what is written before the commit is kept apart
where others could otherwise see it (`command` in `Outbox`, `draft` in `Campaigns`).
A definition that ends in `_Something` before the definition it varies is a
plausible bug in that place (a dropped guard, an off-by-one); no behaviour of the
specifications uses it. It is there to see that a property notices.

Time is abstracted to what the code compares: a lease is live or expired, an event
is due or not, a call is past the sweep's cutoff or not. Each becomes so in an
action of its own, at any time later; where the code's own limits exclude an
order, the guard says so (a POST has a timeout of 20 seconds and a call lasts at
most three minutes, so a call that is 30 minutes old is over).

### Outbox

| Spec | Code |
|---|---|
| `status`, `attempts`, `lease`, `due` | columns of `outbox_events`; `lease` is `lease_expires_at` against now, `due` is `next_attempt_at` |
| `delivered` | `email_deliveries`, unique on `outbox_event_id` |
| `honoured`, `mails` | the provider: idempotency keys it knows, mails sent |
| `Lookup`, `Insert`, `Commit`, `Rollback` | `outbox.enqueue` in a request, with PostgreSQL's wait on a unique index |
| `Claim`, `Finish` | `claim_one`, `finish` |
| `CheckDelivery`, `Post`, `PostFails`, `Record` | the handler: `_send_mail` and `ResendEmailAdapter.deliver` |
| `Crash`, `Overrun`, `AbandonedLeaseExpires`, `BackoffElapses` | the process dies; leases and back-offs run out |

`finish` does not compare the lease owner, so a late worker may finish, or
re-queue, an event that somebody else holds. `OneMailPerEvent` holds all the
same, because the POST carries the event id as idempotency key. This rests on
the provider: it is modelled as remembering a key for ever (Resend keeps it for
a day, which is longer than the outbox retries).

What holds only without a late worker says so: `LeaseExclusive`,
`RecordedIsNotFailed`, `SettledIsFinal` and the abstract promise's `late`.

### PrivateCalls

| Spec | Code |
|---|---|
| `means` | the credits and the plan calls of the month, fixed |
| `status`, `result`, `paid_via`, `old` | columns of `private_calls`; `old` is `dialled_at` against the cutoff |
| `task`, `newest` | `private_tasks.status`, its newest call |
| `ledger` | `credit_ledger`, an entry per `call:<id>:<kind>` |
| `approving` | `approve()` between its decision and its commit, with the locks it holds |
| `dialler` | the thread in `dial()`: before the first commit, or waiting for Vapi |
| `callback` | what `on_callback_report` read before it asked the language model |
| `Propose`, `ApproveCheck` ... `ApproveRefused`, `Decline`, `Retry` | `propose`, `approve`, `decline`, `retry` |
| `CallDue`, `DialStart`, `DialAccepted`, `DialSilent`, `DialRejected` | `handle_call_due`, `dial` |
| `ReportNoAnswer`, `ReportAnswered`, `CallbackRead`, `CallbackWrite` | `on_report`, `on_callback_report` |
| `GetsOld`, `Sweep` | the 30 minutes, `sweep_stale` |
| `Release` | `_release` |

`dial()` sets the status after the POST whatever the row says by then. If the
report of a very short call is applied first, the call goes back to
`in_progress`, and the sweep later releases credits that were captured.
`overwritten` records this, and `SettledOnce` holds apart from it.
`ReservationsSettle` names the two ways a reservation stays open, `Orphaned`
(the process dies between the commits of `approved` and of `dialling`) and
`Parked` (a call-back closed the task of a call planned for later, and the worker
then skips it).

### Campaigns

| Spec | Code |
|---|---|
| `campaign`, `row`, `billed`, `blocked` | `campaigns`, `campaign_contacts`, `campaign_calls`, `do_not_call` |
| `row[x].waiting`, `old` | `next_attempt_at` in the future, `last_attempt_at` past `STALE_CALL` |
| `locked`, `todo`, `draft`, `dialling`, `completing`, `placed` | a pass: locked campaigns, what it has yet to visit and what it has written but not committed |
| `PassBegin`, `Visit...`, `Post...`, `PassCommit`, `PassRollback` | `dispatch`, `_next_contact`, `dial` |
| `ReportBegins`, `ReportEnds`, `ReportStray` | `on_report`: the SELECT that locks the contact, the language model and the commit after it, a report that finds no contact |
| `ReportUnlocks`, `UnlockedEnds` | `ai.log_call` commits when the language model fails, which releases the contact in the middle of `on_report` |
| `ImportReads/Writes`, `BlockReads/Writes`, `DeleteReads/Writes`, `PauseReads/Writes`, `Start`, `Unblock` | the requests of `router.py`; each one without a lock between its reads and its writes is two actions |

`lost` counts the calls Vapi took of which the database knows nothing: their pass
was rolled back, or the answer did not come. The bound on calls per contact is
`max_attempts` plus those (`CallBudget`), and the number is not bounded by the
code itself.

A report waits for row locks and for nobody who has only read. So `add_dnc` may read
a contact as pending, a pass may dial it and commit, its report may store the answer,
and `add_dnc` then writes `skipped` over it: `AnsweredIsFinal` names this (`Skips`).
What it says is that nobody is called again after an answer.

### SalesCampaigns

`SalesNext` replaces the customers' visits by those of the internal kind where a
campaign is one, and adds the operators' requests; everything else is the action of
`Campaigns`.

| Spec | Code |
|---|---|
| `sale` | the attempts of the contact that the pass dials, as it loaded them (`Loads`), and whether it has committed the contact as `calling` |
| `internal` | `campaigns.kind = internal_sales` |
| `basis`, `Allowed` | `policy.evaluate` at the stage `dispatch`: its grounds other than the lists and the attempts are one set of numbers |
| `SalesVisit`, `SalesVisitSkip` | the branch of `dispatch` at `service.py:367`, `gate`, `concurrency_full` |
| `SalesMark` | the commit of `calling` and the dispatch key before the POST: it writes the whole draft of the pass and releases every campaign it had locked |
| `SalesTaken`, `SalesAccepted`, `SalesUnknown`, `SalesRejected`, `SalesLater` | the POST and its four answers, each committed |
| `SalesRollback`, `SalesGetsOld`, `SalesReportEnds` | the pass fails, the stale sweep, `outbound.on_report` |
| `MemberReads`, `RecordBasis`, `WithdrawBasis`, `SalesStart`, `StopReads/Writes` | the operators' requests of `channel_router.py` |

A pass that has released its locks may meet another one, and then it matters what it
writes. `attempts` is one more than what it had loaded, not than what the row says when
the answer arrives (`Accepted`; the session does not expire what it has read), and a row
that another pass has flushed has to be waited for (`OthersDraft`).

`max_attempts` bounds nothing here, not even for one campaign and one contact. The sweep
gives up a call without a report after three hours and the contact is dialled again; a
report of the first call that arrives while the second POST is out makes the contact
`pending`, and the answer to the POST leaves the status alone, because the pass does not
know that it changed (`sales/outbound.py:436`). So the contact is due once more. What
bounds the attempts are the calls that were taken, and `SalesTypeOK` says so.

### BrowserRuns

| Spec | Code |
|---|---|
| `status`, `code`, `mode`, `proposal` | columns of `browser_runs`; `proposal` is `before_after`, as far as `SAME_AS_APPROVED_KEYS` compares it |
| `confirming`, `heartbeat` | `result._confirming`, and a `result._live_until` in the future |
| `aged` | whether the cutoff that counts in the present status has passed (15 or 20 minutes, 24 hours, 90 seconds) |
| `ledger` | the entries `browser:<id>:<kind>` |
| `queue`, `last` | the run's outbox events; the one a restart may find unfinished |
| `thread` and `replay`, `form`, `verdict` | where the thread in `_drive` is, its argument, what its page says, the end `_settle` is about to write |
| `Plan`, `Approve`, `ApproveTooLate`, `Decline`, `Switch` | `start_run`, `approve`, `decline`, `cancel_for_phone` |
| `HandleRun`, `Decision...`, `Sweep...`, `Crash` | `handle_run`, `handle_decision`, `sweep`, a restart of the one worker process |
| `Start` ... `Leave` | `_drive`, cut at its transactions: the compare-and-set, `enter_awaiting`, the polls, the second compare-and-set, the confirming mark, the session's check, the click, `_settle` |

`_settle` reads the status without a lock and writes the end later, so `Conclude`
and `Settle` are two actions and a switch to the phone may fall between them. Only
after a commit that nobody asked for does this touch money (`CreditFollowsClick`
names the case). The click itself is safe: `cancel_for_phone` refuses when the mark
is there, and when it comes before the mark, the session's check sees it
(`CalledOffIsNotClicked`). The one process that handles events may leave a yes to a
session that is about to give up, or to the heartbeat of a dead one; `RunsSettle`
holds because the sweep raises the event again.

### Invoicing and Commissions

`Commissions` composes the two: every webhook that stores an event of `Invoicing`
also writes what it means for the ambassador, in one transaction.

| Spec | Code |
|---|---|
| `invoice`, `creation` | `invoices` by month; the transactions of `create_invoice` and how far each is |
| `keys`, `KeysRunOut` | the idempotency keys Stripe still knows, by kind of POST; they run out after 24 hours |
| `Reserve`, `PostInvoice`, `PostLines`, `PostFinalize`, `CommitInvoice`, `Abandon` | the row and its unique index, the three kinds of POST with their idempotency keys, the commit, and the end of a transaction anywhere in between |
| `stripe`, `charge`, `events`; `AutoAdvance`, `Pay`, `PaymentFails`, `GiveUpOn`, `Refund`, `CreditNote` | Stripe, and the events it sends in any order |
| `TakeEvent`, `StoreEvent`, `DropEvent` | `webhooks/router.py` and `billing.stripe.on_event`: the reads, the commit with the event's unique id, the loser of a race for it |
| `entry`, `reversal`, `referral`, `first`, `plan` | `commission_entries`, the ambassador of the referral, `referrals.first_paid_month`; what a webhook has decided and not committed |
| `Take`, `Store`, `Drop` | the same events with `on_invoice_paid` and `reverse_for_invoice` |
| `ReadHeld`, `Release` | `release_held`: the read and the flush |
| `CreatePayout`, `MarkPaid`, `CancelPayout`, `MoveReferral` | the operators' requests; a payout is one ambassador's, and a referral that moves to another keeps its first month |

Amounts are small numbers; `Cut` is the code's proportional reversal with its
rounding. `TransferredWasEarned` bounds transfers by what was earned and not by
what is left after refunds, because a refund may come after the payout.

`create_invoice` is repeated every minute for a month, and by the owner for longer, but a
key is known to Stripe for 24 hours. A creation whose transaction is lost again and again
for a day therefore makes a second draft, which `PostInvoice` puts in the place of the
first, whose events find no row. `ChargedOnce` counts the charges while the keys
of the lines last, and from the row on, when the row alone prevents another; with the row
there the keys are of no more use (`CommitInvoice` forgets them). When lines of two
ambassadors are refunded at once, the code charges the whole claw-back to one of them
(`ambassadors/service.py:439-444`), and so does `Reversals`, to either.

### Subscriptions

| Spec | Code |
|---|---|
| `row` | the account's one row of `private_subscriptions`; `over` is `trial_ends_at` or `current_period_end` in the past; at the start a free row, or one in a trial without a card, which accounts of earlier versions have |
| `session`, `stripe`, `pack`, `events` | Checkouts, subscriptions and payments at Stripe, and its events |
| `work` | a handler that has read from Stripe or from the table and not committed |
| `seen`, `late`, `left` | history: the newest answer of each subscription that was handled, those of which an older one was handled last, those from which a live one has taken the row |
| `Checkout`, `BuyPack`, `Return` | `subscriptions.checkout`, `payments.checkout`, the user's way back |
| `StoreSnapshot` | an event with the subscription in it: one transaction, under the row's lock |
| `Fetch`, `FetchSubscribed`, `StoreFetched` | the end of a Checkout: Stripe is asked first, the row locked after |
| `LookupPack`, `StorePack` | `ledger.add` for a pack, with PostgreSQL's wait on the unique index |

Stripe numbers its answers in the model (`at`), the code does not: it stores whichever
comes last. `RightsFromStripe` therefore says that the row is what Stripe says unless an
older answer was handled last (`late`), and that a live subscription has its rights unless
another one that was live took the row and ended (`left`). An account without a completed
Checkout has no rights but those of the trial without a card (`Entitled` in the code grants them,
`tests/test_privat_subscription.py:97-107`).

### Bookings

| Spec | Code |
|---|---|
| `booking`, `connection` | `bookings`, `integration_connections.status` |
| `event` | the connected calendar, as far as it knows the booking |
| `request` | a transaction: what it has read, what it has told the calendar |
| `Begin...` | the adapter's choice (`actions.py`), and for a move or a cancellation the read of the booking |
| `LookForBooking`, `LookForMove`, `TakeRow` | the lock on `booking_settings` and the free times; a cancellation takes only its row |
| `Mirror`, `MirrorFails`, `NotMirrored` | the calendar's answer, its failure, or no connection |
| `Commit`, `CommitRefused`, `Lose`, `Reconnect` | the caller's commit, the commit after a refusal, a lost transaction, a connection test |

`cancel` has sent the UPDATE of its row before it asks the calendar: `_mirror_cancel` first
reads the connection (`credentials.py:40-43`), and sessions flush what is pending before a
SELECT (`db.py:34`). So `TakeRow` comes before `Mirror`.

A time is a number and every booking lasts `Length`. The owner's appointments are
a refusal that may come at any time.

### Provisioning

| Spec | Code |
|---|---|
| `setup`, `heard` | `telephony_setups`: the number, how it was verified, the code that counts, the documents; codes read aloud |
| `job`, `stored` | `telephony_jobs`; `telephony_accounts` and `phone_numbers` |
| `run[r]` | a run of the job: the copy it goes by, its own changes, and where it is |
| `locks` | the rows of the setup and of the job; requests take them in one order, the worker in the other |
| `twilio`, `imports` | sub-accounts, numbers bought and those among them that Twilio lists, imports into Vapi |
| `lost` | history: how the mark of a purchase (`purchase_started`) was lost or not seen |
| `Connect`, `OperatorRun`, `WorkerLoads`, `TakeSetup`, `TakeJob` | who runs the job, and the two locks |
| `ReviewBegins`, `ReviewEnds`, `ReviewDeadlock` | the operator's review of the documents: the setup's lock, then the UPDATE of a waiting job's row, and the circle of waits with the worker |
| `HasAccount` ... `Import`, `Commit` | `run_job`, step by step |
| `ListNumber` | Twilio's list comes to show a number it has sold |
| `...Fails`, `Crash`, `Deadlock`, `WorkerLetsGo` | a provider that does not answer or answers too late, the end of a run, PostgreSQL's deadlock detection, the commit per job of `run_due_jobs` that releases the other rows |

Twilio's list may leave out a number that was sold a moment ago, which is what
`platform.py:314` is written for: "bought before a timeout but not listed yet: wait, never
re-buy". The wait goes by a mark in the job's state that is flushed before the purchase
and committed after it. `BuysOnce` says that a second number is bought only when that mark
was lost or not seen, and `lost` names the four ways: the run dies after the sale
(`died`), the connection breaks and the sale is taken for a refusal (`broken`), a run with
an older copy of the job writes its state over the mark (`overwritten`) or goes by a copy
without it (`stale`). There is one sub-account and one import of each number in
any case: sub-accounts and imports are looked up before they are made, and those lists are taken
to be current. `purchase_candidate` is left out: nothing reads it.

### SocialPosts

| Spec | Code |
|---|---|
| `post` | `social_posts` of one platform and one day; `when` is `scheduled_for` against now and `SOCIAL_MAX_LATE_MINUTES`, `waiting` is `next_attempt_at` in the future, `old` is `updated_at` past `STALE_PUBLISHING` |
| `doing` | a thread: what it is about, the rows it has read, the rows it has locked |
| `public` | the platform |
| `RefreshBegin`, `RefreshOne`, `RefreshFails` | `refresh_stale_drafts`: one SELECT with locks, a commit per row |
| `RefreshLetsGo` | a commit for a row of another day or platform, or of `ai.log_call` when the language model fails: it releases this day's rows too |
| `PlanBegin`, `Replan`, `PlanEnds` | `plan_day` by the worker and by an operator |
| `PlanUnlocks`, `unlocks` | the same commit of `log_call` releases the planner's lock, and the plan goes on |
| `SweepReads`, `SweepWrites`, `ClaimLate`, `Claim` | `publish_due` |
| `Made`, `Posted`, `Refused`, `NoAnswer`, `Breaks` | `publisher.publish` and the commit after it |
| `Approve...`, `Cancel...`, `NowReads`, `NowWrites`, `NowMarks`, `NowRefused` | the operators' requests |

## Runs

| Run | Question | Bounds | Expected |
|---|---|---|---|
| `outbox` | Is every published event mailed at most once and settled in the end, whatever workers and commands do? Does it keep `MailPromise`? | 2 events, 2 commands, 2 workers, 2 attempts, 1 crash, 1 overrun | pass |
| `private_calls` | Are credits and plan calls never overdrawn, a call dialled once, settled once, over once over, and settled in the end? | 2 tasks and 2 calls (one each, or a retry), means for one call, 1 crash | pass |
| `campaigns` | One call in flight, one charge per attempt, the list heeded, with two workers? | 1 campaign of either kind, 2 contacts, 2 workers, 1 attempt each, 1 fault or 1 staff request, or both where a basis is withdrawn | pass |
| `campaigns_life` | Is the number of calls bounded, an answer final, and does the campaign end? | 1 contact, 1 worker, 2 attempts, 3 calls, 1 fault (a language model that fails is one), 1 staff request | pass |
| `browser_runs` | Is a booking confirmed at most once and as agreed, never after a no, paid accordingly, and over in the end? | 1 run, 2 offers, 2 crashes | pass |
| `commissions` | Is a month charged once as long as Stripe knows its keys or there is a row, earned once, transferred once, and no more than was earned? | 1 month, 2 creations and 2 webhooks at once, 2 ambassadors, refunds and credit notes of 1 or 2 of 2, 2 payouts of at least 3, 1 fault or move of the referral | pass |
| `subscriptions` | Is a pack granted once, and do rights come from Stripe, or an old trial, and arrive? | 2 subscriptions or 2 packs, 2 handlers, 2 changes at Stripe, with and without a trial at the start | pass |
| `bookings` | Are bookings apart, and is the calendar faithful? | 2 bookings, 2 requests, 3 times, a buffer of 1, 2 moves, 1 fault | pass |
| `provisioning` | Is nothing bought twice while the mark of a purchase stays, a verified number one that is answered, and what was bought used? | 1 request, the worker and a review, 2 numbers of the customer's, 2 for sale, 1 code, 2 changes or reviews, 1 fault | pass |
| `social_posts` | Is nothing posted that was not asked for, one post planned a day while plans keep their lock, and none left in the middle? | 2 rows for the day, 1 worker, 1 operator, 2 requests, 2 attempts, 1 fault | pass |
| `campaigns_released` | "At most one call in flight per campaign" | a customer's campaign and an internal one with a contact each, 2 workers, no fault | violation |
| `bookings_move` | "Serialises concurrent bookings for the workspace" | 2 bookings, 2 requests, 2 times, 1 move, no fault | violation |

The type invariant of every module is proved ([Proofs](#proofs)); five runs check one as
well.

Why the bounds are enough. Two workers and two events are the smallest instance in which
a late worker and a second one meet at one event while another event is there to be
mixed up with it; two attempts give a retry and a last attempt; a second crash or
overrun only repeats the first, since the model's reaction to one depends on no counter
but `attempts`. The theorems about the outbox need no bound. Two tasks are the smallest
race for one balance, and with means for exactly one call each decision is the last one
that may be made; two calls let a late report meet a newer call of the same task. In a
campaign, what concerns several contacts is checked with two of them and two workers
(`Few` leaves fault and request together to `campaigns_life`, but for the request that
withdraws a basis, which is only here), and what concerns attempts over time with one
contact and a retry; `MaxCalls` is one more than `MaxAttempts`, room for the call a
fault adds. A report that has lost its lock is over before the contact's back-off is
(`RetryDue`) and before the next report of the contact: half an hour, against the rest
of one transaction. One staff request is enough for each single race of a request with
passes and reports; an entry that was made by hand may then be removed again (`Unblock`,
one action, because nothing ever changes the source of an entry that exists; it undoes a
counted block and is not counted itself). Browser runs share only the process and its
browsers, so one run is enough; two offers are what a replay needs to find something
else, and after two restarts a yes can meet a second replay. Months share only the
referral's first month; one month with two creations and two webhooks has every race for
a row, and amounts of 2, 4 and a total of 2 make a reversal that is a part and one that
is the whole. Two ambassadors are what a referral needs to move, and a least payout of 3
leaves a share of 2 waiting and lets a bonus of 4 out. A month is returned only once it
has a row (`Return`), because a refund reported earlier does nothing. A subscription
needs a second one to be overtaken by, and a pack two handlers; two changes make an
answer that is older than another. `OneShop` lets a behaviour have subscriptions or
packs, since the two share no table; the theorems need neither bound nor constraint. Two
bookings and two requests are the race for one time, and with a buffer of one and three
times there is one time that is free next to a booking and one that is not. The job of a
workspace is one row, so one request against the worker is the race for it; `GiveUp` is
2 instead of 6 and only has to be more than one. The verification of a number and the
job share the lock on the setup and nothing else, so `OneStory` lets a behaviour have
codes, or a job for a number an operator has verified. No step with a fairness condition
leaves it, so it hides no infinite wait. Reviews are counted as changes. A day and a
platform share the planner's lock with the others, and the locks of
`refresh_stale_drafts`, which one SELECT takes on the rows of all of them and the first
commit releases: `RefreshLetsGo` is what this day sees of the rest. The second row for
the day is what a plan makes after a cancellation. With two workers and one request the
safety properties of `SocialPosts` hold too (157,077 states); the run has one worker
because `PostsSettle` takes much longer to check than they do.

Deadlock is not checked: each of these systems may come to rest (all events
settled, all calls over, no campaign running) with nobody obliged to ask for more.
Where the code itself can wait in a circle (`Provisioning`), the wait and
PostgreSQL's answer to it are in the model.

The counters `MaxCrashes`, `MaxOverruns`, `MaxCalls`, `MaxFaults`, `MaxRequests`,
`MaxChanges`, `MaxMoves`, `MaxCodes` and `MaxPayouts` bound the environment, not the
program; `MAX_ATTEMPTS` and `GiveUp` are constants of the code with smaller values.

## Fairness

- Worker loops run for ever (`runner.main`), so a worker's step that stays enabled
  is taken: WF on `WorkerStep`, `CallDue`, `Sweep`, `PassStep`. No fairness for a
  single kind of answer: a POST may fail each time, until the budget is used up.
- A request or thread that has begun runs on (WF on `CommitStep`, `DialStep`,
  `ReportEnds`, `RequestWrites`) unless a `Crash` takes it, and a database error
  ends the transaction (WF on `PassRollback` where a row was deleted under it).
- Time passes: WF on leases, back-offs and cutoffs.
- Phone calls end, and a POST that Vapi has received is decided (WF on `VapiStep`
  and `CallEnds`).
- The calling window opens again every working day. A pass outside of it does
  nothing (`VisitIdle`), so WF on the pass alone would let it stay closed for
  ever; SF on `VisitDial` and `VisitSkip` says that some pass meets it open.
- The browser worker's loop handles its events and sweeps, its threads run on, and a
  thread that waits for a browser gets one, since a held session ends with the
  approval TTL: WF on `Handle`, `SweepLost`, `SweepApproved`, `Start \/ StartMoot`
  and `ThreadStep`.
- Telephony: a run of the job and a review go on, and PostgreSQL grants row locks in the
  order of the queue, which is SF on `Proceeds` and `ReviewEnds` (another may take the lock
  in between, but not for ever); its deadlock detection ends one of two; the worker loads
  due jobs again and again, back-offs run out, and Twilio lists in the end what it has sold.
- Social posts: the worker's passes sweep and claim each minute what they find, so a
  post that is over and over ready is taken (SF on `SweepReads`, `ClaimLate \/ Claim`:
  other duties of the same thread come between); the platform answers or httpx times
  out, requests that have begun end, and time passes.
- Nothing else: no user, staff member, crash or fault is obliged to happen, and
  no report is obliged to arrive. This is why the sweeps are needed, and what
  `ReservationsSettle`, `CampaignEnds`, `RunsSettle`, `NumberIsUsed` and `PostsSettle`
  test. The other modules state safety only: what must happen there waits for a
  user, an operator, or Stripe.

## Proofs

Each proof module EXTENDS the module it is about. Its theorems hold for every value
of the constants that satisfies the module's assumptions, and for specifications
without fairness (`Spec` is `Init /\ [][Next]_vars`, or implies it).

| Module | Theorem | Establishes | Invariant |
|---|---|---|---|
| `OutboxProofs` | `TypeCorrect` | `[]TypeOK` | inductive by itself |
| | `AtMostOneMail`, `DoneIsMailed` | `[]OneMailPerEvent`, `[]DoneMeansMailed` | `MailInv` |
| | `BudgetHolds`, `CommandsHaveEvents` | `[]RetryBudget`, `[]CommittedHasEvent` | `QueueInv` |
| | `LeaseExcludes`, `RecordedNeverFails` | `[]LeaseExclusive`, `[]RecordedIsNotFailed` | `LeaseInv` |
| | `SettledStays` | `SettledIsFinal` | a step of a state with `LeaseInv` |
| | `OutboxKeepsPromise` | `Spec => KeepsPromise` | `MailInv` and `LeaseInv`, step by step |
| `PrivateProofs` | `PrivateCallsTypeCorrect`, `CallsDialledOnce`, `ReservationsSettledOnce` | `[]TypeOK`, `[]DialledOnce`, `[]SettledOnce` | `RowsInv` |
| | `CallsWithinMeans` | `[]WithinMeans` | `RowsInv`, `MeansInv` |
| | `CallsStayOver` | `OverIsOver` | a step of a state with `RowsInv` |
| `CampaignsProofs` | `CampaignsTypeCorrect` | `[]TypeOK` | `IInv`, `RestInv` |
| | `CampaignsOneInFlight`, `CampaignsBilledPerAttempt`, `CampaignsCallBudget`, `CampaignsListHeeded` | `[]OneInFlight`, `[]BilledPerAttempt`, `[]CallBudget`, `[]ListHeeded` | `IInv` |
| | `CampaignsAnsweredIsFinal` | `AnsweredIsFinal` | a step of a state with `IInv` and `UnlockedInv` |
| | `SalesTypeCorrect` | `[]SalesTypeOK` of `SalesCampaigns` | `SalesInv` |
| `BrowserRunsProofs` | `BrowserRunsTypeCorrect`, `RunsClickedAsAgreed`, `CalledOffRunsNotClicked`, `CreditsFollowClicks` | `[]TypeOK`, `[]ClickedAsAgreed`, `[]CalledOffIsNotClicked`, `[]CreditFollowsClick` | `IInv` |
| `CommissionsProofs` | `MonthsChargedOnce`, `EntriesAccruedOnce`, `LinesTransferredOnce` | `[]ChargedOnce`, `[]AccruedOnce`, `[]TransferredOnce` | `ChargeInv`, `BookInv` |
| | `LedgerTypeCorrect`, `PaidWasEarned` | `[]TypeOK`, `[]TransferredWasEarned` | `AllInv` |
| `PrivateProofs` | `SubscriptionsTypeCorrect`, `PacksGrantedOnce` | `[]ShopTypeOK`, `[]GrantedOnce` | `StoreInv` |
| | `RightsComeFromStripe` | `[]RightsFromStripe` | `RightsInv` |
| `BookingsProofs` | `BookingsTypeCorrect`, `BookingsApart` | `[]TypeOK`, `[]NoDoubleBooking` | `TypeInv`, `BookingInv` |
| | `BookingsMirrored` | `[]MirrorIsFaithful` | `MirrorInv` |
| `ProvisioningProofs` | `ProvisioningTypeCorrect`, `NothingBoughtTwice`, `VerifiedNumberAnswered` | `[]TypeOK`, `[]BuysOnce`, `[]VerifiedIsAnswered` | `IInv`, with `MarkInv` for `BuysOnce` |
| `SocialPostsProofs` | `SocialPostsTypeCorrect`, `SocialPostsPostedAsAsked`, `SocialPostsOnePerDay` | `[]TypeOK`, `[]PostedAsAsked`, `[]OnePerDay` | `IInv` |

### Assumptions

- Outbox: there is an event (`EventsAssumption`, a worker's `job` has a value from the
  start), `MaxAttempts` is a positive number (`MaxAttemptsAssumption`; the setting's
  default is positive), and the two bounds are numbers (`BoundsAssumption`).
- PrivateCalls: the tasks are a finite set and the bounds numbers
  (`ConstantsAssumption`). Finiteness is what makes a sum of credits a number.
- Campaigns: `MaxAttempts` and `MaxCalls` are positive, the other bounds numbers
  (`ConstantsAssumption`). Contacts need not be finite in number.
- BrowserRuns: `MaxCrashes` is a number (`CrashesAssumption`).
- SalesCampaigns: the sets that may be internal are sets of campaigns, and the two limits
  of the policy are positive (`SalesAssumption`).
- Invoicing and Commissions: months are positive numbers and finitely many, so that
  their amounts have a sum; prices, bonus, share and its months are positive, the least
  payout and the bounds numbers; who stands for no ambassador is none.
- Subscriptions: the value that stands for no subscription is none, and the bound is a number.
- Bookings: times are numbers, a booking's length is positive, a buffer a number.
- Provisioning: the worker is not one of the requests, what the account owns is a number,
  the value that stands for nothing is none of the real ones, the reviewer is no runner, and
  retries end (`GiveUp` is positive). How late Twilio lists a number is left open.
- SocialPosts: workers and operators are different threads and finitely many, so that
  those bound to post can be counted; `MAX_ATTEMPTS` is positive, the bounds numbers.

No assumption says how many users, workers, requests or rows there are, beyond the
finite sets named.

### Why the properties need more than themselves

None of the properties is inductive as it is stated.

**Outbox.** `OneMailPerEvent` does not say why a second POST is harmless. `MailInv` adds
that an event has one mail exactly when its key is honoured, and that delivery rows,
accepted POSTs and clean ends of handlers are each about honoured keys. `done` then
means mailed. `RetryBudget` is kept by `Claim` only because a queued event always has
an attempt left: `QueueInv` says so, and `Finish` keeps it. The dedupe key is safe
because at most one transaction holds an uncommitted row for it, and then there is no
committed one. `LeaseExclusive` needs the link between the process and the table: as
long as no lease overran, whoever is inside `process_once` holds the live lease of its
event, alone (`LeaseHeld`). An abandoned lease expires only when nobody is at work, so
a second claim finds nobody. `LeaseHeld` also keeps track of whether the event had been
recorded when the handler started, which is what makes the second insert of a delivery
row impossible without an overrun. The refinement maps committed rows to `published`,
delivery rows to `recorded`, settled statuses to `closed` and an overrun to `late`.
Commits, first POSTs, delivery rows, finishes and overruns are steps of `MailPromise`;
everything else, a repeated POST included, stutters.

**PrivateCalls.** `RowsInv` speaks of one call at a time: what it was paid with and what
the ledger says (`PaidInv`), how far its thread and Vapi are for each status
(`DialInv`), and what a captured or released reservation means (`SettleInv`). Between
its decision and its commit `approve` is alone (`LockInv`) and its decision stands
(`MeansInv`): nothing else that counts against the plan or the balance is written
meanwhile. The balance after the commit is then a matter of cardinalities.

**Campaigns.** What a pass has not committed is in force all the same: the calls it
placed ring. `IInv` therefore speaks of rows as they are, as a pass has drafted them,
and as a pass that waits for Vapi will write them. Locked campaigns are disjoint, and a
pass writes only rows of campaigns it has locked and visited (`PassInv`). In a campaign
at most one row is `calling` among those in force (`FlightInv`). A drafted row counts one
attempt more than the stored one exactly when the pass has placed a call for it
(`AttemptInv`), and a contact's calls are its counted attempts, the lost ones, and the
one that a pass has out (`CallInv`). A blocked number met by a pass was blocked after the
pass read the list (`ListInv`). Whatever a pass is about to write over has not answered,
and no report of it has begun, unless its call had been given up (`AnswerInv`): the conjunct
that makes `AnsweredIsFinal` hold at the commit of a pass that read the row long before. A
report that lost its lock leaves a contact that is not pending, or pending only after
a back-off that is not over (`UnlockedInv`), so no pass takes it up before the report ends. A
request may have read anything; what it writes is in the property.

**SalesCampaigns.** Once an internal pass has committed `calling`, none of this is left: its
locks are gone, two passes may be at one contact, and two of the properties are false
(`campaigns_released`). What remains is a bound on what may be written. A row, stored or
drafted, counts no more attempts than Vapi has taken calls for the contact (`RowInv`,
`DraftInv`). An answer writes one more than the pass had loaded, which may be less than
the row says by then; that it is not too much follows because a pass has loaded at most
the number of calls taken, and fewer once its own call was (`ReadInv`). Calls are numbered
without gaps (`NumberedInv`), so a call that is not in the table is a further one.

**BrowserRuns.** Runs share nothing that matters here, so the invariant is about one run:
what the user's yes is about wherever the thread is (`AnswerInv`), which statuses go
with which place of the thread and with the confirming mark (`ClickInv`), and what the
end it is about to write says (`CreditInv`). Once the mark is set nobody calls the run
off, and before the click the session looks whether somebody had.

**Invoicing and Commissions.** `MonthInv` and `CreationInv` say how far Stripe's invoice
is where a creation stands, `HandlingInv` that an event that was read with a row still
finds one; a month without a row has at most the charges its keys stand for, which is
why `KeysRunOut` keeps `ChargeInv`. `EntryInv` says that an entry is made once and
stays, `PlanInv` that what a webhook is about to reduce was there, `CoverInv` that what
a pending or paid payout was created for carries that payout's number. None of this
depends on what the sums are. `TransferredWasEarned` does: `AmountsInv` bounds each line
by what its kind can earn, what a webhook is about to leave of a line included, and the
reversals by both kinds together; `PaidOutInv` bounds a payout by what the lines it was
created for can have earned. Payouts that are pending or paid share no line
(`LinesTransferredOnce`), so their sums add up. That a sum over a finite set is one, is
monotone, and adds over disjoint sets is proved in the same module. The library's sum is
a recursive function behind a CHOOSE, and each lemma takes a smallest set for which it
fails and finds a smaller one.

**Subscriptions.** `StoreInv` says that every message and every handler at work is about
something Stripe has. `RightsInv` adds that what they carry is what Stripe says or is older
(`Answer`), and that the newest of it is pending or was handled (`HandledInv`). When nothing
is pending, the newest answer of the row's subscription was handled, and the row says the
same unless an older one came after it (`RowInv`); a live subscription whose newest answer
was handled has the row, or another has taken it over.

**Bookings.** Whoever is past the free times holds the lock (`LockInv`), and the time it
found free still is (`FreeInv`): only the holder confirms anything, but for a move that
was refused, which is what the property excepts. `MirrorIsFaithful` needs the moments in
between: as long as nothing was lost, stale or refused by the calendar, the event of a
booking is the row's, or some request has told the calendar something that it is about to
write (`EventInv`); what it was told is what will be written (`ToldInv`); and whether a
booking has an event is still as a request read it when it began, since only the request
that makes the booking sets it, while its time is as read for whoever holds the settings
(`ReadInv`).

**Provisioning.** Past its two locks a run is alone (`LockInv`). As long as no mark was lost
or overlooked, what was bought is marked: in the job, or in the state of the run
that bought and will commit it (`MarkInv`). Who is about to buy has found no
mark and has written its own, so there was nothing bought. A code that was heard was called to
the number that is in the setup as long as it counts (`CodeInv`).

**SocialPosts.** A thread that has marked a post publishes it later, whatever the row says by
then. `PostedInv` therefore counts what may still become a post: for each row, the posts
that are out, the row if it is scheduled, and the threads bound to post it are together
no more than was asked for. `DayInv` counts rows in the same way: those the day has, the one
that whoever holds the planner's lock may add, and one for each plan that has lost it, are
at most one more than the replans and the locks that were lost;
and a row leaves the slot of the day, or is skipped, only after the slot has come.

### Only model-checked

- Liveness (`EventsSettle`, `ReservationsSettle`, `CampaignEnds`, `RunsSettle`,
  `NumberIsUsed`, `PostsSettle`): fairness and ENABLED are out of this prover's reach.
- `BilledPerAttempt`, `OneInFlight` and `ListHeeded` under `SalesSpec`. The theorems state
  them for campaigns of the customers; the run checks them with one of Dialogbot's own
  as well. With a second campaign they are false, so a theorem needs the hypothesis that
  there is one, and an invariant of its own.

## Where code and words disagree

Two runs find a documented property violated.

| Run | Words | What the code does |
|---|---|---|
| `campaigns_released` | `campaigns/service.py:343`, "at most one call in flight per campaign" | the dial of an internal campaign commits in the middle of the pass (`sales/outbound.py:418`, `435`, `444`) and releases the locks on the campaigns the pass has yet to visit; a second worker dials, and the first one, which does not see what is not committed, dials as well |
| `bookings_move` | `bookings/service.py:120`, "serialises concurrent bookings for the workspace" | `move` checks a status that was read before it waited for the lock (`:157`, `:162`) and, when it refuses, writes that status back (`:171-178`): a booking that was cancelled and whose time is taken is confirmed again |

What follows was met while modelling. The models do the same as the code, and where
a property would be false for one of these reasons, it names the reason.

Private calls. A plan call that the user cancels still counts (`privat/subscriptions.py:110`
leaves out `no_answer` and `failed`, not `declined`; `calls.py:272` has "tæller ikke").
A call that a crash leaves in `approved` is not among the statuses the sweep looks for,
and its credits stay reserved (`calls.py:576`, against `:574`). Requests lock the task and
then the call, `handle_call_due` and `on_report` the call and then write the task
(`calls.py:163`): PostgreSQL ends one of two that wait for each other.

Campaigns. `campaigns/service.py:12` has "at most `max_attempts` times": a pass that is
rolled back after its POST (`:394`), or a POST without an answer, is not counted. A contact
that was called can be removed, and its billing rows go with it, because the guard looks
at `charged_at`, which new calls do not set (`router.py:236`). An entry on the
do-not-call list that was made by hand stays a manual one when the callee opts out later
(`service.py:466`), and may then be removed (`router.py:278`). A request to pause, or an
import, that meets a pass which completes the campaign writes over it (`router.py:191`). A
number that is being blocked may end as `skipped` after its contact has answered, the
answer's status lost (`router.py:266-269`). When the language model fails in a report, the
usage row's commit (`ai/service.py:231`) stores half of the report and releases the contact.

Dialogbot's own campaigns. When the process dies between the commit of `calling` and the
answer (`sales/outbound.py:425`), the sweep of stale calls lets the contact be dialled
again, although `:12` keeps one key per call to prevent this. A late report of an earlier
call can reopen a contact that is `unknown`, or one whose last permitted attempt is just
being dialled (`:436`), and it is dialled once more. Once the pass's locks are gone, the gate goes
by a status of the campaign that may be old.

Browser bookings. When the process dies after the click, the sweep ends the run as
`worker_lost`: the credit is released and the user reads that nothing was booked
(`browser_worker/runner.py:97`, against `browser/service.py:37`). `approve` names the task
and not the proposal (`browser/service.py:370`), so a yes that is sent twice without an
`Idempotency-Key` may be taken for an offer that a replay has put up in between, while
`:360` has "the yes covers exactly the before→after the user was shown". `start_run`
checks the balance without the lock on the profile (`:93`). Two sessions that wait for a
yes hold both browsers until the approvals run out (`orchestrator.py:172`).

Outbox. `worker/runner.py:8` has "up to max_attempts, then `failed`", but only `finish`
looks at `max_attempts`: an event that kills its worker is claimed again for ever, which
is why `RetryBudget` adds the reclaims. A sink that is disconnected while a delivery
runs is written as connected or failed afterwards (`integrations/events.py:48`).

Ambassadors and invoices. A second partial refund after the payout is ignored
(`ambassadors/service.py:415-418`). Two invoices that are paid at once can both earn the
one-off bonus of a referral. `release_held` writes over a reversal that commits between
its read and its flush (`:454`), and an entry that has just come into a payout is reduced
as if it had not. An invoice whose payment is reported before its row commits stays
unmatched, and a refund that is reported before the payment reverses nothing. Two months
that are made at once may both be discounted (`billing/stripe.py:353`). A draft that Stripe
finalizes by itself, before all its lines are there, stays as it is. `create_invoice` is
"idempotent per workspace+month" (`billing/stripe.py:170`) for as long as Stripe keeps a key,
which is a day: when the transaction is lost after the POSTs and the next one that gets
through is a day later, Stripe makes another invoice, and both are paid.

Subscriptions. An old snapshot that is delivered late gives rights again
(`privat/subscriptions.py:345-351`), the end of an older subscription may end a newer one
(`:296`), and two Checkouts at once each get the account's one trial (`:92`). The row belongs to
whichever live subscription was heard of last: when that one ends, an older one that is still
paid has no rights. The property names both cases, and speaks of the state when all
events have been handled.

Bookings. The event of a booking in the owner's calendar blocks a move to a time that
overlaps it. Bookings by staff, by the form and by the sales pages are not mirrored
(`connectors/calendar.py:6-8`). A move over a stale read tells the calendar a wrong time. An
event stays in the calendar when the transaction is lost after it. After a failure of the
calendar its busy times are not read until somebody tests the connection.

Telephony. A lease in `locked_until` is never committed before the work, so nobody sees
it. Requests lock the setup and then the job, the worker the other way round
(`platform.py:282`). `run_due_jobs` commits per job and thereby releases the rows it has
yet to work on. Changing the number after the job was started does not stop the
purchase. A broken connection clears `purchase_started` as a refusal does, a run that
dies takes the flushed mark with it (`:331`), and a run with an older copy of the job
does not see it or writes over it (`:330`, `setup_router.py:200-202`): if Twilio does
not list the number yet, a second one is bought, against "never re-buy" (`:314`). A late
report of an earlier test call passes a newer test, and a number that is changed during
a pause is activated without a new test.

Social posts. After TikTok has taken the post, an error while asking for its state
counts as one to try again (`publishers.py:255-256` and `79-80`, against `:11-15`),
which posts it twice. `publish_now` commits `scheduled` before it publishes, so a worker
may claim the row as well (`service.py:497`, against `:7-9`). `refresh_stale_drafts`
releases all its locks with its first commit (`:307`), those of other days and platforms
too. "One planner per day at a time (until the commit below)" (`:107`) ends earlier when
the language model fails: the usage row's commit (`ai/service.py:231`) releases the
planner's lock, and a second plan may begin. A cancel or a rebuild that read the row
earlier writes over `publishing` and `published`. With two workers a draft may be
reminded of twice.

## What is not modelled

Within the modelled components:

- `Outbox`: the order of claims; the handlers other than mail. `privat.call_due` is in
  `PrivateCalls`, with its redelivery; the `browser.*` events are in `BrowserRuns`;
  `webhook.deliver`, push and calendar events are not modelled.
- `PrivateCalls`: month ends and plan changes, saved appointments, messages and
  notifications, wording of the script, and browser bookings, which take credits
  without the lock that `approve` holds.
- `Campaigns`: the content of a campaign and its updates, minute prices and connected
  seconds, rows of older versions, leads and tasks made from a call, and the limit of 20
  calls per pass.
- `SalesCampaigns`: the policy's grounds other than the lists and the attempts (one set of
  allowed numbers), test calls, scripts, search jobs, meetings, recordings.
- `BrowserRuns`: the balance check of `start_run`, the limit on browsers at once (a
  thread may wait for any time), which proposal the user's screen shows, texts and
  messages, evidence files, and what happens on the pages.
- `Invoicing` and `Commissions`: cards and customers at Stripe, the statement's amounts and
  discounts, agreements; applications, papers, terms, clicks, statements and CSV files of
  ambassadors.
- `Subscriptions`: plans, intervals, discounts, Stripe's own pages, the add-ons that a new
  right switches on; the quota, which `PrivateCalls` has.
- `Bookings`: settings and booking types, the iCal feeds, leads, tasks and webhooks of a
  booking. The owner's own appointments are a refusal that may come at any time.
- `Provisioning`: test calls, activation, routing, a number that is mapped by hand, the
  agreement, the code's expiry and attempts, a platform that is not configured.
- `SocialPosts`: captions and images, posts beyond the plan, reminders, pruning, insights,
  prospects and topics.
- Calling hours, the language models' answers, the busy state of a number: left
  open, so that either answer is possible each time.

Not modelled at all: knowledge, leads, reports, assistant, funnel, operator pages and
household apps (single-transaction commands and read models, where a unit test reaches
what can go wrong), inbound calls (stored in one transaction per report, under a unique
id), workspaces and identity, AI and speech services (their answers are inputs), page
automation inside the browser worker (it is about pages, not about state), and the web
frontend (a client whose retries appear as repeated requests).

The mapped definitions stand for about 6 % of the lines of the repository. The rest is,
in order of size, data classes and forms, prompts and mail texts, read models, CRUD
without a concurrent writer, and the frontend: lines whose behaviour is in one
transaction of one actor. The runs are kept to the processes that share rows.

## Plan

Done: `Outbox` with its abstract promise; `PrivateCalls`, `Campaigns`, `SalesCampaigns`,
`BrowserRuns`, `Invoicing` and `Commissions`, `Subscriptions`, `Bookings`, `Provisioning`,
`SocialPosts`; proofs about all of them, of every invariant the runs check, but for three
under `SalesSpec` ([Only model-checked](#only-model-checked)).

Next, in this order:

1. Proofs of `OneInFlight`, `BilledPerAttempt` and `ListHeeded` under `SalesSpec`, where no
   pass has another campaign to go on to after its commit.
2. `BrowserRuns` and `PrivateCalls` over one balance, for the booking that is started
   without the lock; what the user's screen shows when the yes is given.
3. The rest of telephony: test calls, activation and routing around `Provisioning`.
4. `WebhookSinks`: the fan-out of domain events over `Outbox`'s loop, and a sink that is
   disconnected while a delivery runs.
5. The idempotency guard: two requests with one key, and the handlers that commit early.
6. The money functions of `billing/money.py` as operators, checked against their
   definitions over bounded inputs, with lemmas about their bounds.
7. Inbound calls: the same report delivered twice, and the leads made of it.
