# PrintShopCRM: a verification project

PrintShopCRM runs a print shop's quotes, orders, invoices and online payments:
one Node process, one synchronous SQLite database per shop, a browser
application over a JSON API. This directory holds TLA+ modules that model what
it does around a wait: collecting and returning money, passing it on to
QuickBooks, billing the shop's own hosting, writing to customers and to other
systems, the checkpoints of large imports, the way of a job across the floor and
the assistant that employees talk to in Slack. With them are TLC configurations
that check the modules on small instances, and proofs that TLAPS checks.

How to run, inside this directory:

    tlc -config payments_tabs.cfg MCPayments     # likewise the other payments_*.cfg
    tlc -config qbo_pushes.cfg MCQbo             # likewise the other qbo_*.cfg
    tlc -config reversals.cfg ReversalPromises
    tlc -config hosting.cfg MCHosting
    tlc -config shop.cfg MCShop
    tlc -config imports.cfg ImportPromises
    tlapm PaymentCollectionsProofs.tla           # likewise the other *Proofs.tla

## 1. The system

A handler runs in one JavaScript event loop over a synchronous database. It is
therefore atomic between two `await`s, and anything may happen at an `await`:
other handlers, a timer, the death of the process. Nearly every hard behaviour
of the system comes from handlers that read the database, wait for a provider,
and write.

| Component | State it keeps | Operations | What makes it correct |
|---|---|---|---|
| Payment collections (`lib/payment-collections.mjs`, `server.mjs`) | `payment_attempts`, `payment_collections`, receipts, versions | reserve, claim, resume, recheck, expire, receive evidence, reconcile, hold, clear a review | one open checkout per order, one provider session per reference, money booked once, nothing closed while its fate is unknown |
| Invoice ledger (`server.mjs`, `lib/db.mjs`, `lib/invoice-credits.mjs`) | `invoices`, `payments`, `invoice_credits` | convert, edit, void, credit, record and delete payments | `amount_paid` is the sum of the payments; overpayment is never silent |
| Payment reversals (`lib/payment-reversals.mjs`) | `payment_reversals` | refund, void, failed refund, per-transaction chain | the ledger follows the provider's last word, in any order of notices |
| Hosting checkouts, deletion, subscription events (`lib/hosting-*.mjs`, `lib/platform-subscription-events.mjs`) | intents, leases, tombstones, tenant billing columns | start, resume, expire, consume events, delete | one subscription per shop, no event overwrites a newer binding, no deletion under a billing operation |
| QuickBooks queue (`server.mjs`, `lib/quickbooks.mjs`) | `qbo_sync`, `qbo_id` columns | enqueue, claim, push, retry, reclaim | each payment reaches the books once, and eventually |
| Automations, outbox, webhooks (`lib/automations.mjs`, `server.mjs`) | pending steps, runs, `email_log`, `webhook_deliveries` | match, run, wait, send, retry, park | a customer is not written to twice, nor after the reason has gone |
| Import checkpoints (`lib/import-checkpoints.mjs`) | leases and a worker per database | lease, checkpoint, close, restore | the checkpoint threshold always comes back; no close under a lease |
| Estimates and approvals, API retries (`lib/estimate-approvals.mjs`, `lib/api-retries.mjs`) | revision, approval history, receipts of creates | revise, approve, invalidate, replay | an approval is of the content that was seen; a key creates once |
| Production and art (`lib/production.mjs`, `lib/art-production.mjs`, `server.mjs`) | `jobs`, `art_versions`, `art_releases`, `production_tasks`, two revisions | upload, send, decide, delete, release, revoke, edit, complete, skip, reopen, move | nothing is printed from an old proof, old files or for an old order, nor on the strength of an old page |
| Slack operator (`lib/slack-operator.mjs`) | requests, a pending plan per conversation, locks | plan, confirm, cancel, carry out | a request and a plan are carried out once, by somebody who still may |
| Purchasing, stores, shipping | purchase orders, store orders, shipments | submission claims, closing | no second chargeable order |
| Pricing, reports, documents, AI, portal, browser | none of their own | computation and rendering | out of scope: arithmetic, text and I/O |

Interactions that matter to the money: the pay page and the storefront reserve
through `startCheckout`; webhooks, return pages and managers' checks all end in
`reconcileCheckout`; it writes the invoice ledger, whose triggers in turn mark
open checkouts as changed; a booked payment starts announcements, the
QuickBooks queue and automations, which never write back to a collection.

The hazards are listed with their lines in `PROJECT.json`.

## 2. Modules

| Part | Model | Properties | For TLC | Proofs |
|---|---|---|---|---|
| Payment collections, invoice ledger, providers | `PaymentCollections` | `PaymentPromises`, abstract specification `OrderMoney` | `MCPayments` | `PaymentCollectionsProofs` |
| Payment reversals | `PaymentReversals` | `ReversalPromises` | | `PaymentReversalsProofs` |
| QuickBooks queue | `QboSync` | `QboPromises` | `MCQbo` | `QboSyncProofs` |
| Hosting checkouts, deletion, subscription events | `Hosting` | `HostingPromises` | `MCHosting` | `HostingProofs` |
| Automations, outbox, webhooks | `Automations`, `Outbox`, `Webhooks` | `ShopPromises`, which composes these and the next two | `MCShop` | `ShopProofs` |
| Production and art | `Production`, on the state in `JobState` | `JobState` | `MCShop` | `FloorProofs` |
| Slack operator | `SlackOperator`, on the state in `ConversationState` | `ConversationState` | `MCShop` | `FloorProofs` |
| Import checkpoints | `ImportCheckpoints` | `ImportPromises` | | `ImportCheckpointsProofs` |

`Sums` holds the lemmas about sums over finite sets that the proofs of the
payments, the reversals and the queue share; `FloorProofs` holds those of the two
parts that people on the floor and in the chat work with.

Definitions marked "Broken variant" are plausible mistakes; a property is worth
its place because replacing the definition that follows by its broken variant
makes TLC find it violated (`mutants` in `PROJECT.json`).

### Payment collections

`PaymentCollections` is the model: the online collection of one order's money.

| Variable | In the code |
|---|---|
| `estimate` | the quote behind the order: its total, whether it was revised |
| `invoices` | rows of `invoices`: `base - credit` is `amount_due`, `paid` is `amount_paid`, `manual` what of it was recorded by hand, `review` whether `payment_review` is set |
| `attempts` | rows of `payment_attempts` |
| `collections` | rows of `payment_collections`: claim, wait (`claim_until` or `next_retry_at`), account, `submitted_at`, whether the saved snapshot still matches (`fresh`), `closed_at` |
| `receipts`, `posted` | rows of `payment_collection_receipts`, and of `payments` with a provider's id |
| `settings` | the connected merchant account and the currency |
| `sessions` | what the provider knows of each create: external |
| `requests` | handlers in flight: `pc` names the `await` each one is at |

Each action is a whole stretch of a handler between two awaits. `PayInvoice`,
`PayEstimate` and `Manage` reserve or claim; `SubmitCreate`, `SubmitRetrieve`,
`SubmitExpire` send a call; `ProviderCreates`, `ProviderReads`,
`ProviderExpires` are the provider acting on it; `AcceptAnswer`,
`AnswerRefused`, `CallFails` are the return of the await; `ApplyPayment`,
`HoldReceipt`, `RepeatedEvidence`, `EvidenceRefused` are the outcomes of
`reconcileCheckout`. `Convert` to `ClearReview` are the shop's handlers on the
invoice, with the triggers they fire. `Crash` drops every request;
`CrashAfterReceipt` is the one crash between two writes that are not in one
transaction. `WaitEnds` and `ReplayWindowEnds` are the clocks.

`PaymentPromises` states the properties. `OrderMoney` is the abstract
specification: a checkout is reserved alone, charged at most once and only
while reserved, then either expired uncharged or booked once.
`MCPayments` instantiates the model for TLC. `PaymentCollectionsProofs` holds
the theorems. It abstracts:

* One order: an estimate and the invoices converted from it, one after another.
* A snapshot compares equal exactly until a version trigger fires, because the
  versions only grow: `fresh` stands for it. The currency, which a snapshot
  also holds, is compared apart.
* The display states of a collection (`creating`, `open`, `verifying`,
  `review`) are one: the code decides by `closed_at`. The optimistic
  `revision` is left out: a stale view is refused without a write, and a
  matching one adds nothing to the claim.
* A claim's random token is the identity of the request that holds it; a
  handler that outlived its lease and claims again is another request.
* A webhook or return page claims and writes nothing before the provider
  answers, so it is taken up with that answer.
* Times are order only: a lease or back-off ends at any moment; the replay
  window ends only while no create is on its way (an hour separates the code's
  window from the provider's, a call lasts seconds).
* A session can be paid as soon as it exists, earlier than the customer gets
  its address.
* An expire of a checkout whose session was never saved passes no session to
  the client, which throws: that is `CallFails`.
* Rows recorded by hand are kept as their sum. The two-minute duplicate
  question, due dates, announcements, activity, `email_log` marks and the cent
  of tolerance in `syncInvoiceStatus` are left out.
* Left out: test mode (`is_test`), Stripe Connect's destination, attempts older
  than the collections table, evidence that names no known reference; refunds
  have the next module.

### Payment reversals

`PaymentReversals` models the refunds of one paid checkout at Stripe or
Authorize.net, beside the notice of the payment itself.

| Variable | In the code |
|---|---|
| `booked`, `closed` | the `payments` row of the checkout, `closed_at` of its collection |
| `rows`, `returned` | `payment_reversals`, and the sum of the `payments` rows `reversal:...` of each refund |
| `review`, `notified` | `payment_review` and `paid_notified_at` of the invoice |
| `handlers` | `reconcileReversalInner` in flight, and what the provider answered it |
| `refunds`, `owed` | external: the provider's refunds, and the notices it will send again |

`ReversalNotice` is `reconcileReversal`: a handler joins the chain of its refund.
`RefundRead` is the provider's answer. `Reverse` is the transaction after the
last await, with the booking of an original payment not yet heard of, the
difference to what was applied before, the review and the announcement; where
the refunds would exceed the payment it refuses, and the notice is answered 503
and returns. `PaymentEvidence` is the payment's own notice, `ClearReview` the
manager, `Crash` drops every handler. It abstracts:

* One checkout and its invoice. A void is a refund settled at once.
* Refusals of another currency, account or mode, and the mapping of payments
  older than attempts, are left out: they end without a write.

### QuickBooks queue

`QboSync` models the queue for several shops of one process.

| Variable | In the code |
|---|---|
| `settings` | `qbo_realm_id`, `qbo_last_realm_id`, and the company whose tokens are saved |
| `customers`, `invoices`, `payments` | `contacts`, `invoices`, `payments`: an id is the company that issued it, `held` says that a credit or a reversal keeps the invoice from being pushed |
| `queue` | rows of `qbo_sync` in the order of their ids; `due` stands for `next_attempt_at`, and for `updated_at` on a claimed row |
| `bills`, `receipts`, `cancelled` | what QuickBooks holds: external |
| `push` | entries of `qboInFlight`: what `syncInvoiceToQboInner` holds across its awaits, the call it is at, the handlers awaiting it |
| `job` | what each awaiting handler needs when it goes on: the sweep, a sync or a retry button |
| `tick` | the pass of `processQboQueue`: the rows it read and has still to take |
| `callback` | the OAuth callback between `exchangeCode` and its writes |

`Request` is `syncInvoiceToQbo`: join, start, or be answered without a call.
`CustomerAnswered`, `InvoiceAnswered`, `PaymentAnswered`, `VoidAnswered` are the
returns of the push's awaits with the writes that follow; `Unauthorized` and
`Refreshed` the one replay of `withRefresh`; `CallFails` and `AnswerLost` a
refusal, a timeout, or a call that was taken and not answered. `Settle` is the
end of a push: the handlers awaiting one promise run one after the other before
anything else, so they write in one step (`Written`). The shop, the connection,
the buttons and the sweep have an action per handler.

It abstracts:

* Amounts, lines and sync tokens: what is asked is whether QuickBooks holds a
  document, and under whose id. A call made with another company's tokens,
  customer or invoice id is refused.
* An invoice has one customer per shop. The customer is found by name, so its
  two calls are one.
* `qbo_autosync` is on; five rows per pass is no limit on two rows; a pass may
  visit the shops in any order; invoices are not deleted, ids not used again.
* One OAuth callback per shop at a time, as the single `qbo_oauth_state` allows.
* A call that QuickBooks takes after its timeout is one whose answer was lost.
* `MaxAttempts` is small (the code parks at 6); only reaching it matters.

### Hosting

`Hosting` models one shop and the Stripe account it pays for its hosting. Three
files write the same row, the shop's binding to a subscription, and each reads
Stripe first; they are one module because what could go wrong is between them.

| Variable | In the code |
|---|---|
| `tenant` | the shop's row: `stripe_subscription_id`, `stripe_customer_id`, `subscription_status`; `hosting_revision` is `fresh` in a handler, true until the row changes |
| `intents`, `leases` | `hosting_checkout_intents`, and the `lease_token` of a row whose lease runs |
| `operation` | the live row of `hosting_billing_operations` |
| `removal` | `hosting_tenant_deletions` |
| `anomalies`, `receipts` | `hosting_checkout_anomalies`, `hosting_billing_verifications` |
| `handlers` | handlers in flight: the await each is at, what it read, what it was told |
| `sessions`, `forgotten` | external: checkouts and then subscriptions at Stripe; keys it has forgotten |

`StartCheckout`, `ActOnCheckout`, `CheckoutEvent`, `LegacyEvent`,
`SubscriptionEvent`, `ResolveAnomaly` and the removals begin a handler; an action
`...Answered` is what follows one await up to the next. `CallFails` is a refusal
or a lost answer, `StripeCreates` a create taken with or without the key being
recognised. `Crash`, `OperationLapses`, `LeaseLapses` and `RemovalLapses` are the
death of the process and the clocks. It abstracts:

* A read answers any state the session has had since the call went out.
* The account check is merged with the call after it. A lease of an operation
  lapses before the row's, which was taken later and lasts as long.
* A removal that failed or lapsed is none. The clean-up of files is left out.
* Back-off, limits on history and concurrency, and identity checks of what
  Stripe returns only refuse. Intents the registry does not know
  (`lib/hosting-checkouts.mjs:342-362`) and `reconcileVerification`
  (`430-467`) are not modelled.

### Automations, outbox, webhooks

A step of a rule puts a row in the outbox and never looks at it again, and an
event does so for the deliveries; the three parts are separate machines.
`ShopPromises` follows one of them, or a job, or a conversation, in each
behaviour (it extends `Outbox`, `JobState` and `ConversationState` and takes the
actions of the other modules by `INSTANCE`; the two state modules hold what is
kept of a job and of a conversation, with its properties): a rule that moves a job (`lib/automations.mjs:270-290`) and the
operator that completes a task call the operations that `Production` offers
everybody, so a job sees no step of theirs that it does not have, and what a
conversation sees of a job is that its revision has moved.

| Variable | In the code |
|---|---|
| `log`, `pending` | `automation_runs` of a record, `automation_pending` |
| `rule`, `there`, `review` | the rule is on, off or gone; the invoice exists, is under review |
| `queued`, `repeats` | messages each step put in the outbox; what has made the engine do steps again |
| `claim`, `delivered`, `stale` | `sending_at` (five minutes), `delivered`, `payment_stale` |
| `sends`, `taken`, `unknown` | sends in flight; external: what the relay took, and took without the shop being told |
| `outlived` | claims that ran out while the message was being sent |
| `status`, `attempts`, `due`, `active` | the row of `webhook_deliveries`, and its subscription |
| `tries` | attempts in flight, by the number each will write |

`Automations` is one timed rule: `Fire` and `Resume` are what a tick does with
one row, and since every statement commits by itself the process may die after
any of them. Conditions, rules started by events, the send budget and the review
of recipients are left out. `Outbox` is one message, its automatic send and the
people who press Send. A claim ages by the clock alone, under a send too: the
comment at `server.mjs:8436` has five minutes clear of a send, but the time-outs
are of one step or of a silence (`lib/notify.mjs:317-322`, `364-366`) and the
transport queues a tick's messages behind three connections. A claim has no
token, so an answer clears whichever claim it finds and overwrites `delivered`. `Webhooks` is one delivery.

### Production and art

`Production` models one job. Its operations are synchronous transactions; what
is hard is their order, over weeks and by many people: a proof is replaced
while a customer decides, an order changes after its files were released, a
job is closed and decided on later.

| Variable | In the code |
|---|---|
| `stage`, `jobStatus` | `jobs.stage`, `jobs.status`; the board shows active jobs only |
| `enrolled`, `tasks` | `production_jobs` has the job; `production_tasks` in their order |
| `proof`, `mockup` | `art_versions`: status, and `purpose = 'appearance_mockup'` |
| `approved`, `required` | `art_approved_at`, `art_release_required` |
| `release` | the unrevoked row of `art_releases`, with what it was made for |
| `spec` | garment, decoration and quantities, the quote's where the job has none of its own |
| `page` | whether a page somebody keeps open has the current `production_jobs.revision` (`flow`) and `jobs.art_revision` (`art`) |

There is an action per route. `Move` is every writer of a stage that is guarded
by `guardWorkflowStage`: the board, a scan, the API, the assistant and rules.
It abstracts:

* A revision is compared with the page it came from: only whether it has moved
  matters. Somebody who has just read the job can do anything, so the actions
  ask for no page; `page` is one that was opened earlier.
* The files of a release and the rest of its snapshot: adding a file revokes it.
* `qc` and `shipping` have the guards of `production`. Every job needs approval
  (`approval_gated`); the payment review's hold (`lib/production.mjs:219-225`) and
  the gate of received garments (`236-255`) are left out: they refuse more.
* Due dates, turnaround, ship dates, assignment, notes; proofs of an estimate
  without a job; the repetition of a saved mockup, which writes nothing.

### Slack operator

`SlackOperator` models one employee's conversation.

| Variable | In the code |
|---|---|
| `mode`, `member` | `slack_operator_config.mode`; the role that `identity()` finds, or none |
| `request` | `slack_operator_requests.status` |
| `plan`, `saved`, `fresh` | the plan a request was answered with; which is `pending` of the thread; that it has not expired |
| `outdated` | plans with an older `revision` than their job |
| `turn` | where the handler of a request is: it waits for the planner, for a quote, or has carried out its plan and not yet saved |
| `writes`, `carried`, `lost` | what was done, counted for the properties |

`Deliver` takes a request under the lock; `Cancel`, `Mismatch`, `Confirm`,
`Prepare` and `Execute` are what may follow the planner; `Quoted` is the write of
a quote, `Save` and `Fails` the answers; `Expire`, `JobChanges`, `Configure` and
`Crash` happen meanwhile. It abstracts:

* All plans are for one job. `assign` has the guards of `schedule`.
* A confirmation code fits the pending plan or does not.
* The duplicate filter in memory (`server.mjs:520-522`) is left out: it only
  drops what the database drops too. Posting the answer, and the rename of a
  slash command's thread after it (`server.mjs:599`), are left out.

### Import checkpoints

`ImportCheckpoints` models `lib/import-checkpoints.mjs` with its worker threads
as the environment.

| Variable | In the code |
|---|---|
| `auto` | whether the connection's `wal_autocheckpoint` is set |
| `record` | the manager's state of a database: leases, timers, what is saved, what the pump does |
| `import` | what each import waits for |
| `shutdown`, `deleted` | how far `shutdown()` has come; the shop was removed |
| `threads` | external: worker threads that have the database open |

An action is a call, a message of the worker or a timer, with all that the
promises it resolves set going: `Lease`, `Commit` and `End` of an import,
`WorkerReady`, `PassDone`, `WorkerFails`, `TimesOut`, `CloseTimesOut`,
`WorkerExits`, `Delete` and `Shutdown`. `Replaced` is an import that found a
forgotten record. Several tries of one handler to set the threshold back are
one. An import that starts without a worker stands for all its reasons: an old
SQLite, checkpoints switched off, no write-ahead log, no place left.

## 3. Runs

A run checks what could be wrong without being obvious. The type invariants of
the modules other than `PaymentCollections` (`TypeOK` in each) held in the
instances below when they were added to them by hand.

### Payment collections (`MCPayments`)

Deadlock is not checked: references are bounded, so the
system may run out of things to do. `Attempts` bounds how many references are
drawn, `Requests` the handlers in flight, `MaxInvoices` how often the quote is
invoiced, `Totals`, `CreditAmounts` and `ManualAmounts` the money. Attempts and
requests are interchangeable in the safety runs (symmetry); the liveness run
uses none.

| Run | Instance | Shows |
|---|---|---|
| `tabs` | Stripe, 2 references, 2 handlers | `OneReservation`, `ClosedIsCertain`, `ClosedStays`: two handlers are enough for a lost claim to meet a late answer, two references for competing checkouts |
| `reconnect` | Stripe, 1 reference, 2 handlers, 2 accounts | `OneSession`, and `KeepsPromise`: the collection implements `OrderMoney`. Every session has one of two slots per account, so a second create would show |
| `authorize` | Authorize.net, 2 references, 1 handler, 2 currencies | `OneSession`, `BooksBalance`, `HeldEvidence`: forms captured twice, creates without a key, evidence that cannot be applied |
| `edits` | Stripe, 2 references, 2 invoices, credits, manual payments | `TypeOK`, `OverpaymentKnown` |
| `live` | Stripe, 1 reference, 2 invoices, deposits, late-settling methods | `ChargeIsBooked` under `LiveSpec` |
| `manual` | Stripe, 1 reference | expected violation of `ManualPaymentHolds` |

The `edits` run has one currency. With two, evidence delivered again after a
change of currency moves a receipt back to review although its money is booked;
once the currency returns the same evidence settles it without the earlier mark
(section 4 says where the proof needs that).
`HeldEvidence` leaves out a second capture of a settled form: if the process
dies between its receipt and its transaction, the receipt alone remembers it
until the next delivery.

**Fairness** (`live`). A handler whose call is out is answered or fails: the
clients bound each call by a timeout. Stripe delivers an event again until it
is acknowledged, and a failed webhook is answered 503 (`server.mjs:714`):
strong fairness of `Deliver` and `Settle`. Nothing is assumed of customers,
staff, managers, crashes or clocks.

**Finding** (`manual`). The trigger that puts an invoice under review when money
moves during a checkout looks for checkouts of the invoice
(`lib/payment-collection-schema.mjs:41`), not for the one its estimate still has
open. `docs/PAYMENTS.md:48` says the two share one reservation and that manual
payments while a checkout is open pause collection. When the open checkout is
paid later, its money is still booked in full and reviewed if it exceeds the
balance (`OverpaymentKnown`).

Other observations, not stated as properties: a checkout paid by a method that
fails later stays unresolved until a manager acts; a storefront checkout whose
quote was revised holds its payment for ever; an abandoned Authorize.net form
has no expiry and stays reserved by design.

### QuickBooks queue (`MCQbo`)

Deadlock is not checked: rows and payments are bounded, so nothing may be left
to do. `MaxRows` bounds the rows of the queue, `Payments` what can be recorded,
`MaxCrashes` the restarts, `Clicks` and `Events` what people and the provider do
in a run. Shops, payments, companies and managers are interchangeable except in
`qbo_drains`.

| Run | Instance | Shows |
|---|---|---|
| `qbo_pushes` | 2 shops with one number, 1 payment, sweep and 1 manager, 2 attempts | `OnePush`, `OneDocument`, `OkIsOwn`: two callers are the least that race, two shops the least that share a key |
| `qbo_drains` | 1 shop, 1 payment, 1 row, 2 companies, 1 crash, lost answers, changes of company, voids, credits, dismissals, 2 attempts | `QueueDrains` under `LiveSpec` |

`qbo_pushes` has one payment; a push that sends one of two and fails on the other
is covered for any number by the theorem `OneDocumentHolds`.

**Fairness** (`qbo_drains`). Every call returns, because `qboRequest` bounds it by
`TIMEOUT_MS`; with what answer is left open. The sweep is an interval timer that
visits every shop, never overlaps itself and finishes its passes; it finds a shop
connected only now and then, hence strong fairness of `TickStarts`. Clocks
advance. `QueueDrains` is checked without the sync, retry and requeue buttons: a
manager who presses one for ever revives a parked row for ever.

Observations, not stated as properties:

* A payment recorded while its invoice's row is being pushed enqueues nothing
  (`server.mjs:7797`), and the row is marked ok without it.
* Whether a shop ever configured QuickBooks is read from the setting that
  Disconnect blanks (`7785`), so money recorded meanwhile is not queued.
* A create whose answer is lost is created again (`7894`).
* Voiding an invoice enqueues by a saved id, which a first push in flight saves
  only later (`3942`).
* A push in flight across a change of company saves what the old company
  answers, also over the ids just cleared (`7899`).
* Deleting a payment that is being sent leaves it in QuickBooks (`4061`).
* A row that a manager dismisses or requeues while the sweep awaits its push is
  overwritten by the outcome.

### Payment reversals, hosting, the shop, imports

Deadlock is not checked in these runs: all of these systems may run out of things
to do.

| Run | Instance | Shows |
|---|---|---|
| `reversals` | 2 refunds of amounts 1 and 2, a payment of 2 on an invoice of 2, both gateways, 1 crash | `BooksFollowRefunds`, `PendingIsReviewed`, `NoEarlierAnswer`, `AnnouncedWhenPaid`, `RefundsSettle`: two refunds are the least that can exceed a payment together, and amounts 1 and 2 give partial ones, full ones and both |
| `hosting` | 2 handlers, 1 new and 1 older checkout, 2 creates | `OnePayable`, `RunningIsKnown`, `RemovedIsUnbilled`, `ActiveStaysBound`, `NoOlderAnswer`: two handlers are enough for one to outlive its lease while another acts, and a checkout has a second place at Stripe, so that a second create shows. Two new checkouts with one create and no older one were checked once by hand, as the `TypeOK` of `Hosting` |
| `shop` | a message: 1 invoice, a rule of 5 steps that waits at the second and the last, 3 pending rows, 2 presses, 1 crash; a message, 3 people, 4 presses, 2 crashes; a delivery likewise; a job: 2 proofs, 2 makes, 1 task and one more of two gates; a conversation: 3 requests, any number of crashes | `OncePerStep`, `SentOnce`, `ReviewedIsSilent`, `SequencesEnd`, `DeliveriesEnd`: two messages after a wait are the least of which the first can be repeated when the second fails, a crash falls before and after each, several people press Send against the automatic send, and a claim runs out under each of two sends. A wait in the middle of six steps with one press, and of five with two, were checked once by hand. `ArtIsCurrent`, `PagesShowArt`: two proofs are the least of which one is replaced, two tasks the least of which one leads to the other's stage, and the proofs lift the bounds. `RequestOnce`, `PlanOnce`: one request plans, one confirms, and a third cancels or confirms again |
| `imports` | 2 databases, 2 imports, 1 worker, 2 failures to set the threshold back | `DeletedIsFree`, `ThresholdOwned`, `BatchesCovered`, `NoCloseUnderLease`, `EveryImportEnds`, `ThresholdReturns`: two imports are the least that share a lease, two databases with one place the least that compete for a worker |

**Fairness.** `reversals`: a notice that is refused comes back (503, strong), the
provider answers some of the reads it is asked for (strong), and the payment's
own notice arrives. Nothing is assumed of refunds, managers or crashes.
`shop`: time passes, the tick runs every minute, and an attempt ends with
its time-out. `SequencesEnd` asks for the rule to be switched on again and
again, `DeliveriesEnd` for the subscription to stay active; nobody is assumed to
press anything, and nothing of a job or a conversation. `imports`: timers fire, a terminated thread ends, and an import
has a last batch. Nothing is assumed of a worker: it may never answer.
`hosting` checks safety only.

Observations, not stated as properties:

* Authorize.net tells of a refund when it is made and not when it fails later,
  so such a refund stays in the books, and later ones are refused for exceeding
  the payment, until a manager checks the first (`RefundsSettle` excludes it).
* An older checkout that another customer paid is ignored without a review.
* A run of mixed outcome stores no place to go on from
  (`lib/automations.mjs:436-437`), so its retry starts at the first step, where
  `server.mjs:5222-5223` says that it continues. A sequence that was resumed has
  logged a run of its own (`lib/automations.mjs:607`), so marking the first run
  for retry releases nothing.
* A process that dies between the insertion of a later wait and the deletion of
  the earlier one resumes the sequence twice (`repeats` counts it); one that
  dies in a tick writes the attempt without parking the row, so a row can be
  tried more than three times.
* `queueSms` does not claim its row, so pressing Send during the automatic send
  sends a text twice (`SentOnce` allows an SMS one more). An email goes twice
  with no answer lost when a send outlives its claim, where `server.mjs:8436-8437`
  has five minutes "well clear of a slow relay" (`outlived` counts it: without it
  in `SentOnce`, TLC finds a claim that ages under the automatic send and a press
  of Send). What holds is that one such claim costs one more email and no more,
  though the late answer clears the newer claim and may write "not delivered"
  over a delivery.
* The first attempt of a delivery and a Redeliver are not claimed, so the tick
  may start another beside them, and a late failure overwrites "delivered".
* A late approval of a finished job that has tasks leaves it in the Complete
  column with the status active (`server.mjs:5018`), where `lib/db.mjs:1590` says
  that a job is complete exactly when it is in that column.
* An employee who confirms a quote again after a process died between its draft
  and the save of the conversation gets it twice (`lost` counts it).
* A shop whose threshold could not be set back cannot be deleted until its next
  import or a restart.

## 4. Proofs

### Payment collections

`PaymentCollectionsProofs` proves, for every number of references, handlers,
accounts, invoices and amounts, from the named assumptions on the constants of
`PaymentCollections`:

* `TypeCorrect`: `Spec => []TypeOK`.
* `OneReservationHolds`: `Spec => []OneReservation`.
* `ClosedStaysHolds`: `Spec => ClosedStays`.
* `OneSessionHolds`: `Spec => []OneSession`.
* `ClosedIsCertainHolds`: `Spec => []ClosedIsCertain`.
* `HeldEvidenceHolds`: `Spec => []HeldEvidence`.
* `StripeKeepsPromise`: `Provider = "stripe" => (Spec => KeepsPromise)`, the
  refinement of `OrderMoney`. Authorize.net gives no such promise: a form can be
  captured twice, which `BooksBalance` and `HeldEvidence` are about.
* `OverpaymentKnownHolds`: `Spec /\ [][UNCHANGED settings.currency]_vars =>
  []OverpaymentKnown`.

None of them is inductive alone. The invariant is `IInv == Reservations /\ Certain`:

    Reservations == TypeOK /\ HandlersKnow /\ AttemptsPlaced /\ ClaimsReserved /\ OneReservation
    Certain == SessionsTraced /\ ProviderKind /\ RowsAgree /\ ReceiptsTrue /\ HeldEvidence
               /\ HandlersTrue /\ OneCreate

`Reservations` carries the reservation by itself. `HandlersKnow`: a handler in
flight knows its checkout and account, and once answered its session; without it
the types of the row it writes are unknown. `AttemptsPlaced`: a reserved checkout
belongs to the estimate or to an invoice that exists, so the search of
`RelatedPending` covers every checkout. `ClaimsReserved`: only a reserved
checkout is claimed, so accepting an answer never makes an unused row count as
reserved. The argument: every step but a reservation keeps the set of unresolved
checkouts from growing (`Kept`), and a reservation happens only when that set is
empty. `TypeStep` has a lemma per kind of handler, the smallest-number lemma (from
the well-foundedness of the naturals) is there for the newest invoice that
`invoiceForAttempt` chooses.

`Certain` says what the rows, the provider and the handlers know of each other:

* `SessionsTraced`: every session is the first create of its checkout, in the
  account the row is bound to. `CreateTrue` (in `HandlersTrue`) is what keeps it
  so while the create is out: the key the provider remembers is still fresh and
  the row is still bound to the handler's account. At Authorize.net, which has no
  key, `OneCreate` says that only one create of a checkout is out.
* `AnswerTrue` (in `HandlersTrue`): an answer is old when it arrives, but
  "expired" and "paid" are final, so what a handler closes a row with is still
  true then.
* `RowsAgree`: a row is closed exactly when its attempt is settled, then nobody
  holds it, and the provider and the books agree with how it was settled. A
  handler that lost its claim cannot reopen it, because `release` and `fail` write
  only under the holder's token, and the settlement clears the token.
* `ReceiptsTrue` and `HeldEvidence`: a receipt is of money that was taken, a
  payment only of a settled checkout, and evidence that was not applied pauses
  something.

Every step is shown to keep `Certain` and, with Stripe, to be one of five
(`Promised`): it leaves the money alone, reserves a checkout, closes one as
expired, takes the customer's money, or books it in the step that closes the
checkout. The last four are `OrderMoney`'s actions; `CountsSame` and `OneCharge`
turn the sets of transactions into its counters.

`OverpaymentKnownHolds` needs two invariants more: `OverReviewed` (an invoice that
holds too much has a receipt that was reviewed, or one marked for review and the
invoice is under review) and `CurrencySame` (every checkout is in the shop's
currency, so no mark is overwritten). Its condition on the currency is
needed. With two currencies TLC finds a trace of 17 steps: a payment overpays a
void invoice and its receipt is marked; the currency changes and the same
evidence, delivered again, is held as in the wrong currency, which overwrites
the mark; the currency changes back and the evidence, delivered a third time, is
a duplicate and is written as applied without a mark; the manager who clears the
review finds nothing to be marked as reviewed.

`BooksAlwaysBalance` (`Spec => []BooksBalance`) is about a sum over the transactions
posted on an invoice. Its invariant `Ledger` adds that only finitely many are
posted, and only on invoices that exist, so that a new invoice starts with an
empty sum. A step of the books posts one transaction that was on no invoice, and
`SumAdd` says what that does to the sum; every other step leaves the posted
transactions and the amounts of their checkouts alone, and `SumSame` says that the
sum stays. `ReceiptsTrue` is needed for the latter: a reservation writes the amount of
a new row only, and the row of a posted transaction is not new.

`Sums` proves what `MapThenSumSet` computes without an induction theorem, which
would take an operator as its parameter. Suppose that some subset of a finite set
has no function that sums its subsets as the fold does: `SmallestSet` gives one that
has no other inside it, from the well-foundedness of the naturals
(`LeastNumber`); without one of its members it has such a function, which one
more case extends. The same argument proves that the sum of a set is that of the
set without a member, whichever is chosen, and that member's.

### QuickBooks queue

`QboSyncProofs` proves, for every number of shops, invoices, payments, callers
and companies:

* `OnePushHolds`: `Spec => []OnePush`. It rests on `Shapes`, the types of what a
  push reads and writes. A request starts a push only if none of the invoice is
  in flight; the return of a call ends the push or goes on with the same invoice
  (`CallPush`).
* `OneDocumentHolds`: `Spec => []OneDocument` if no answer is lost and no company is
  connected anew (`"lost"` and `"connect"` not in `Events`). The invariant is

      Documents == BillKnown /\ IdCurrent /\ ReceiptKnown /\ TodoUnsent /\ TodoApart /\ SameCompany

  `BillKnown` and `ReceiptKnown` say that what QuickBooks holds has its id saved,
  unless the payment was deleted. That alone does not survive a step, because a
  push decides by what it read before its awaits: `IdCurrent` says that what it
  read still holds, which needs `OnePush`; `TodoUnsent` and `TodoApart` say that
  the payments it has still to send are unknown to QuickBooks and in no other
  push. The first condition is needed: a create whose answer is lost breaks
  `BillKnown`.
* `OkIsOwnHolds`: `Spec => OkIsOwn` if no company is connected anew. The invariant is

      Served == queue \in Seq(Row) /\ DOMAIN job = Callers
                /\ DueThere /\ JobsFit /\ OneLine /\ StagesTrue /\ SameCompany

  `JobsFit`: every caller that awaits a push has a job for that push's invoice,
  and its row, if it has one, is a row of it. `OneLine`: it awaits no other push,
  so when a push settles it takes nobody out of another's line. `StagesTrue`: a
  push that sends payments is of an invoice whose id is saved, and one that voids
  is of a void invoice. `Wrote(q, p, own)` says of two queues that rows are added,
  that none changes hands, and that only rows of the invoices in `own` became "ok";
  it composes (`WroteBoth`). `OutcomesOwn` takes it along the fold of `Settle`: among
  the callers in line a first one after whom it fails would have written a row of
  another invoice (`WrittenOwn`). The condition is needed: TLC finds a trace of 8
  steps in which a new company clears the saved id of an invoice while its push
  still sends a payment, which then succeeds and marks the row.

The assumptions on the constants are the bounds' types and that names differ: the
sweep is no manager, and `None` is no manager, company, shop, invoice or job.

### Payment reversals

`PaymentReversalsProofs` proves, for every number of refunds, notices and
crashes and for all amounts, `AnswersInOrder` (`Spec => NoEarlierAnswer`),
`PendingHeld` (`Spec => []PendingIsReviewed`) and `AnnouncedRightly`
(`Spec => AnnouncedWhenPaid`), from

    IInv == Shapes /\ OneAtATime /\ Ordered

`OneAtATime`: two handlers in flight are of different refunds, which is what the
chain is for. `Ordered`: none, pending, succeeded, failed is the order in which
a refund moves, and what is saved of it is no later than what a handler was
told, which is no later than what the provider has. A step of the provider moves
only the last of the three, an answer only the second, and because a refund has
one handler, writing the second over the first never goes back.

`BooksAlwaysFollow` (`Spec => []BooksFollowRefunds`) holds for every finite number of
refunds. Its invariant `Ledger` says of each refund that it took from the invoice
what its row says, of all of them that together they took no more than was
booked, and that nothing is taken before the payment is booked: a refund that
comes first books the payment too. `Reverse` compares the new amount with
what the others have applied; `SumOpposite` makes of that a comparison of what
they returned, and `SumAdd` and `SumSame` take the one refund out of the sum and put
it back changed.

### Automations and outbox

`ShopProofs` extends `ShopPromises`, so what it proves of a rule it proves of the
composition (`PartsSpec`). It assumes of the rule only that its waits are steps and
that `automation_pending` has finitely many ids.

* `OncePerStepHolds`: `PartsSpec => []OncePerStep`, for every number of records,
  steps, waits, waiting sequences, presses and crashes.
* `ReviewedIsSilentHolds`: `PartsSpec => ReviewedIsSilent`.

What was queued does not say what may still be: a step can be queued by a run of
the rule that may still fire and by every sequence that waits before it. The
invariant `RuleInv == RuleShapes /\ InBudget` counts all three:

    queued[e][i] + Chance(e, i) + Cardinality(Owed(pending, e, i)) <= 1 + repeats[e]

`Chance` is 1 while the rule could fire once more and reach the step: no line of
its log says "ran", and the step is not before the one the last error stopped at.
`Owed` are the sequences whose next step is not after it. A run hands its chance
on, to the error's line or to the wait it inserts; a resumption that throws hands
it on to its own progress; only a death in a tick (the wait is inserted, the old
row not deleted) and a retry of a run that did not fail make one more, and both
count in `repeats`. A fold over the log is avoided by `Onward`, the next step of
the last line that is or may be released, so that releasing an error changes
nothing.

`MessageSentOnce` (`Spec => []SentOnce` of `Outbox`) holds for every number of
people, presses and crashes, however long a send takes and in whatever order the
answers come. What was taken does not say what may still be; the invariant
`IInv == Shapes /\ Accounted` counts the places there are:

    taken + Cardinality(Asked) + MayOpen <= Claimless + unknown + outlived

`Asked` are the sends the relay has yet to take. `MayOpen` is 1 while Send is
accepted, or will be when a claim ages under no send. Send moves the one place
from `MayOpen` to `Asked`. An answer, whichever claim it clears and whatever it
writes over, opens at most one place, and it gives one back first: its own in
`Asked`, or the answer that was lost; a delivery opens none. Only a claim that
ages under a send opens a place for nothing, and `outlived` counts it.

### Production and art

`FloorProofs` proves, for every workflow and every number of proofs and
edits, `ArtHolds` (`Spec => []ArtIsCurrent`) and `PagesHold` (`Spec => []PagesShowArt`).
`ArtIsCurrent` is `ApprovedIsCurrent` and `ReleaseMatches`: what a release promises
includes the approval, so the second alone is not inductive. The invariant is

    IInv == Shapes /\ ApprovedIsCurrent /\ ReleaseMatches /\ PagesShowArt

with the shapes of proofs and pages. The argument:
whatever touches a proof or a file goes through `recordArtChange`, which leaves
no release and no page of an enrolled job behind, so only a release itself and
an approval have something to show.

### Slack operator

`FloorProofs` also proves `RequestsHold` (`Spec => []RequestOnce`) and
`PlansHold` (`Spec => []PlanOnce`) for every number of requests, crashes and
changes of mode, role and job, assuming only that `NoPlan` is no request. The
invariant is

    IInv == Shapes /\ OneTurn /\ Untouched /\ StillOpen /\ RequestOnce /\ PlanOnce

`OneTurn` is the lock. `Untouched`: a new request has done nothing, and a handler
that has not decided yet reads the plan that is still pending. `StillOpen`: a
pending plan of a job that was carried out is outdated, a pending quote was not
drafted unless a handler is about to save or has died. The step that needs all
of it is `Confirm`.

### Hosting

`HostingProofs` proves all that the run `hosting` checks, for every number of
handlers, of checkouts the shop starts and of older payments, with every lost
answer, crash and lapse: `NeverAskedTwice` (`Spec => []OnePayable`),
`RunningAlwaysKnown` (`[]RunningIsKnown`), `RemovedAlwaysUnbilled`
(`[]RemovedIsUnbilled`), `ActiveAlwaysBound` (`ActiveStaysBound`),
`NeverOlderAnswer` (`NoOlderAnswer`), and `TypeCorrect`. It assumes of the
constants only that requests, checkouts and older payments are different things.
The invariant is

    IInv == TypeOK /\ Books /\ HandlersFit /\ Verified

* `Books` is about the rows. The parts that carry the argument: a row that is
  closed has a session that nobody can pay (`ClosedSettled`), at most one row
  has one that can still be paid (`OneUnsettled`), no second create of a row
  was ever taken as a new one (`KeysHold`), and what the shop is bound to was
  paid (`BoundTrue`).
* `HandlersFit` is about every handler in flight: what it relies on whatever
  becomes of the shop (`Stays`), and what holds only while its snapshot of the
  shop is the current one (`Current`). An answer says how a session *was*; since
  "expired" and "ended" are final, those two are still true when it arrives
  (`AnswersHold`), and every write that follows rests on one of them or on
  `fresh`.
* `Verified`: a removal has seen the end of everything that its digest names
  and that it has not still to ask about. If the digest is the same at the end,
  nothing the records know of runs.

`RemovedIsUnbilled` needs all of it: the removal asks one subscription after
the other, and between the answers the shop's other handlers go on. Every
action is shown to keep the invariant together with `TenantStep`, which is what
the two action properties say.

### Import checkpoints

`ImportCheckpointsProofs` proves the safety that `imports` checks, for every
number of databases, imports and worker places: `DeletedAlwaysFree`
(`Spec => []DeletedIsFree`), `ThresholdAlwaysOwned` (`[]ThresholdOwned`),
`BatchesAlwaysCovered` (`BatchesCovered`), `NeverClosedUnderLease`
(`NoCloseUnderLease`), and `TypeCorrect`. It assumes that there are finitely many
databases and imports, which a cardinality needs, and that a record is not
`None`. The invariant is

    IInv == TypeOK /\ Placed /\ LeasesCounted /\ OneThread
            /\ RecordsSound /\ AutoOwned /\ PassPending /\ DeletedUnknown

`LeasesCounted`: the number kept in a record is the number of imports that hold
a lease, so zero means that none does; a lease counted twice or dropped twice
would close the worker under another import. `OneThread`: a thread runs exactly
where a record says so; together with `DeletedUnknown` (a deleted shop never has
a record again) that is `DeletedIsFree`. `AutoOwned`: the connection checkpoints by
itself exactly unless a record says that it was switched off; an import that
waits for a pass has a worker that owes it (`PassPending`), and the failure of
the worker sets the threshold back in the step that lets the import go on.

### Only model-checked

* Liveness: `ChargeIsBooked`, `QueueDrains`, `RefundsSettle`, `SequencesEnd`,
  `DeliveriesEnd`, `EveryImportEnds`, `ThresholdReturns`. The prover has no
  rules for fairness.
* Of the queue: that it is never longer than `MaxRows`, which is a bound of the
  model and not a promise of the code. `OneDocument` and `OkIsOwn` are neither checked
  nor proved where a shop connects another company, because they do not hold
  there: a push that is on its way when the saved ids are cleared sends the
  invoice's payments again.

## 5. Not modelled

The parts below keep no state across an `await` in a way the modules above do
not already show, or have no state of the server's own:

* API retries, merch stores, pipeline, the history of approvals: one synchronous handler compares a revision or a key and writes.
  The event loop makes it atomic, and a model would restate its guard.
* Shipping, tenants and sessions: synchronous bookkeeping around single
  calls.
* Purchase orders: every supplier's builder leaves `submission_ready` false
  (`lib/suppliers.mjs:691`) and the route stops there (`server.mjs:6484`), so
  the claim before a chargeable call is never taken in this version.
* Prices, costs and reports: floating-point arithmetic, of which TLC has none.
* Documents, importers' parsing, the language model's tools, the portal and the
  browser: text and I/O.
* `bin/gate.mjs` and `bin/gate-e2e.mjs`: the repository's own tests.

Inside the modelled parts the notes in `PROJECT.json` name what is left out.
Hazards that no property covers are listed there with the reason.
