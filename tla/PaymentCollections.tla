------------------------- MODULE PaymentCollections -------------------------
(***************************************************************************)
(* Online collection of one order's money: the reservation that lets one   *)
(* checkout at a time be payable (lib/payment-collections.mjs), the        *)
(* provider calls it makes, the verified evidence that comes back through  *)
(* webhooks and return pages (server.mjs, reconcileCheckout), and the      *)
(* shop's own edits of the invoice meanwhile.                              *)
(*                                                                         *)
(* The server is one event loop over a synchronous database, so a handler  *)
(* is atomic between two awaits: each await on the provider is a program   *)
(* counter of a request here, and everything else may run in between.  A   *)
(* crash drops every request and keeps the database.                       *)
(***************************************************************************)
EXTENDS Integers, FiniteSets

CONSTANTS
    Attempts,       \* checkout references that may ever be drawn
    Requests,       \* handlers that can be in flight at once
    Accounts,       \* merchant accounts the shop may connect
    Currencies,     \* shop currencies
    Provider,       \* "stripe" or "authorize_net"
    MaxInvoices,    \* invoices the order may ever get (void and convert again)
    Totals,         \* totals the quote may have, in minor units
    CreditAmounts,  \* amounts of invoice credits
    Kinds,          \* what the pay page offers: "deposit", "balance"
    ManualAmounts,  \* amounts of payments recorded by hand
    Delayed,        \* whether the provider takes methods that settle later
    None            \* absent value

ASSUME ProviderAssumption == Provider \in {"stripe", "authorize_net"}
ASSUME AmountsAssumption ==
    /\ Totals \subseteq Nat \ {0} /\ Totals # {}
    /\ CreditAmounts \subseteq Nat \ {0} /\ ManualAmounts \subseteq Nat \ {0}
    /\ Delayed \in BOOLEAN
    /\ "balance" \in Kinds /\ Kinds \subseteq {"deposit", "balance"}
ASSUME InvoicesAssumption == MaxInvoices \in Nat \ {0}
ASSUME NoneAssumption ==
    /\ None \notin Attempts \cup Requests \cup Accounts
    /\ None \notin Attempts \X Accounts \X {1, 2}
    /\ None \notin (Attempts \X Accounts \X {1, 2}) \X {1, 2}
    /\ Accounts # {} /\ Currencies # {}

Stripe == Provider = "stripe"

Invoices == 1..MaxInvoices
NoInvoice == 0

(***************************************************************************)
(* A session is what one "create" leaves at the provider: the attempt's    *)
(* reference, the merchant account it was made in, and which create it     *)
(* was.  A transaction is a charge of a session (an Authorize.net form can *)
(* be captured twice, a Stripe session once).                              *)
(***************************************************************************)
Sessions == Attempts \X Accounts \X {1, 2}
Captures == IF Stripe THEN {1} ELSE {1, 2}
Transactions == Sessions \X Captures
RefOf(s) == s[1]
AccountOf(s) == s[2]

VARIABLES
    estimate,       \* the quote behind the order
    invoices,       \* rows of invoices, by number
    attempts,       \* rows of payment_attempts
    collections,    \* rows of payment_collections, by attempt
    receipts,       \* rows of payment_collection_receipts, by transaction
    posted,         \* the invoice a payments row of the transaction is on
    settings,       \* the shop's connected account and currency
    sessions,       \* what the provider knows of each session
    requests        \* handlers in flight

database == <<estimate, invoices, attempts, collections, receipts, posted, settings>>
vars == <<estimate, invoices, attempts, collections, receipts, posted,
          settings, sessions, requests>>

-----------------------------------------------------------------------------
(* Rows and their types *)

Estimate == [total : Totals, revised : BOOLEAN]

Invoice ==
    [status : {"none", "live", "void"}, base : Nat, credit : Nat,
     paid : Int, manual : Nat, review : BOOLEAN]

Attempt ==
    [status : {"unused", "pending", "expired", "paid"}, onEstimate : BOOLEAN,
     invoice : 0..MaxInvoices, amount : Nat, kind : Kinds, currency : Currencies,
     session : Sessions \cup {None}, txn : Transactions \cup {None}]

(* The states creating, open, verifying and review are one here: they are     *)
(* shown to managers and no code decides by them, only by closed_at.          *)
Collection ==
    [state : {"unresolved", "expired", "paid"},
     closed : BOOLEAN, holder : Requests \cup {None},
     wait : {"free", "lease", "backoff"}, account : Accounts \cup {None},
     submitted : {"no", "fresh", "late"}, fresh : BOOLEAN]

Receipt ==
    [state : {"none", "review", "applied", "applied_review", "reviewed"},
     invoice : 0..MaxInvoices]

SessionStates ==
    {"none", "open", "processing", "failed", "expired", "paid", "paidTwice"}

Request ==
    [pc : {"idle", "account", "call", "answered", "paid"},
     op : {"resume", "recheck", "expire", "expireCall", "evidence"},
     ref : Attempts \cup {None}, account : Accounts \cup {None},
     session : Sessions \cup {None}, n : Captures, seen : SessionStates]

Idle == [pc |-> "idle", op |-> "resume", ref |-> None, account |-> None,
         session |-> None, n |-> 1, seen |-> "none"]

TypeOK ==
    /\ estimate \in Estimate
    /\ invoices \in [Invoices -> Invoice]
    /\ attempts \in [Attempts -> Attempt]
    /\ collections \in [Attempts -> Collection]
    /\ receipts \in [Transactions -> Receipt]
    /\ posted \in [Transactions -> 0..MaxInvoices]
    /\ settings \in [account : Accounts, currency : Currencies]
    /\ sessions \in [Sessions -> SessionStates]
    /\ requests \in [Requests -> Request]

-----------------------------------------------------------------------------
(* What the rows say *)

Due(i) == invoices[i].base - invoices[i].credit
Balance(i) == Due(i) - invoices[i].paid
Live(i) == invoices[i].status = "live"

Unresolved(a) == attempts[a].status # "unused" /\ ~collections[a].closed

Converted == {i \in Invoices : invoices[i].status # "none"}

\* Broken variant: the reservation of the estimate is forgotten.
InvoicePending(i) == {a \in Attempts : Unresolved(a) /\ attempts[a].invoice = i}

(* The estimate's attempts and those of every invoice converted from it. *)
RelatedPending(i) ==
    {a \in Attempts : Unresolved(a) /\ \/ attempts[a].invoice = i
                                       \/ attempts[a].onEstimate
                                       \/ attempts[a].invoice \in Converted}

CollectionHold(i) ==
    \/ RelatedPending(i) # {}
    \/ \E t \in Transactions : receipts[t].invoice = i /\ receipts[t].state = "review"

SnapshotSame(a) == collections[a].fresh /\ settings.currency = attempts[a].currency

Paid(state) == state \in {"paid", "paidTwice"}
Charged(t) == \/ Paid(sessions[t[1]]) /\ t[2] = 1
              \/ sessions[t[1]] = "paidTwice"

Settled(receipt) == receipt.state \in {"applied", "applied_review", "reviewed"}

(***************************************************************************)
(* The version triggers: a change of invoice i (of the estimate) makes the *)
(* saved snapshot of the attempts reserved on it differ from then on.      *)
(***************************************************************************)
Stale(cs, changed) ==
    [a \in Attempts |-> IF a \in changed THEN [cs[a] EXCEPT !.fresh = FALSE] ELSE cs[a]]
ReservedOn(i) == {a \in Attempts : ~attempts[a].onEstimate /\ attempts[a].invoice = i}

(* The trigger on amount_paid: money moves while a checkout of i is unresolved. *)
MoneyDuringCheckout(i) == \E a \in Attempts : attempts[a].invoice = i /\ Unresolved(a)

-----------------------------------------------------------------------------
(* Writes of one payment_collections row *)

Claimable(c) == c.wait = "free" /\ ~c.closed
Claim(c, r) == [c EXCEPT !.holder = r, !.wait = "lease"]

Owns(r) == collections[requests[r].ref].holder = r

\* Broken variant: a release that does not compare the token.
ReleaseAnyway(c, r, state, error, close) ==
    [c EXCEPT !.state = state, !.holder = None, !.closed = @ \/ close,
              !.wait = IF error THEN "backoff" ELSE "free"]

(* release: only the claim's own token may write. *)
Release(c, r, state, error, close) ==
    IF c.holder = r
    THEN [c EXCEPT !.state = state, !.holder = None, !.closed = @ \/ close,
                   !.wait = IF error THEN "backoff" ELSE "free"]
    ELSE c

\* Broken variant: a payment is booked and its reservation stays.
FinishOpen(c) == [c EXCEPT !.state = "paid", !.holder = None, !.wait = "free"]

Finish(c) == [c EXCEPT !.state = "paid", !.closed = TRUE, !.holder = None, !.wait = "free"]

\* Broken variant: an unanswered call is taken for an expired checkout.
FailAsExpired(c, r) == Release(c, r, "expired", FALSE, TRUE)

Fail(c, r) == Release(c, r, "unresolved", TRUE, FALSE)

Bind(c, account) == [c EXCEPT !.account = IF @ = None THEN account ELSE @]

Submit(c) == [c EXCEPT !.submitted = IF @ = "no" THEN "fresh" ELSE @]

-----------------------------------------------------------------------------
(* The order before any checkout: a quote, nothing invoiced *)

Init ==
    /\ estimate \in [total : Totals, revised : {FALSE}]
    /\ invoices = [i \in Invoices |-> [status |-> "none", base |-> 0, credit |-> 0,
                                       paid |-> 0, manual |-> 0, review |-> FALSE]]
    /\ settings \in [account : Accounts, currency : Currencies]
    /\ attempts = [a \in Attempts |->
            [status |-> "unused", onEstimate |-> FALSE, invoice |-> NoInvoice, amount |-> 0,
             kind |-> "balance", currency |-> settings.currency, session |-> None, txn |-> None]]
    /\ collections = [a \in Attempts |->
            [state |-> "unresolved", closed |-> FALSE, holder |-> None, wait |-> "free",
             account |-> None, submitted |-> "no", fresh |-> TRUE]]
    /\ receipts = [t \in Transactions |-> [state |-> "none", invoice |-> NoInvoice]]
    /\ posted = [t \in Transactions |-> NoInvoice]
    /\ sessions = [s \in Sessions |-> "none"]
    /\ requests = [r \in Requests |-> Idle]

-----------------------------------------------------------------------------
(* The shop's own handlers: each is one synchronous stretch *)

LiveInvoices == {i \in Invoices : Live(i)}
NextInvoice(i) == i \notin Converted /\ \A j \in 1..i-1 : j \in Converted
NewInvoice(total) == [status |-> "live", base |-> total, credit |-> 0,
                      paid |-> 0, manual |-> 0, review |-> FALSE]

Convert(i) ==
    /\ LiveInvoices = {} /\ NextInvoice(i)
    /\ invoices' = [invoices EXCEPT ![i] = NewInvoice(estimate.total)]
    /\ UNCHANGED <<estimate, attempts, collections, receipts, posted, settings, sessions, requests>>

ReviseEstimate ==
    /\ LiveInvoices = {}
    /\ \E n \in Totals : estimate' = [total |-> n, revised |-> TRUE]
    /\ collections' = Stale(collections, Attempts)
    /\ UNCHANGED <<invoices, attempts, receipts, posted, settings, sessions, requests>>

(* An edit that moves no money: due date, recipient, customer. *)
EditInvoice(i) ==
    /\ Live(i)
    /\ collections' = Stale(collections, ReservedOn(i))
    /\ UNCHANGED <<estimate, invoices, attempts, receipts, posted, settings, sessions, requests>>

ChangeInvoice(i, row) ==
    /\ invoices' = [invoices EXCEPT ![i] = row]
    /\ collections' = Stale(collections, ReservedOn(i))
    /\ UNCHANGED <<estimate, attempts, receipts, posted, settings, sessions, requests>>

Void(i) ==
    /\ Live(i) /\ invoices[i].paid <= 0
    /\ ChangeInvoice(i, [invoices[i] EXCEPT !.status = "void"])

AddCredit(i) ==
    /\ Live(i)
    /\ \E n \in CreditAmounts :
        /\ n <= Due(i)
        /\ ChangeInvoice(i, [invoices[i] EXCEPT !.credit = @ + n, !.review = TRUE])

CancelCredit(i) ==
    /\ Live(i)
    /\ \E n \in CreditAmounts :
        /\ n <= invoices[i].credit
        /\ ChangeInvoice(i, [invoices[i] EXCEPT !.credit = @ - n, !.review = TRUE])

(* syncInvoiceStatus after a manual row, and the trigger it fires. *)
MoveManual(row, n, held) ==
    [row EXCEPT !.paid = @ + n, !.manual = @ + n, !.review = @ \/ held]

(* Accepted up to a hundredth over the balance, recorded up to the balance. *)
ManualPayment(i) ==
    /\ Live(i)
    /\ \E amount \in ManualAmounts :
        LET recorded == IF amount < Balance(i) THEN amount ELSE Balance(i)
        IN  /\ amount <= Balance(i) + 1
            /\ recorded > 0
            /\ ChangeInvoice(i, MoveManual(invoices[i], recorded, MoneyDuringCheckout(i)))

\* Broken variant: a processor's payment is deleted as if it were a manual one.
DeleteAnyPayment(i) ==
    /\ invoices[i].status # "none"
    /\ \E n \in ManualAmounts :
        ChangeInvoice(i, MoveManual(invoices[i], -n, MoneyDuringCheckout(i)))

(* Only rows no processor wrote may be deleted. *)
DeletePayment(i) ==
    /\ invoices[i].status # "none"
    /\ \E n \in ManualAmounts :
        /\ n <= invoices[i].manual
        /\ ChangeInvoice(i, MoveManual(invoices[i], -n, MoneyDuringCheckout(i)))

ClearReview(i) ==
    /\ invoices[i].status # "none"
    /\ ~CollectionHold(i)
    /\ invoices' = [invoices EXCEPT ![i].review = FALSE]
    /\ receipts' = [t \in Transactions |->
            IF receipts[t] = [state |-> "applied_review", invoice |-> i]
            THEN [receipts[t] EXCEPT !.state = "reviewed"] ELSE receipts[t]]
    /\ collections' = IF invoices[i].review THEN Stale(collections, ReservedOn(i)) ELSE collections
    /\ UNCHANGED <<estimate, attempts, posted, settings, sessions, requests>>

ChangeSettings ==
    /\ settings' \in [account : Accounts, currency : Currencies]
    /\ UNCHANGED <<estimate, invoices, attempts, collections, receipts, posted, sessions, requests>>

-----------------------------------------------------------------------------
(* Opening a checkout: reserve, then claim, then wait for the account *)

Amount(i, kind) ==
    LET half == ((Due(i) + 1) \div 2) - invoices[i].paid
        open == IF half > 0 THEN half ELSE 0
    IN  IF kind = "balance" \/ open > Balance(i) THEN Balance(i) ELSE open

Start(r, op, a, s, n, pc) ==
    /\ requests[r].pc = "idle"
    /\ requests' = [requests EXCEPT ![r] =
            [pc |-> pc, op |-> op, ref |-> a, account |-> settings.account,
             session |-> s, n |-> n, seen |-> "none"]]

(* A fresh row, reserved by a handler that goes on to claim it at once. *)
Reserve(r, a, i, amount, kind) ==
    /\ attempts[a].status = "unused"
    /\ RelatedPending(i) = {}
    /\ attempts' = [attempts EXCEPT ![a] =
            [status |-> "pending", onEstimate |-> i = NoInvoice, invoice |-> i,
             amount |-> amount, kind |-> kind, currency |-> settings.currency,
             session |-> None, txn |-> None]]
    /\ collections' = [collections EXCEPT ![a] = Claim([@ EXCEPT !.fresh = TRUE], r)]

(* The same checkout again: the saved reservation is resumed, not replaced. *)
Reuse(r, a, i, amount, kind) ==
    /\ a \in RelatedPending(i)
    /\ attempts[a].amount = amount /\ attempts[a].kind = kind
    /\ a \in ReservedOn(i) /\ SnapshotSame(a)
    /\ Claimable(collections[a])
    /\ collections' = [collections EXCEPT ![a] = Claim(@, r)]
    /\ UNCHANGED attempts

PayInvoice(r, a, i, kind) ==
    /\ Live(i) /\ ~invoices[i].review /\ Balance(i) > 0 /\ Amount(i, kind) > 0
    /\ \/ Reserve(r, a, i, Amount(i, kind), kind)
       \/ Reuse(r, a, i, Amount(i, kind), kind)
    /\ Start(r, "resume", a, None, 1, "account")
    /\ UNCHANGED <<estimate, invoices, receipts, posted, settings, sessions>>

(* The storefront's checkout is opened once, by the request that wrote the quote. *)
PayEstimate(r, a) ==
    /\ ~estimate.revised /\ Converted = {}
    /\ \A b \in Attempts : attempts[b].status = "unused"
    /\ Reserve(r, a, NoInvoice, estimate.total, "balance")
    /\ Start(r, "resume", a, None, 1, "account")
    /\ UNCHANGED <<estimate, invoices, receipts, posted, settings, sessions>>

(* What a manager's check looks at: the saved session, or (none being saved, *)
(* or for Authorize.net) the identity typed in from the provider's dashboard.  *)
Looks(a, op) ==
    IF op = "resume" THEN {<<None, 1>>}
    ELSE IF ~Stripe THEN {<<None, 1>>} \cup {t \in Transactions : Charged(t)}
    ELSE IF attempts[a].session # None THEN {<<attempts[a].session, 1>>}
    ELSE {<<None, 1>>} \cup {<<s, 1>> : s \in {u \in Sessions : sessions[u] # "none"}}

Manage(r, a, op) ==
    /\ requests[r].pc = "idle"
    /\ attempts[a].status # "unused" /\ Claimable(collections[a])
    /\ collections' = [collections EXCEPT ![a] = Claim(@, r)]
    /\ \E look \in Looks(a, op) : Start(r, op, a, look[1], look[2], "account")
    /\ UNCHANGED <<estimate, invoices, attempts, receipts, posted, settings, sessions>>

(* A webhook or return page names a session the customer has completed.  It  *)
(* claims and writes nothing before the provider has answered, so it is      *)
(* taken up as of that answer.                                               *)
Completed(s) == sessions[s] \in {"processing", "failed", "paid", "paidTwice"}
Evidence(r, s, n) ==
    /\ requests[r].pc = "idle"
    /\ IF Stripe THEN Completed(s) /\ n = 1 ELSE Charged(<<s, n>>)
    /\ AccountOf(s) = settings.account
    /\ requests' = [requests EXCEPT ![r] =
            [pc |-> "answered", op |-> "evidence", ref |-> RefOf(s), account |-> settings.account,
             session |-> s, n |-> n, seen |-> sessions[s]]]
    /\ UNCHANGED <<database, sessions>>

-----------------------------------------------------------------------------
(* The provider's answers, one await at a time *)

Done(r) == requests' = [requests EXCEPT ![r] = Idle]
Call(r, s) == requests' = [requests EXCEPT ![r].pc = "call", ![r].session = s]

WriteCollection(r, c) ==
    collections' = [collections EXCEPT ![requests[r].ref] = c]

(* Every error path of resume and check: the claim is released for review.   *)
(* Evidence holds no claim, so for it this writes nothing.                   *)
GiveUp(r) ==
    /\ WriteCollection(r, IF requests[r].op = "evidence" THEN collections[requests[r].ref]
                          ELSE Fail(collections[requests[r].ref], r))
    /\ Done(r)
    /\ UNCHANGED <<estimate, invoices, attempts, receipts, posted, settings, sessions>>

(* A provider call that fails, times out, or whose answer is lost. *)
CallFails(r) == requests[r].pc \in {"account", "call", "answered"} /\ GiveUp(r)

\* Broken variant: any connected account will do.
AnyAccount(r) == requests[r].account # None

SameAccount(r) == collections[requests[r].ref].account \in {None, requests[r].account}
SettingsMatch(r) == requests[r].account = settings.account

AccountRefused(r) ==
    /\ requests[r].pc = "account"
    /\ ~Owns(r) \/ ~SameAccount(r)
    /\ GiveUp(r)

Bound(r) == Bind(collections[requests[r].ref], requests[r].account)

\* Broken variant: a create whose answer was lost is sent again, key or not.
MayCreateAgain(c) == c.submitted # "late"

(* A Stripe create is replayed under its key while the provider surely remembers *)
(* it; an Authorize.net one is sent once.                                       *)
MayCreate(c) == c.submitted \in IF Stripe THEN {"no", "fresh"} ELSE {"no"}

(* resume: the account is bound, then the checkout turns out to have changed, *)
(* or to be past the point where asking again is safe.                        *)
ResumeRefused(r) ==
    LET a == requests[r].ref IN
    /\ requests[r].pc = "account" /\ requests[r].op = "resume"
    /\ Owns(r) /\ SameAccount(r)
    /\ \/ ~SettingsMatch(r) \/ ~SnapshotSame(a)
       \/ attempts[a].session = None /\ ~MayCreate(collections[a])
       \/ attempts[a].session # None /\ ~Stripe
    /\ WriteCollection(r, Fail(Bound(r), r))
    /\ Done(r)
    /\ UNCHANGED <<estimate, invoices, attempts, receipts, posted, settings, sessions>>

MayResume(r) ==
    /\ requests[r].pc = "account" /\ requests[r].op = "resume"
    /\ Owns(r) /\ SameAccount(r) /\ SettingsMatch(r) /\ SnapshotSame(requests[r].ref)

(* The hosted form is still young: it is shown again without a call. *)
ReopenForm(r) ==
    /\ MayResume(r) /\ ~Stripe /\ attempts[requests[r].ref].session # None
    /\ WriteCollection(r, Release(Bound(r), r, "unresolved", FALSE, FALSE))
    /\ Done(r)
    /\ UNCHANGED <<estimate, invoices, attempts, receipts, posted, settings, sessions>>

(* submitted_at is written before the create leaves, and only the first time. *)
SubmitCreate(r) ==
    LET a == requests[r].ref IN
    /\ MayResume(r) /\ attempts[a].session = None /\ MayCreate(collections[a])
    /\ WriteCollection(r, Submit(Bound(r)))
    /\ Call(r, None)
    /\ UNCHANGED <<estimate, invoices, attempts, receipts, posted, settings, sessions>>

SubmitRetrieve(r) ==
    LET a == requests[r].ref IN
    /\ requests[r].pc = "account" /\ Owns(r) /\ SameAccount(r)
    /\ \/ MayResume(r) /\ Stripe /\ attempts[a].session # None /\ Call(r, attempts[a].session)
       \/ requests[r].op \in {"recheck", "expire"} /\ Call(r, requests[r].session)
    /\ WriteCollection(r, Bound(r))
    /\ UNCHANGED <<estimate, invoices, attempts, receipts, posted, settings, sessions>>

Answer(r, s, state) ==
    requests' = [requests EXCEPT ![r].pc = "answered", ![r].session = s, ![r].seen = state]

(* What a create names at the provider: the session its idempotency key still *)
(* remembers, or a new one.  Authorize.net has no such key.                   *)
Existing(a, account) == {n \in {1, 2} : sessions[<<a, account, n>>] # "none"}
Created(a, account) ==
    LET known    == Existing(a, account)
        replayed == Stripe /\ known # {} /\ collections[a].submitted # "late"
        latest   == IF 2 \in known THEN 2 ELSE 1
        next     == IF known = {} THEN 1 ELSE 2
    IN  <<a, account, IF replayed THEN latest ELSE next>>

ProviderCreates(r) ==
    LET s == Created(requests[r].ref, requests[r].account)
        after == IF sessions[s] = "none" THEN "open" ELSE sessions[s]
    IN  /\ requests[r].pc = "call" /\ requests[r].op = "resume" /\ requests[r].session = None
        /\ sessions' = [sessions EXCEPT ![s] = after]
        /\ Answer(r, s, after)
        /\ UNCHANGED database

ProviderReads(r) ==
    LET s == requests[r].session IN
    /\ requests[r].pc = "call" /\ s # None /\ requests[r].op # "expireCall"
    /\ AccountOf(s) = requests[r].account
    /\ Answer(r, s, sessions[s])
    /\ UNCHANGED <<database, sessions>>

(* client.expire reads the session first and ends it only if it is still open. *)
ProviderExpires(r) ==
    LET s == requests[r].session
        after == IF sessions[s] = "open" THEN "expired" ELSE sessions[s]
    IN  /\ requests[r].pc = "call" /\ requests[r].op = "expireCall"
        /\ AccountOf(s) = requests[r].account
        /\ sessions' = [sessions EXCEPT ![s] = after]
        /\ Answer(r, s, after)
        /\ UNCHANGED database

(* What the answer may not be: another checkout's, or one that does not match *)
(* the session already saved.                                                 *)
Foreign(r) ==
    LET a == requests[r].ref IN
    \/ RefOf(requests[r].session) # a
    \/ Stripe /\ attempts[a].session \notin {None, requests[r].session}

AnswerRefused(r) ==
    /\ requests[r].pc = "answered" /\ requests[r].op # "evidence"
    /\ ~Owns(r) \/ Foreign(r) \/ ~SettingsMatch(r) \/ (requests[r].op = "expire" /\ ~Stripe)
    /\ GiveUp(r)

Acceptable(r) ==
    /\ requests[r].pc = "answered" /\ requests[r].op # "evidence"
    /\ Owns(r) /\ ~Foreign(r) /\ SettingsMatch(r)
    /\ requests[r].op = "expire" => Stripe

(* A check that was asked to close the checkout finds it open, and asks. *)
SubmitExpire(r) ==
    /\ Acceptable(r) /\ requests[r].op = "expire" /\ requests[r].seen = "open"
    /\ requests' = [requests EXCEPT ![r].pc = "call", ![r].op = "expireCall",
                                    ![r].session = attempts[requests[r].ref].session]
    /\ attempts[requests[r].ref].session # None
    /\ UNCHANGED <<database, sessions>>

(* readyAttempt and the release that follows it; a paid answer goes on to    *)
(* reconcileCheckout, whatever happened to the invoice meanwhile.            *)
AcceptAnswer(r) ==
    LET a      == requests[r].ref
        seen   == requests[r].seen
        resume == requests[r].op = "resume"
        stale  == resume /\ ~Paid(seen) /\ ~SnapshotSame(a)
        ended  == seen = "expired" /\ ~stale
        saves  == resume \/ Stripe
        row    == [attempts[a] EXCEPT !.session = IF saves THEN requests[r].session ELSE @,
                                      !.status = IF ended THEN "expired" ELSE @]
    IN  /\ Acceptable(r)
        /\ ~(requests[r].op = "expire" /\ seen = "open")
        /\ attempts' = [attempts EXCEPT ![a] = row]
        /\ WriteCollection(r,
              IF stale THEN Fail(collections[a], r)
              ELSE Release(collections[a], r, IF ended THEN "expired" ELSE "unresolved", FALSE, ended))
        /\ IF Paid(seen) THEN requests' = [requests EXCEPT ![r].pc = "paid"] ELSE Done(r)
        /\ UNCHANGED <<estimate, invoices, receipts, posted, settings, sessions>>

-----------------------------------------------------------------------------
(* reconcileCheckout: one synchronous stretch, receipt first, then one         *)
(* transaction that either applies the money or, failing, holds the receipt.  *)

Txn(r) == <<requests[r].session, requests[r].n>>

Reconcilable(r) ==
    \/ requests[r].pc = "paid"
    \/ /\ requests[r].pc = "answered" /\ requests[r].op = "evidence"
       /\ SettingsMatch(r) /\ Paid(requests[r].seen)

OwnEvidence(r) == collections[requests[r].ref].account = requests[r].account

(* Nothing to record: unpaid, the connection changed under the request, or    *)
(* evidence from an account that is not the checkout's.                       *)
EvidenceRefused(r) ==
    /\ \/ /\ requests[r].pc = "answered" /\ requests[r].op = "evidence"
          /\ ~SettingsMatch(r) \/ ~Paid(requests[r].seen)
       \/ Reconcilable(r) /\ ~OwnEvidence(r)
    /\ Done(r)
    /\ UNCHANGED <<database, sessions>>

(* receiveCollectionPayment: inserted once, kept as it is from then on. *)
Received(t) ==
    IF receipts[t].state = "none"
    THEN [state |-> "review", invoice |-> attempts[RefOf(t[1])].invoice]
    ELSE receipts[t]

(* invoiceForAttempt: the attempt's own, else the newest live, else the newest *)
(* void, else one converted now.                                              *)
Newest(S) == CHOOSE i \in S : \A j \in S : j <= i
InvoiceFor(a) ==
    IF attempts[a].invoice # NoInvoice THEN attempts[a].invoice
    ELSE IF LiveInvoices # {} THEN Newest(LiveInvoices)
    ELSE IF Converted # {} THEN Newest(Converted)
    ELSE 1
RowFor(i) == IF i \in Converted THEN invoices[i] ELSE NewInvoice(estimate.total)

AlreadyPaid(a) == attempts[a].status = "paid"
Extra(a, t) == AlreadyPaid(a) /\ attempts[a].txn # t
Duplicate(a, t) == AlreadyPaid(a) /\ attempts[a].txn = t

WrongSession(a, t) == Stripe /\ attempts[a].session \notin {None, t[1]}
WrongCurrency(a) == settings.currency # attempts[a].currency
\* Broken variant: money for an invoice that changed is refused like that of a quote.
AnythingChanged(a) == ~collections[a].fresh

QuoteChanged(a) == attempts[a].invoice = NoInvoice /\ ~collections[a].fresh

(* The transaction throws, rolls back, and the saved receipt is held. *)
Rejected(a, t) ==
    \/ WrongSession(a, t)
    \/ WrongCurrency(a)
    \/ /\ ~Settled(Received(t)) /\ ~Duplicate(a, t)
       /\ QuoteChanged(a) \/ posted[t] \notin {NoInvoice, InvoiceFor(a)}

\* Broken variant: the receipt is held and the invoice goes on collecting.
NotHeld(row) == row

Held(row) == [row EXCEPT !.review = TRUE]

HoldReceipt(r) ==
    LET t == Txn(r)
        i == Received(t).invoice
    IN  /\ Reconcilable(r) /\ OwnEvidence(r) /\ Rejected(requests[r].ref, t)
        /\ receipts' = [receipts EXCEPT ![t] = [state |-> "review", invoice |-> i]]
        /\ invoices' = [j \in Invoices |-> IF j = i THEN Held(invoices[j]) ELSE invoices[j]]
        /\ collections' = Stale(collections, IF i = NoInvoice THEN {} ELSE ReservedOn(i))
        /\ Done(r)
        /\ UNCHANGED <<estimate, attempts, posted, settings, sessions>>

RepeatedEvidence(r) ==
    LET a == requests[r].ref
        t == Txn(r)
    IN  /\ Reconcilable(r) /\ OwnEvidence(r) /\ ~Rejected(a, t)
        /\ Settled(Received(t)) \/ Duplicate(a, t)
        /\ IF Settled(Received(t)) THEN UNCHANGED <<receipts, collections>>
           ELSE /\ receipts' = [receipts EXCEPT ![t] =
                                    [state |-> "applied", invoice |-> attempts[a].invoice]]
                /\ WriteCollection(r, Finish(collections[a]))
        /\ Done(r)
        /\ UNCHANGED <<estimate, invoices, attempts, posted, settings, sessions>>

\* Broken variant: money over the balance passes unless something else changed.
UnexpectedIfChanged(a, t, row) ==
    \/ Extra(a, t) \/ row.status = "void"
    \/ ~attempts[a].onEstimate /\ ~collections[a].fresh

Unexpected(a, t, row) ==
    \/ Extra(a, t)
    \/ ~attempts[a].onEstimate /\ ~collections[a].fresh
    \/ row.status = "void"
    \/ attempts[a].amount > row.base - row.credit - row.paid

\* Broken variant: every delivery of the evidence brings its money.
ArrivingAgain(a, t) == attempts[a].amount

(* A payments row already there is not written again. *)
Arriving(a, t) == IF posted[t] = NoInvoice THEN attempts[a].amount ELSE 0

(* The reservation is closed before amount_paid moves, so the trigger sees     *)
(* only other checkouts.                                                       *)
ApplyPayment(r) ==
    LET a      == requests[r].ref
        t      == Txn(r)
        i      == InvoiceFor(a)
        row    == RowFor(i)
        review == Unexpected(a, t, row)
        moved  == Arriving(a, t)
        others == \E b \in Attempts \ {a} : attempts[b].invoice = i /\ Unresolved(b)
    IN  /\ Reconcilable(r) /\ OwnEvidence(r) /\ ~Rejected(a, t)
        /\ ~Settled(Received(t)) /\ ~Duplicate(a, t)
        /\ invoices' = [invoices EXCEPT ![i] =
              [row EXCEPT !.paid = @ + moved, !.review = @ \/ review \/ (moved # 0 /\ others)]]
        /\ attempts' = IF Extra(a, t) THEN attempts
                       ELSE [attempts EXCEPT ![a] =
                               [@ EXCEPT !.status = "paid", !.txn = t, !.invoice = i,
                                         !.session = IF Stripe THEN t[1] ELSE None]]
        /\ collections' = [Stale(collections, ReservedOn(i) \cup {a})
                            EXCEPT ![a] = Finish(@)]
        /\ posted' = [posted EXCEPT ![t] = i]
        /\ receipts' = [receipts EXCEPT ![t] =
              [state |-> IF review THEN "applied_review" ELSE "applied", invoice |-> i]]
        /\ Done(r)
        /\ UNCHANGED <<estimate, settings, sessions>>

-----------------------------------------------------------------------------
(* Crashes and time *)

Crash ==
    /\ requests' = [r \in Requests |-> Idle]
    /\ UNCHANGED <<database, sessions>>

(* The process dies between the receipt and the transaction that applies it. *)
CrashAfterReceipt(r) ==
    /\ Reconcilable(r) /\ OwnEvidence(r)
    /\ receipts' = [receipts EXCEPT ![Txn(r)] = Received(Txn(r))]
    /\ requests' = [q \in Requests |-> Idle]
    /\ UNCHANGED <<estimate, invoices, attempts, collections, posted, settings, sessions>>

(* claim_until or next_retry_at passes; the handler that claimed may still run. *)
WaitEnds(a) ==
    /\ collections[a].wait # "free"
    /\ collections' = [collections EXCEPT ![a].wait = "free"]
    /\ UNCHANGED <<estimate, invoices, attempts, receipts, posted, settings, sessions, requests>>

(* The replay window ends an hour before the provider forgets the key, and a *)
(* call lasts seconds: no create is still on its way when the key is gone.   *)
(* The age of a create matters only until its session is known.              *)
ReplayWindowEnds(a) ==
    /\ collections[a].submitted = "fresh" /\ Unresolved(a) /\ attempts[a].session = None
    /\ \A r \in Requests : ~(requests[r].pc = "call" /\ requests[r].ref = a
                             /\ requests[r].session = None)
    /\ collections' = [collections EXCEPT ![a].submitted = "late"]
    /\ UNCHANGED <<estimate, invoices, attempts, receipts, posted, settings, sessions, requests>>

-----------------------------------------------------------------------------
(* The customer and the provider *)

Provides(s, from, to) ==
    /\ sessions[s] \in from
    /\ sessions' = [sessions EXCEPT ![s] = to]
    /\ UNCHANGED <<database, requests>>

CustomerPays(s) == Provides(s, {"open"}, "paid")
CustomerPaysLater(s) == Stripe /\ Delayed /\ Provides(s, {"open"}, "processing")
PaymentSettles(s) == Provides(s, {"processing"}, "paid")
PaymentFails(s) == Provides(s, {"processing"}, "failed")
SessionExpires(s) == Stripe /\ Provides(s, {"open"}, "expired")
FormCapturedAgain(s) == ~Stripe /\ Provides(s, {"paid"}, "paidTwice")

-----------------------------------------------------------------------------
RequestStep(r) ==
    \/ CallFails(r) \/ AccountRefused(r) \/ ResumeRefused(r) \/ ReopenForm(r)
    \/ SubmitCreate(r) \/ SubmitRetrieve(r) \/ AnswerRefused(r) \/ SubmitExpire(r)
    \/ AcceptAnswer(r) \/ EvidenceRefused(r)
    \/ HoldReceipt(r) \/ RepeatedEvidence(r) \/ ApplyPayment(r)

ProviderStep(r) == ProviderCreates(r) \/ ProviderReads(r) \/ ProviderExpires(r)

Open(r) ==
    \/ \E a \in Attempts :
        \/ PayEstimate(r, a)
        \/ \E i \in Invoices, kind \in Kinds : PayInvoice(r, a, i, kind)
        \/ \E op \in {"resume", "recheck", "expire"} : Manage(r, a, op)
    \/ \E s \in Sessions, n \in Captures : Evidence(r, s, n)

ShopStep ==
    \/ ReviseEstimate \/ ChangeSettings
    \/ \E i \in Invoices :
        \/ Convert(i) \/ EditInvoice(i) \/ Void(i) \/ AddCredit(i) \/ CancelCredit(i)
        \/ ManualPayment(i) \/ DeletePayment(i) \/ ClearReview(i)

World ==
    \/ \E s \in Sessions :
        \/ CustomerPays(s) \/ CustomerPaysLater(s) \/ PaymentSettles(s)
        \/ PaymentFails(s) \/ SessionExpires(s) \/ FormCapturedAgain(s)
    \/ \E a \in Attempts : WaitEnds(a) \/ ReplayWindowEnds(a)

Next ==
    \/ \E r \in Requests :
        RequestStep(r) \/ ProviderStep(r) \/ Open(r) \/ CrashAfterReceipt(r)
    \/ Crash \/ ShopStep \/ World

Spec == Init /\ [][Next]_vars

=============================================================================
