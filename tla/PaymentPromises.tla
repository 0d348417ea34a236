-------------------------- MODULE PaymentPromises ---------------------------
(***************************************************************************)
(* What the collection of an order's money must never get wrong, stated of *)
(* PaymentCollections.  Each property needs several handlers, or a handler *)
(* and the provider, to break.                                             *)
(***************************************************************************)
EXTENDS PaymentCollections, FiniteSetsExt

(***************************************************************************)
(* An invoice and its estimate share one unresolved reservation: two tabs, *)
(* or a storefront link and the invoice's pay page, never leave two        *)
(* checkouts waiting (relatedPending).                                     *)
(***************************************************************************)
OneReservation ==
    \A a, b \in Attempts : Unresolved(a) /\ Unresolved(b) => a = b

(***************************************************************************)
(* One reference has at most one session at the provider, over all the     *)
(* accounts ever connected: whatever answers are lost, a create is         *)
(* replayed under its key or not at all (bindAccount, submitted_at).       *)
(***************************************************************************)
OneSession ==
    \A s, u \in Sessions :
        RefOf(s) = RefOf(u) /\ sessions[s] # "none" /\ sessions[u] # "none" => s = u

(***************************************************************************)
(* A checkout is closed as expired only if the provider will never charge  *)
(* it, and closed as paid only if its money is on an invoice               *)
(* (resumeCollection, checkCollection, finishCollection).                  *)
(***************************************************************************)
ClosedIsCertain ==
    \A a \in Attempts :
        collections[a].closed =>
            \/ /\ collections[a].state = "expired" /\ attempts[a].status = "expired"
               /\ \A s \in Sessions : RefOf(s) = a => sessions[s] \in {"none", "expired"}
            \/ /\ collections[a].state = "paid" /\ attempts[a].status = "paid"
               /\ posted[attempts[a].txn] = attempts[a].invoice

(***************************************************************************)
(* A handler that lost its claim, to a later claim or to a webhook that    *)
(* settled the checkout, cannot reopen or relabel it when its own answer   *)
(* arrives (the token in release).                                         *)
(***************************************************************************)
ClosedStays ==
    [][\A a \in Attempts :
        collections[a].closed =>
            collections'[a].closed /\ collections'[a].state = collections[a].state]_vars

(***************************************************************************)
(* The paid amount of an invoice is what was recorded by hand and what the *)
(* provider's transactions posted on it brought, each once, whatever is    *)
(* delivered again (recordStripePayment, syncInvoiceStatus).               *)
(***************************************************************************)
Collected(i) ==
    MapThenSumSet(LAMBDA t : attempts[RefOf(t[1])].amount, {t \in Transactions : posted[t] = i})
BooksBalance ==
    \A i \in Invoices : invoices[i].paid = invoices[i].manual + Collected(i)

(***************************************************************************)
(* An invoice holds more money than it was issued for, or any once it is   *)
(* void, only while it is under review, or after a manager reviewed the    *)
(* receipt that overpaid it: no order of checkouts, manual payments, voids *)
(* and webhooks overcharges silently (reconcileCheckout's review,          *)
(* payment_collection_manual_receipt).                                     *)
(***************************************************************************)
OverpaymentKnown ==
    \A i \in Invoices :
        invoices[i].paid > (IF Live(i) THEN invoices[i].base ELSE 0) =>
            \/ invoices[i].review
            \/ \E t \in Transactions : receipts[t] = [state |-> "reviewed", invoice |-> i]

(***************************************************************************)
(* Evidence that could not be applied keeps collection paused: its         *)
(* checkout is still reserved, or the invoice is under review and no       *)
(* manager can clear it (holdCollectionReceipt, invoiceCollectionHold).    *)
(* A second capture of a settled form is left out: until its receipt is    *)
(* applied nothing but the receipt remembers it.                           *)
(***************************************************************************)
HeldEvidence ==
    \A t \in Transactions :
        receipts[t].state = "review" /\ ~Extra(RefOf(t[1]), t) =>
            \/ Unresolved(RefOf(t[1]))
            \/ /\ receipts[t].invoice # NoInvoice
               /\ invoices[receipts[t].invoice].review

(***************************************************************************)
(* What makes TypeOK and OneReservation inductive: a handler in flight     *)
(* knows its checkout, its account and, once answered, a session; a        *)
(* reserved checkout is the estimate's or that of an invoice that exists;  *)
(* and only a reserved checkout is claimed.                                *)
(***************************************************************************)
HandlersKnow ==
    \A r \in Requests :
        /\ requests[r].pc # "idle" => requests[r].ref # None /\ requests[r].account # None
        /\ requests[r].pc \in {"answered", "paid"} => requests[r].session # None
        /\ requests[r].op = "expireCall" => requests[r].session # None
AttemptsPlaced ==
    \A a \in Attempts :
        attempts[a].status # "unused" => attempts[a].onEstimate \/ attempts[a].invoice \in Converted
ClaimsReserved ==
    \A a \in Attempts : collections[a].holder # None => attempts[a].status # "unused"

(***************************************************************************)
(* The abstract promise.  A checkout is reserved while its collection is   *)
(* unresolved; a charge is one the provider has made; a booking is a       *)
(* payments row.                                                           *)
(***************************************************************************)
Fate(a) == IF Unresolved(a) THEN "reserved" ELSE attempts[a].status
ChargesOf(a) == Cardinality({t \in Transactions : RefOf(t[1]) = a /\ Charged(t)})
BookingsOf(a) == Cardinality({t \in Transactions : RefOf(t[1]) = a /\ posted[t] # NoInvoice})

Promise == INSTANCE OrderMoney WITH
    Checkouts <- Attempts,
    checkout <- [a \in Attempts |-> Fate(a)],
    charges  <- [a \in Attempts |-> ChargesOf(a)],
    bookings <- [a \in Attempts |-> BookingsOf(a)]

(***************************************************************************)
(* Stripe collection implements OrderMoney: however claims, lost answers,  *)
(* crashes, reconnected accounts and webhooks interleave, a customer is    *)
(* charged at most once per checkout and only while it is reserved, and    *)
(* the money is booked in the step that closes it.                         *)
(***************************************************************************)
KeepsPromise == Promise!Spec

-----------------------------------------------------------------------------
(***************************************************************************)
(* Fairness.  A handler that waits is answered or fails.  Stripe delivers  *)
(* a completed session's event again until it is acknowledged, and not     *)
(* every delivery fails on its way to the database.                        *)
(***************************************************************************)
Deliver(s) == \E r \in Requests : Paid(sessions[s]) /\ Evidence(r, s, 1)
Reconcile(r) == HoldReceipt(r) \/ RepeatedEvidence(r) \/ ApplyPayment(r)
Settle(s) == \E r \in Requests : requests[r].session = s /\ Reconcile(r)

Fairness ==
    /\ \A r \in Requests : WF_vars(RequestStep(r) \/ ProviderStep(r))
    /\ \A s \in Sessions : SF_vars(Deliver(s)) /\ SF_vars(Settle(s))

LiveSpec == Spec /\ Fairness

(***************************************************************************)
(* Money the provider took is eventually on the books, through crashes,    *)
(* edits and voids; only a quote revised under its own open checkout keeps *)
(* the payment held for the shop (reconcileCheckout).                      *)
(***************************************************************************)
ChargeIsBooked ==
    \A s \in Sessions :
        Paid(sessions[s]) ~>
            \/ posted[<<s, 1>>] # NoInvoice
            \/ attempts[RefOf(s)].onEstimate /\ ~collections[RefOf(s)].fresh

-----------------------------------------------------------------------------
(***************************************************************************)
(* "A manual payment while it remains open instead triggers the durable    *)
(* collection-review hold" (server.mjs, reconcileCheckout): a payment      *)
(* recorded by hand while a checkout of the order is unresolved leaves the *)
(* invoice under review.  The trigger looks at the checkouts of the        *)
(* invoice only, not at the one its estimate still has open: that one      *)
(* keeps a second checkout from opening while it is unresolved, and leaves *)
(* no review behind when it is closed.                                     *)
(***************************************************************************)
ManualPaymentHolds ==
    [][\A i \in Invoices :
        invoices'[i].manual > invoices[i].manual /\ RelatedPending(i) # {}
            => invoices'[i].review]_vars
=============================================================================
