-------------------------- MODULE PaymentReversals --------------------------
(***************************************************************************)
(* Refunds of one paid checkout (server.mjs, reconcileReversal, and        *)
(* lib/payment-reversals.mjs), next to the notice of the payment itself    *)
(* and the review that a refund puts its invoice under.                    *)
(*                                                                         *)
(* A notice names a refund and the handler asks the provider what it is    *)
(* now; the answer is applied in one transaction after the last await.     *)
(* Refunds of one id are handled one after the other, refunds of one       *)
(* payment are not.                                                        *)
(***************************************************************************)
EXTENDS Integers, FiniteSetsExt

CONSTANTS
    Refunds,     \* ids of refunds at the provider
    Gateways,    \* "stripe", "authorize_net"
    Amounts,     \* amounts of refunds
    Paid,        \* what the checkout took
    Due,         \* what the invoice asks for
    MaxCrashes

ASSUME ReversalsAssumption ==
    /\ IsFiniteSet(Refunds)
    /\ Gateways \subseteq {"stripe", "authorize_net"}
    /\ Paid \in Nat \ {0} /\ Due \in Nat \ {0} /\ MaxCrashes \in Nat
    /\ Amounts \subseteq 1..Paid

VARIABLES
    gateway,     \* the provider of the checkout
    refunds,     \* external: refunds as the provider has them
    owed,        \* external: refunds with a notice that is not acknowledged
    booked,      \* payments rows of the checkout
    closed,      \* closed_at of its row in payment_collections
    rows,        \* payment_reversals, by provider_id
    returned,    \* by provider_id, the sum of the payments rows "reversal:..."
    review,      \* invoices.payment_review is set
    notified,    \* invoices.paid_notified_at is set
    handlers,    \* reconcileReversalInner in flight
    crashes

books == <<booked, closed, rows, returned>>
invoice == <<review, notified>>
vars == <<gateway, refunds, owed, books, invoice, handlers, crashes>>

Statuses == {"none", "pending", "succeeded", "failed"}

\* got: what the provider answered, "none" while it is asked.
Handlers == [id : Refunds, noticed : BOOLEAN, got : Statuses]

TypeOK ==
    /\ gateway \in Gateways
    /\ refunds \in [Refunds -> [status : Statuses, amount : Amounts \cup {0}]]
    /\ owed \in [Refunds -> BOOLEAN]
    /\ booked \in {0, 1} /\ closed \in BOOLEAN
    /\ rows \in [Refunds -> [status : Statuses, applied : 0..Paid]]
    /\ returned \in [Refunds -> Int]
    /\ review \in BOOLEAN /\ notified \in BOOLEAN
    /\ handlers \subseteq Handlers
    /\ crashes \in 0..MaxCrashes

Init ==
    /\ gateway \in Gateways
    /\ refunds = [id \in Refunds |-> [status |-> "none", amount |-> 0]]
    /\ owed = [id \in Refunds |-> FALSE]
    /\ booked = 0 /\ closed = FALSE
    /\ rows = [id \in Refunds |-> [status |-> "none", applied |-> 0]]
    /\ returned = [id \in Refunds |-> 0]
    /\ review = FALSE /\ notified = FALSE
    /\ handlers = {} /\ crashes = 0

-----------------------------------------------------------------------------
(* The books of the invoice *)

Sum(amount) == MapThenSumSet(LAMBDA id : amount[id], Refunds)

Net == Paid * booked + Sum(returned)
OthersApplied(id) == MapThenSumSet(LAMBDA other : rows[other].applied, Refunds \ {id})

(* What a status moves: Authorize.net takes the money when it is asked to. *)
Applied(status, amount) ==
    IF status = "succeeded" \/ (status = "pending" /\ gateway = "authorize_net")
    THEN amount ELSE 0

(* syncInvoiceStatus: an invoice that is not paid is to be announced again. *)
Synced(latch, net) == latch /\ net >= Due

\* Broken variant: what is under review is announced.
MayAnnounceReviewed(reviewed, net) == net >= Due

(* announceInvoicePaid, once for the latch. *)
MayAnnounce(reviewed, net) == ~reviewed /\ net >= Due

Announced(latch, reviewed, net) == Synced(latch, net) \/ MayAnnounce(reviewed, net)

(* recordStripePayment and completeAttempt: once for a checkout. *)
BookedOnce == 1

-----------------------------------------------------------------------------
(* The notice of a refund *)

\* Broken variant: notices of one refund are handled at once.
Unchained(id) == TRUE

(* reversalInFlight *)
Chained(id) == \A h \in handlers : h.id # id

(* Delivered, delivered again without need, or a manager's recheck. *)
ReversalNotice(id, noticed) ==
    /\ refunds[id].status # "none" /\ (noticed => owed[id])
    /\ Chained(id)
    /\ owed' = [owed EXCEPT ![id] = @ /\ ~noticed]
    /\ handlers' = handlers \cup {[id |-> id, noticed |-> noticed, got |-> "none"]}
    /\ UNCHANGED <<gateway, refunds, books, invoice, crashes>>

(* retrieveStripeRefund, retrieveAuthorizeTransaction *)
RefundRead(h) ==
    /\ h.got = "none"
    /\ handlers' = (handlers \ {h}) \cup {[h EXCEPT !.got = refunds[h.id].status]}
    /\ UNCHANGED <<gateway, refunds, owed, books, invoice, crashes>>

\* Broken variant: a notice that could not be applied is acknowledged too.
RefusedAnyway(h) == UNCHANGED owed

(* Answered 503, so that the notice comes back. *)
Refused(h) == owed' = [owed EXCEPT ![h.id] = @ \/ h.noticed]

\* Broken variant: each change of a refund returns the whole amount.
DeltaWhole(row, target) == 0 - target

Delta(row, target) == row.applied - target

(* recordReversal, and first the payment it refunds if nobody booked it yet. *)
Reverses(id, status, target) ==
    /\ review' = TRUE
    /\ booked' = BookedOnce
    /\ rows' = [rows EXCEPT ![id] = [status |-> status, applied |-> target]]
    /\ returned' = [returned EXCEPT ![id] = @ + Delta(rows[id], target)]
    /\ LET latch == IF booked = 1 THEN notified
                    ELSE Announced(notified, TRUE, Paid + Sum(returned))
       IN  notified' = Synced(latch, Paid * booked' + Sum(returned'))

Fits(id, target) == OthersApplied(id) + target <= Paid

Reverse(h) ==
    LET target == Applied(h.got, refunds[h.id].amount)
        known == rows[h.id] = [status |-> h.got, applied |-> target]
    IN  /\ h.got # "none"
        /\ handlers' = handlers \ {h}
        /\ \/ known /\ UNCHANGED <<owed, booked, rows, returned, invoice>>
           \/ ~known /\ Fits(h.id, target) /\ Reverses(h.id, h.got, target) /\ UNCHANGED owed
           \/ ~known /\ ~Fits(h.id, target) /\ Refused(h)
              /\ UNCHANGED <<booked, rows, returned, invoice>>
        /\ UNCHANGED <<gateway, refunds, closed, crashes>>

CallFails(h) ==
    /\ h.got = "none"
    /\ handlers' = handlers \ {h}
    /\ Refused(h)
    /\ UNCHANGED <<gateway, refunds, books, invoice, crashes>>

-----------------------------------------------------------------------------
(* The notice of the payment, the manager, the process *)

(* reconcileCheckout of the verified payment *)
PaymentEvidence ==
    /\ ~closed
    /\ closed' = TRUE /\ booked' = BookedOnce
    /\ IF booked = 1 THEN UNCHANGED invoice
       ELSE /\ review' = (review \/ Paid > Due)
            /\ notified' = Announced(notified, review', Paid + Sum(returned))
    /\ UNCHANGED <<gateway, refunds, owed, rows, returned, handlers, crashes>>

\* Broken variant: a review may be cleared while money is on its way.
MayClearPending == closed

(* No refund pending, no checkout unresolved. *)
MayClear == closed /\ \A id \in Refunds : rows[id].status # "pending"

ClearReview ==
    /\ review /\ MayClear
    /\ review' = FALSE
    /\ notified' = Announced(notified, FALSE, Net)
    /\ UNCHANGED <<gateway, refunds, owed, books, handlers, crashes>>

Crash ==
    /\ crashes < MaxCrashes /\ handlers # {}
    /\ handlers' = {} /\ crashes' = crashes + 1
    /\ owed' = [id \in Refunds |-> owed[id] \/ \E h \in handlers : h.id = id /\ h.noticed]
    /\ UNCHANGED <<gateway, refunds, books, invoice>>

-----------------------------------------------------------------------------
(* External: the provider, and what the shop asks for in its dashboard there *)

Outstanding == {id \in Refunds : refunds[id].status \in {"pending", "succeeded"}}
Refunded == MapThenSumSet(LAMBDA id : refunds[id].amount, Outstanding)

(* Stripe tells of every change, Authorize.net of the refund being made. *)
Tells(id) == gateway = "stripe" \/ refunds[id].status = "none"

Turns(id, status, amount) ==
    /\ refunds' = [refunds EXCEPT ![id] = [status |-> status, amount |-> amount]]
    /\ owed' = [owed EXCEPT ![id] = @ \/ Tells(id)]
    /\ UNCHANGED <<gateway, books, invoice, handlers, crashes>>

RefundAsked(id, amount, status) ==
    /\ refunds[id].status = "none"
    /\ Refunded + amount <= Paid
    /\ Turns(id, status, amount)

RefundSucceeds(id) ==
    /\ refunds[id].status = "pending"
    /\ Turns(id, "succeeded", refunds[id].amount)

(* At Stripe the bank may still send back what had succeeded. *)
RefundFails(id) ==
    /\ refunds[id].status \in {"pending"} \cup (IF gateway = "stripe" THEN {"succeeded"} ELSE {})
    /\ Turns(id, "failed", refunds[id].amount)

-----------------------------------------------------------------------------
Handle(h) == RefundRead(h) \/ Reverse(h) \/ CallFails(h)

Outside ==
    \E id \in Refunds :
        \/ \E amount \in Amounts, status \in {"pending", "succeeded"} : RefundAsked(id, amount, status)
        \/ RefundSucceeds(id) \/ RefundFails(id)

Next ==
    \/ \E id \in Refunds, noticed \in BOOLEAN : ReversalNotice(id, noticed)
    \/ \E h \in handlers : Handle(h)
    \/ PaymentEvidence \/ ClearReview \/ Crash \/ Outside

Spec == Init /\ [][Next]_vars

(* A notice that is not acknowledged comes back, the provider answers some  *)
(* of the times it is asked, and the payment has a notice of its own.        *)
Fairness ==
    /\ \A id \in Refunds :
        /\ SF_vars(ReversalNotice(id, TRUE))
        /\ SF_vars(\E h \in handlers : h.id = id /\ h.noticed /\ RefundRead(h))
        /\ WF_vars(\E h \in handlers : h.id = id /\ Handle(h))
    /\ WF_vars(PaymentEvidence)

LiveSpec == Spec /\ Fairness
=============================================================================
