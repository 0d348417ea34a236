-------------------------- MODULE ReversalPromises --------------------------
(* What PaymentReversals promises. *)
EXTENDS PaymentReversals

(* The invoice shows what was paid less what is known to be returned, and    *)
(* never less than nothing, whatever order the notices came in.              *)
BooksFollowRefunds ==
    /\ \A id \in Refunds : returned[id] = 0 - rows[id].applied
    /\ Net >= 0

(* While money is known to be on its way back, the shop collects nothing:    *)
(* the invoice is under review.                                              *)
PendingIsReviewed == \A id \in Refunds : rows[id].status = "pending" => review

Later == {<<"none", "pending">>, <<"none", "succeeded">>, <<"none", "failed">>,
          <<"pending", "succeeded">>, <<"pending", "failed">>, <<"succeeded", "failed">>}

(* A late answer never replaces what a later one said of the refund. *)
NoEarlierAnswer ==
    [][\A id \in Refunds : rows'[id].status # rows[id].status =>
          <<rows[id].status, rows'[id].status>> \in Later]_vars

(* invoice.paid is announced of an invoice that is paid and under no review, *)
(* and an invoice that a refund leaves unpaid is announced again when it is  *)
(* paid again.                                                               *)
AnnouncedWhenPaid ==
    /\ [](notified => Net >= Due)
    /\ [][~notified /\ notified' => ~review']_vars

(* Once the provider makes no more changes, the books come to say what it    *)
(* says, the payment that was refunded included: also when a refund had to   *)
(* be refused because an earlier one that failed was still in the books.     *)
(* (Authorize.net does not tell of a refund that fails after it was made.)   *)
Truth ==
    Paid - MapThenSumSet(LAMBDA id : Applied(refunds[id].status, refunds[id].amount), Refunds)
Told == gateway = "stripe" \/ [](\A id \in Refunds : refunds[id].status # "failed")
RefundsSettle == Told => <>[](booked = 1 /\ Net = Truth)
=============================================================================
