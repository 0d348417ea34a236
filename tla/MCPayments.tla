----------------------------- MODULE MCPayments -----------------------------
(* Small instances of PaymentCollections. *)
EXTENDS PaymentPromises, TLC

(* References, handlers and merchant accounts are drawn, named and compared, *)
(* never ordered or chosen.                                                  *)
Interchangeable ==
    Permutations(Attempts) \cup Permutations(Requests) \cup Permutations(Accounts)
=============================================================================
