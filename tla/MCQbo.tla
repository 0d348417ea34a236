------------------------------- MODULE MCQbo --------------------------------
(* Small instances of QboSync. *)
EXTENDS QboPromises, TLC

(* Shops, payments, companies and managers are named and compared only. *)
Interchangeable ==
    Permutations(Payments) \cup Permutations(Managers) \cup Permutations(Shops)
        \cup Permutations(Companies)
=============================================================================
