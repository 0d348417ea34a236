------------------------------- MODULE MCShop -------------------------------
(* A small instance of ShopPromises: one task to print, and what a manager   *)
(* puts before it.                                                           *)
EXTENDS ShopPromises

MCWorkflows == {<<[stage |-> "production", gate |-> "none"]>>}

MCTaskKinds ==
    {[stage |-> "prepress", gate |-> "preflight"],
     [stage |-> "art_approval", gate |-> "approval"]}
=============================================================================
