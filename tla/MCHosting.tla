------------------------------ MODULE MCHosting ------------------------------
(* Small instances of Hosting. *)
EXTENDS HostingPromises, TLC

(* Handlers are compared, never ordered. *)
Interchangeable == Permutations(Requests)
=============================================================================
