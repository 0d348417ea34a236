---------------------------- MODULE ImportPromises ----------------------------
(* What ImportCheckpoints promises. *)
EXTENDS ImportCheckpoints

(* A shop is deleted only when nothing has its database open: no worker      *)
(* thread, and no import that could still write (lib/tenants.mjs:1076).      *)
DeletedIsFree ==
    \A d \in Databases : deleted[d] =>
        /\ threads[d] = 0
        /\ \A i \in Imports : import[i].db = d => import[i].at \in {"last", "close", "done"}

(* A connection that does not checkpoint by itself has a record that will    *)
(* set it back, and what it sets back to is the shop's own threshold, never  *)
(* the zero of an earlier import.                                            *)
ThresholdOwned ==
    \A d \in Databases : ~auto[d] => Known(d) /\ record[d].enabled /\ record[d].saved

(* An import whose checkpoint got no result, because the worker failed or    *)
(* ended, goes on to its next batch only once the connection checkpoints by  *)
(* itself again: no import fills a log that nobody drains.                   *)
BatchesCovered ==
    [][\A i \in Imports : LET d == import[i].db IN
        (import[i].at = "pass" /\ import'[i].at = "run")
            => auto'[d] \/ (Known(d)' /\ ~record'[d].failed)]_vars

(* While another import has a lease, the last one to finish does not close   *)
(* the worker under it; only the end of the process does.                    *)
NoCloseUnderLease ==
    [][\A d \in Databases : (Known(d) /\ Known(d)' /\ record'[d].leases > 0
                              /\ record'[d].closing /\ ~record[d].closing)
        => Stopping']_vars

(* Whatever the worker does, every import ends, and the end of the process   *)
(* does not wait for ever on a worker or an import.                          *)
EveryImportEnds ==
    /\ \A i \in Imports : (import[i].db # None) ~> (import[i].at = "done")
    /\ \A d \in Databases : (shutdown[d] # "no") ~> (shutdown[d] = "done")

(* A connection checkpoints by itself again in the end, unless setting it    *)
(* back has failed.                                                          *)
ThresholdReturns == \A d \in Databases : ~auto[d] ~> (auto[d] \/ faults > 0)
=============================================================================
