----------------------------- MODULE QboPromises -----------------------------
(***************************************************************************)
(* What the QuickBooks queue must never get wrong, stated of QboSync.      *)
(***************************************************************************)
EXTENDS QboSync

(* The state is well typed; a payment that is gone carries no QuickBooks   *)
(* id (the UPDATE that saves an id reaches only rows that are still there) *)
TypeOK ==
    /\ settings \in [Shops -> Settings]
    /\ customers \in [Shops -> Company]
    /\ invoices \in [Invoices -> Invoice]
    /\ payments \in [Payments -> Payment]
    /\ queue \in Seq(Row) /\ Len(queue) <= MaxRows
    /\ bills \in [Invoices -> [Companies -> 0..2]]
    /\ receipts \in [Payments -> [Companies -> 0..2]]
    /\ cancelled \subseteq Invoices \X Companies
    /\ push \in [Callers -> Push \cup {None}]
    /\ job \in [Callers -> Job \cup {None}]
    /\ tick.shop \in Shops \cup {None}
    /\ tick.due \subseteq [row : 1..Len(queue), attempts : 0..MaxAttempts]
    /\ callback \in [Shops -> [prev : Company, realm : Companies] \cup {None}]
    /\ crashes \in 0..MaxCrashes

(***************************************************************************)
(* The sweep, the sync button and the retry button may ask for the same    *)
(* invoice at once, across restarts and token refreshes: at most one push  *)
(* of an invoice is in flight (qboInFlight in syncInvoiceToQbo).           *)
(***************************************************************************)
OnePush ==
    \A g, h \in Callers :
        push[g] # None /\ push[h] # None /\ push[g].invoice = push[h].invoice => g = h

(***************************************************************************)
(* QuickBooks holds an invoice once and a payment once, whoever pushes,    *)
(* retries and re-syncs them (the saved ids in syncInvoiceToQboInner), as  *)
(* long as no answer is lost and no other company is connected.            *)
(***************************************************************************)
OneDocument ==
    /\ \A i \in Invoices, c \in Companies : bills[i][c] <= 1
    /\ \A p \in Payments, c \in Companies : receipts[p][c] <= 1

(***************************************************************************)
(* A row becomes "ok" only when its own invoice is in QuickBooks, or is    *)
(* void and never was: not on the strength of another shop's push          *)
(* (the key of qboInFlight).                                               *)
(***************************************************************************)
OkIsOwn ==
    [][\A r \in DOMAIN queue' :
        /\ queue'[r].status = "ok"
        /\ r \in DOMAIN queue => queue[r].status # "ok"
        => invoices'[queue'[r].invoice].qbo # None \/ invoices'[queue'[r].invoice].void]_vars

(***************************************************************************)
(* A row is never left open for ever: while the shop stays connected it is *)
(* settled, parked or dismissed, also after the process died under it      *)
(* (processQboQueue's reclaim, back-off and attempts).                     *)
(***************************************************************************)
QueueDrains ==
    \A r \in 1..MaxRows :
        (r \in DOMAIN queue /\ queue[r].status \in Open)
            ~> (r \in DOMAIN queue /\ (\/ queue[r].status \in {"ok", "failed", "dismissed"}
                                       \/ ~Connected(ShopOf(queue[r].invoice))))
=============================================================================
