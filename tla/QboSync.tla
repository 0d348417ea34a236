------------------------------ MODULE QboSync -------------------------------
(***************************************************************************)
(* The queue that carries invoices and their payments to QuickBooks        *)
(* (server.mjs, enqueueQbo to the queue's routes; lib/quickbooks.mjs): the *)
(* timed sweep, the managers' buttons, one push in flight per invoice, and *)
(* what the shop does to invoices and to the connection meanwhile.         *)
(*                                                                         *)
(* A push is a chain of provider calls; each await is a stage here, and a  *)
(* call takes effect at QuickBooks when it is answered, lost or cut off by *)
(* a crash.  When a push settles, every handler awaiting it goes on before *)
(* anything else runs, so settling and what they write is one step.        *)
(***************************************************************************)
EXTENDS Naturals, Sequences, FiniteSets, SequencesExt

CONSTANTS
    Shops,          \* tenants served by the process
    Numbers,        \* invoice ids: every shop counts from 1
    Payments,       \* payments that may ever be recorded
    Companies,      \* QuickBooks companies a shop may connect
    Managers,       \* handlers of managers in flight at once
    Clicks,         \* queue routes in use: "sync", "retry", "dismiss", "requeue"
    Events,         \* what else happens: "delete", "void", "adjust", "connect",
                    \* "disconnect", "lost" answers
    MaxAttempts,    \* pushes of a row before it is parked (6 in the code)
    MaxRows,        \* rows the queue may ever get
    MaxCrashes,     \* restarts of the process
    Tick,           \* the timed sweep, as a caller of a push
    None            \* absent value

ASSUME BoundsAssumption ==
    MaxAttempts \in Nat \ {0} /\ MaxRows \in Nat /\ MaxCrashes \in Nat
ASSUME ChoicesAssumption ==
    /\ Clicks \subseteq {"sync", "retry", "dismiss", "requeue"}
    /\ Events \subseteq {"delete", "void", "adjust", "connect", "disconnect", "lost"}
ASSUME NamesAssumption ==
    /\ Tick \notin Managers
    /\ None \notin Managers \cup {Tick} \cup Companies \cup Shops \cup (Shops \X Numbers)
    /\ None \notin [op : {"tick", "sync", "retry"}, invoice : Shops \X Numbers,
                    row : Nat, attempts : Nat]

Invoices == Shops \X Numbers
ShopOf(i) == i[1]
Callers == Managers \cup {Tick}
Company == Companies \cup {None}

VARIABLES
    settings,       \* per shop: connected company, remembered one, whose tokens
    customers,      \* per shop: company that issued contacts.qbo_id
    invoices,       \* rows of invoices: void, credited or reversed, qbo_id
    payments,       \* rows of payments
    queue,          \* rows of qbo_sync, oldest first
    bills,          \* invoices QuickBooks holds, per company: 0, 1, more (2)
    receipts,       \* payments QuickBooks holds, per company: 0, 1, more (2)
    cancelled,      \* invoices voided at QuickBooks, with the company
    push,           \* pushes in flight, by the caller that started each
    job,            \* what each caller is waiting for
    tick,           \* the sweep's pass: shop and rows still to take
    callback,       \* per shop: the OAuth callback in flight
    crashes         \* restarts so far

shopData == <<settings, customers, invoices, payments>>
books == <<bills, receipts, cancelled>>
process == <<push, job, tick>>
vars == <<shopData, queue, books, process, callback, crashes>>

-----------------------------------------------------------------------------
(* Rows and their types *)

Settings == [realm : Company, last : Company, token : Company]
Invoice == [void : BOOLEAN, held : BOOLEAN, qbo : Company]

(* A payment not recorded yet, and one that was deleted *)
Unrecorded == [invoice |-> None, online |-> FALSE, qbo |-> None]
Deleted == [invoice |-> None, online |-> TRUE, qbo |-> None]
Payment ==
    [invoice : Invoices, online : BOOLEAN, qbo : Company] \cup {Unrecorded, Deleted}

Open == {"pending", "retrying", "syncing"}
Row == [invoice : Invoices, attempts : 0..MaxAttempts, due : BOOLEAN,
        status : Open \cup {"ok", "failed", "dismissed"}]

Stages == {"customer", "invoice", "payment", "void"}
Push == [invoice : Invoices, realm : Companies, token : Companies, customer : Company,
         id : Company, stage : Stages \cup {"refresh"}, again : BOOLEAN,
         todo : SUBSET Payments, waiting : Seq(Callers)]
Job == [op : {"tick", "sync", "retry"}, invoice : Invoices,
        row : 0..MaxRows, attempts : 0..MaxAttempts]
Idle == [shop |-> None, due |-> {}]

Connected(s) == settings[s].realm # None /\ settings[s].token # None
RecordedOn(i) == {p \in Payments : payments[p].invoice = i}
Unsent(i) == {p \in RecordedOn(i) : payments[p].qbo = None}
RowsOf(i, statuses) == {r \in DOMAIN queue : queue[r].invoice = i /\ queue[r].status \in statuses}
Bump(n) == IF n < MaxAttempts THEN n + 1 ELSE n
More(n) == IF n < 2 THEN n + 1 ELSE n

(* Bound: no step that may add a row starts without a row left for it *)
Room ==
    Len(queue) + Cardinality({m \in Managers : job[m] # None /\ job[m].op = "sync"}) < MaxRows

Init ==
    /\ settings \in [Shops -> {[realm |-> c, last |-> c, token |-> c] : c \in Company}]
    /\ customers = [s \in Shops |-> None]
    /\ invoices = [i \in Invoices |-> [void |-> FALSE, held |-> FALSE, qbo |-> None]]
    /\ payments = [p \in Payments |-> Unrecorded]
    /\ queue = <<>>
    /\ bills = [i \in Invoices |-> [c \in Companies |-> 0]]
    /\ receipts = [p \in Payments |-> [c \in Companies |-> 0]]
    /\ cancelled = {}
    /\ push = [g \in Callers |-> None]
    /\ job = [g \in Callers |-> None]
    /\ tick = Idle
    /\ callback = [s \in Shops |-> None]
    /\ crashes = 0

-----------------------------------------------------------------------------
(* The shop: money, voids, credits *)

(* Queue an invoice, once while a row is open (enqueueQbo) *)
Enqueue(i) ==
    IF settings[ShopOf(i)].realm # None /\ RowsOf(i, Open) = {}
    THEN /\ Room
         /\ queue' = Append(queue, [invoice |-> i, status |-> "pending", attempts |-> 0, due |-> TRUE])
    ELSE UNCHANGED queue

(* A payment by hand, on a live invoice, or by card, which a void one takes too *)
RecordPayment(p, i, online) ==
    /\ payments[p] = Unrecorded
    /\ invoices[i].void => online
    /\ payments' = [payments EXCEPT ![p] = [invoice |-> i, online |-> online, qbo |-> None]]
    /\ Enqueue(i)
    /\ UNCHANGED <<settings, customers, invoices, books, process, callback, crashes>>

(* One already in QuickBooks has to be reversed there first *)
DeletePayment(p) ==
    /\ "delete" \in Events
    /\ payments[p].invoice # None /\ ~payments[p].online
    /\ payments' = [payments EXCEPT ![p] = Deleted]
    /\ IF payments[p].qbo = None
       THEN UNCHANGED <<queue, receipts>>
       ELSE /\ receipts' = [receipts EXCEPT ![p][payments[p].qbo] = 0]
            /\ Enqueue(payments[p].invoice)
    /\ UNCHANGED <<settings, customers, invoices, bills, cancelled, process, callback, crashes>>

Void(i) ==
    /\ "void" \in Events
    /\ ~invoices[i].void /\ RecordedOn(i) = {}
    /\ invoices' = [invoices EXCEPT ![i].void = TRUE]
    /\ IF invoices[i].qbo # None THEN Enqueue(i) ELSE UNCHANGED queue
    /\ UNCHANGED <<settings, customers, payments, books, process, callback, crashes>>

(* A credit or a processor reversal: the books are reconciled by hand from then on *)
Adjust(i) ==
    /\ "adjust" \in Events
    /\ ~invoices[i].held
    /\ invoices' = [invoices EXCEPT ![i].held = TRUE]
    /\ UNCHANGED <<settings, customers, payments, queue, books, process, callback, crashes>>

-----------------------------------------------------------------------------
(* The connection *)

(* The callback reads the remembered company, then exchanges the code *)
StartCallback(s, c) ==
    /\ "connect" \in Events
    /\ callback[s] = None
    /\ LET before == settings[s]
       IN callback' = [callback EXCEPT ![s] =
              [prev |-> IF before.realm # None THEN before.realm ELSE before.last, realm |-> c]]
    /\ UNCHANGED <<shopData, queue, books, process, crashes>>

CallbackFails(s) ==
    /\ callback[s] # None
    /\ callback' = [callback EXCEPT ![s] = None]
    /\ UNCHANGED <<shopData, queue, books, process, crashes>>

NewCompany(s) == callback[s].prev # None /\ callback[s].prev # callback[s].realm
ClearQboMappings(s) ==
    /\ customers' = [customers EXCEPT ![s] = None]
    /\ invoices' = [i \in Invoices |->
           IF ShopOf(i) = s THEN [invoices[i] EXCEPT !.qbo = None] ELSE invoices[i]]
    /\ payments' = [p \in Payments |->
           IF payments[p].invoice # None /\ ShopOf(payments[p].invoice) = s
           THEN [payments[p] EXCEPT !.qbo = None] ELSE payments[p]]

FinishCallback(s) ==
    /\ callback[s] # None
    /\ IF NewCompany(s) THEN ClearQboMappings(s) ELSE UNCHANGED <<customers, invoices, payments>>
    /\ LET c == callback[s].realm
       IN settings' = [settings EXCEPT ![s] = [realm |-> c, last |-> c, token |-> c]]
    /\ callback' = [callback EXCEPT ![s] = None]
    /\ UNCHANGED <<queue, books, process, crashes>>

(* Disconnect forgets the company and its tokens, not which company it was *)
Disconnect(s) ==
    /\ "disconnect" \in Events
    /\ settings[s].realm # None
    /\ settings' = [settings EXCEPT ![s].realm = None, ![s].token = None]
    /\ UNCHANGED <<customers, invoices, payments, queue, books, process, callback, crashes>>

-----------------------------------------------------------------------------
(* What a caller writes when the push it awaits settles: the queues that   *)
(* may come of it.  The sweep and the retry button write their row         *)
(* whatever became of it meanwhile; the sync button looks for an open row. *)

TickWrites(q, j, ok) ==
    LET attempts == Bump(j.attempts)
        parked == attempts = MaxAttempts
    IN [q EXCEPT ![j.row].attempts = attempts,
                 ![j.row].status = IF ok THEN "ok" ELSE IF parked THEN "failed" ELSE "retrying",
                 ![j.row].due = ok \/ parked]

RetryWrites(q, j, ok) ==
    [q EXCEPT ![j.row].attempts = Bump(@),
              ![j.row].status = IF ok THEN "ok" ELSE "retrying",
              ![j.row].due = ok]

SyncWrites(q, j, ok) ==
    LET status == IF ok THEN "ok" ELSE "retrying"
        open == {r \in DOMAIN q : /\ q[r].invoice = j.invoice
                                  /\ q[r].status \in {"pending", "retrying", "failed"}}
    IN IF open = {}
       THEN {Append(q, [invoice |-> j.invoice, status |-> status, attempts |-> 1, due |-> TRUE])}
       ELSE {[q EXCEPT ![r].status = status] : r \in open}

Written(q, j, ok) ==
    CASE j.op = "tick" -> {TickWrites(q, j, ok)}
      [] j.op = "retry" -> {RetryWrites(q, j, ok)}
      [] j.op = "sync" -> SyncWrites(q, j, ok)

(* The push of h is over: its callers go on in the order they joined *)
Settle(h, ok) ==
    /\ queue' \in FoldLeft(LAMBDA qs, g : UNION {Written(q, job[g], ok) : q \in qs},
                           {queue}, push[h].waiting)
    /\ push' = [push EXCEPT ![h] = None]
    /\ job' = [g \in Callers |-> IF g \in ToSet(push[h].waiting) THEN None ELSE job[g]]

-----------------------------------------------------------------------------
(* Starting or joining a push (syncInvoiceToQbo) *)

(* Broken variant: the key forgets the shop *)
KeyById(i) == i[2]
(* The key of a push in flight: the shop and the invoice id *)
Key(i) == i

(* Broken variant: pushes in flight are not looked for *)
NothingRunning(i) == {}
Running(i) == {h \in Callers : push[h] # None /\ Key(push[h].invoice) = Key(i)}

(* Where a push of i begins, or how it ends without a call *)
FirstStep(i) ==
    CASE invoices[i].void /\ RecordedOn(i) # {} -> "failed"
      [] invoices[i].void /\ RecordedOn(i) = {} /\ invoices[i].qbo = None -> "ok"
      [] invoices[i].void /\ RecordedOn(i) = {} /\ invoices[i].qbo # None -> "void"
      [] ~invoices[i].void /\ customers[ShopOf(i)] = None -> "customer"
      [] OTHER -> "invoice"
Opening(i) ==
    IF invoices[i].held \/ ~Connected(ShopOf(i)) THEN "failed" ELSE FirstStep(i)

NewPush(g, i) ==
    [invoice |-> i, realm |-> settings[ShopOf(i)].realm, token |-> settings[ShopOf(i)].token,
     customer |-> customers[ShopOf(i)], id |-> invoices[i].qbo, stage |-> Opening(i),
     again |-> FALSE, todo |-> {}, waiting |-> <<g>>]

(* Caller g asks for the push of i as job j, after leaving the queue as q: *)
(* it joins the one in flight, starts one, or is answered without a call   *)
Request(g, i, j, q) ==
    \/ \E h \in Running(i) :
           /\ push' = [push EXCEPT ![h].waiting = Append(@, g)]
           /\ job' = [job EXCEPT ![g] = j]
           /\ queue' = q
    \/ /\ Running(i) = {} /\ Opening(i) \in Stages
       /\ push' = [push EXCEPT ![g] = NewPush(g, i)]
       /\ job' = [job EXCEPT ![g] = j]
       /\ queue' = q
    \/ /\ Running(i) = {} /\ Opening(i) \in {"ok", "failed"}
       /\ queue' \in Written(q, j, Opening(i) = "ok")
       /\ UNCHANGED <<push, job>>

-----------------------------------------------------------------------------
(* The sweep (processQboQueue): one pass at a time, shop after shop *)

(* Broken variant: rows a dead process left behind are not taken back *)
Abandoned(s) == [r \in DOMAIN queue |-> queue[r]]
(* Rows a dead process left behind; no claim is live when a pass starts *)
Reclaimed(s) ==
    [r \in DOMAIN queue |->
        IF ShopOf(queue[r].invoice) = s /\ queue[r].status = "syncing" /\ queue[r].due
        THEN [queue[r] EXCEPT !.status = "retrying"] ELSE queue[r]]

TickStarts(s) ==
    /\ tick.shop = None
    /\ Connected(s)
    /\ queue' = Reclaimed(s)
    /\ tick' = [shop |-> s,
                due |-> {[row |-> r, attempts |-> queue[r].attempts] :
                           r \in {r \in DOMAIN queue : /\ ShopOf(queue[r].invoice) = s /\ queue[r].due
                                                       /\ queue'[r].status \in {"pending", "retrying"}}}]
    /\ UNCHANGED <<shopData, books, push, job, callback, crashes>>

(* The next row of the pass is claimed, unless it was taken meanwhile *)
TickTakes(d) ==
    /\ \A e \in tick.due : d.row <= e.row
    /\ job[Tick] = None
    /\ tick' = [tick EXCEPT !.due = @ \ {d}]
    /\ IF queue[d.row].status \in {"pending", "retrying"}
       THEN \E i \in Invoices :
                /\ queue[d.row].invoice = i
                /\ Request(Tick, i, [op |-> "tick", invoice |-> i, row |-> d.row, attempts |-> d.attempts],
                           [queue EXCEPT ![d.row].status = "syncing", ![d.row].due = FALSE])
       ELSE UNCHANGED <<queue, push, job>>
    /\ UNCHANGED <<shopData, books, callback, crashes>>

TickEnds ==
    /\ tick.shop # None /\ tick.due = {} /\ job[Tick] = None
    /\ tick' = Idle
    /\ UNCHANGED <<shopData, queue, books, push, job, callback, crashes>>

-----------------------------------------------------------------------------
(* The managers' buttons *)

SyncNow(m, i) ==
    /\ "sync" \in Clicks /\ job[m] = None /\ Room
    /\ Connected(ShopOf(i))
    /\ Request(m, i, [op |-> "sync", invoice |-> i, row |-> 0, attempts |-> 0], queue)
    /\ UNCHANGED <<shopData, books, tick, callback, crashes>>

Retry(m, i, r) ==
    /\ "retry" \in Clicks /\ job[m] = None
    /\ queue[r].invoice = i
    /\ Request(m, i, [op |-> "retry", invoice |-> i, row |-> r, attempts |-> 0], queue)
    /\ UNCHANGED <<shopData, books, tick, callback, crashes>>

Dismiss(r) ==
    /\ "dismiss" \in Clicks
    /\ queue' = [queue EXCEPT ![r].status = "dismissed"]
    /\ UNCHANGED <<shopData, books, process, callback, crashes>>

Requeue(r) ==
    /\ "requeue" \in Clicks
    /\ queue' = [queue EXCEPT ![r].status = "pending", ![r].attempts = 0, ![r].due = TRUE]
    /\ UNCHANGED <<shopData, books, process, callback, crashes>>

-----------------------------------------------------------------------------
(* The calls of a push (syncInvoiceToQboInner) *)

InFlight(h, stage) == push[h] # None /\ push[h].stage = stage

(* The books take a call made with the company's own tokens, and know its ids only *)
Allowed(h) == push[h].token = push[h].realm
Belongs(h) == Allowed(h) /\ push[h].id \in {None, push[h].realm}

(* Broken variant: an invoice that QuickBooks has is created, not updated *)
CreatesAnyway(h) == TRUE
(* An invoice with a saved id is updated in place *)
Creates(h) == push[h].id = None

BillAccepted(h) ==
    /\ InFlight(h, "invoice") /\ Belongs(h) /\ push[h].customer = push[h].realm
    /\ bills' = [bills EXCEPT ![push[h].invoice][push[h].realm] = IF Creates(h) THEN More(@) ELSE @]
    /\ UNCHANGED <<receipts, cancelled>>

ReceiptAccepted(h, p) ==
    /\ InFlight(h, "payment") /\ p \in push[h].todo
    /\ receipts' = [receipts EXCEPT ![p][push[h].realm] = More(@)]
    /\ UNCHANGED <<bills, cancelled>>

VoidAccepted(h) ==
    /\ InFlight(h, "void") /\ Belongs(h)
    /\ cancelled' = cancelled \cup {<<push[h].invoice, push[h].realm>>}
    /\ UNCHANGED <<bills, receipts>>

CustomerAnswered(h) ==
    /\ InFlight(h, "customer") /\ Allowed(h)
    /\ customers' = [customers EXCEPT ![ShopOf(push[h].invoice)] = push[h].realm]
    /\ push' = [push EXCEPT ![h].stage = "invoice", ![h].customer = push[h].realm]
    /\ UNCHANGED <<settings, invoices, payments, queue, books, job>>

(* The id is saved, then the payments QuickBooks has not seen are read *)
InvoiceAnswered(h) ==
    LET i == push[h].invoice
    IN /\ BillAccepted(h)
       /\ invoices' = [invoices EXCEPT ![i].qbo = push[h].realm]
       /\ IF Unsent(i) = {}
          THEN Settle(h, TRUE)
          ELSE /\ push' = [push EXCEPT ![h].stage = "payment", ![h].todo = Unsent(i)]
               /\ UNCHANGED <<queue, job>>
       /\ UNCHANGED <<settings, customers, payments>>

(* The id of a payment is saved if the payment is still there *)
Saved(p, c) ==
    IF payments[p].invoice = None THEN payments ELSE [payments EXCEPT ![p].qbo = c]

PaymentAnswered(h) ==
    \E p \in push[h].todo :
        /\ ReceiptAccepted(h, p)
        /\ payments' = Saved(p, push[h].realm)
        /\ IF push[h].todo = {p}
           THEN Settle(h, TRUE)
           ELSE /\ push' = [push EXCEPT ![h].todo = @ \ {p}]
                /\ UNCHANGED <<queue, job>>
        /\ UNCHANGED <<settings, customers, invoices>>

VoidAnswered(h) ==
    /\ VoidAccepted(h)
    /\ Settle(h, TRUE)
    /\ UNCHANGED shopData

(* The access token is refreshed once; the payment calls' 401 is an error *)
Unauthorized(h) ==
    /\ push[h].stage \in {"customer", "invoice", "void"} /\ ~push[h].again
    /\ push' = [push EXCEPT ![h].stage = "refresh"]
    /\ UNCHANGED <<shopData, queue, books, job>>

(* The new tokens are saved, and the push is run again from its start *)
Refreshed(h) ==
    LET i == push[h].invoice
    IN /\ InFlight(h, "refresh")
       /\ settings' = [settings EXCEPT ![ShopOf(i)].token = push[h].token]
       /\ IF FirstStep(i) \in Stages
          THEN /\ push' = [push EXCEPT ![h].stage = FirstStep(i), ![h].again = TRUE,
                                       ![h].id = invoices[i].qbo,
                                       ![h].customer = customers[ShopOf(i)]]
               /\ UNCHANGED <<queue, job>>
          ELSE Settle(h, FirstStep(i) = "ok")
       /\ UNCHANGED <<customers, invoices, payments, books>>

(* Any call may be refused, time out before it was taken, or fail *)
CallFails(h) ==
    /\ Settle(h, FALSE)
    /\ UNCHANGED <<shopData, books>>

Accepted(h) ==
    \/ BillAccepted(h)
    \/ \E p \in push[h].todo : ReceiptAccepted(h, p)
    \/ VoidAccepted(h)

(* QuickBooks took the call and the answer never came *)
AnswerLost(h) ==
    /\ "lost" \in Events
    /\ Accepted(h)
    /\ Settle(h, FALSE)
    /\ UNCHANGED shopData

Answered(h) ==
    \/ CustomerAnswered(h) \/ InvoiceAnswered(h) \/ PaymentAnswered(h) \/ VoidAnswered(h)
    \/ Unauthorized(h) \/ Refreshed(h)
    \/ CallFails(h) \/ AnswerLost(h)

CallReturns(h) ==
    /\ push[h] # None
    /\ Answered(h)
    /\ UNCHANGED <<tick, callback, crashes>>

-----------------------------------------------------------------------------
(* Time and restarts *)

(* A back-off ends, or a claim has been standing for 15 minutes *)
TimePasses(r) ==
    /\ ~queue[r].due
    /\ queue' = [queue EXCEPT ![r].due = TRUE]
    /\ UNCHANGED <<shopData, books, process, callback, crashes>>

(* The process dies, perhaps after a call it made was taken *)
Crash ==
    /\ crashes < MaxCrashes
    /\ crashes' = crashes + 1
    /\ push' = [g \in Callers |-> None]
    /\ job' = [g \in Callers |-> None]
    /\ tick' = Idle
    /\ callback' = [s \in Shops |-> None]
    /\ \/ UNCHANGED books
       \/ "lost" \in Events /\ \E h \in Callers : push[h] # None /\ Accepted(h)
    /\ UNCHANGED <<shopData, queue>>

-----------------------------------------------------------------------------
Shop ==
    \/ \E p \in Payments, i \in Invoices, online \in BOOLEAN : RecordPayment(p, i, online)
    \/ \E p \in Payments : DeletePayment(p)
    \/ \E i \in Invoices : Void(i) \/ Adjust(i)

Connection ==
    \E s \in Shops :
        \/ \E c \in Companies : StartCallback(s, c)
        \/ CallbackFails(s) \/ FinishCallback(s) \/ Disconnect(s)

Buttons ==
    \/ \E m \in Managers, i \in Invoices : SyncNow(m, i)
    \/ \E m \in Managers, i \in Invoices, r \in DOMAIN queue : Retry(m, i, r)
    \/ \E r \in DOMAIN queue : Dismiss(r) \/ Requeue(r)

Sweep ==
    \/ \E s \in Shops : TickStarts(s)
    \/ \E d \in tick.due : TickTakes(d)
    \/ TickEnds

Next ==
    \/ Shop \/ Connection \/ Buttons \/ Sweep
    \/ \E h \in Callers : CallReturns(h)
    \/ \E r \in DOMAIN queue : TimePasses(r)
    \/ Crash

Spec == Init /\ [][Next]_vars

(***************************************************************************)
(* Every call returns, because the client bounds it by a timeout; the      *)
(* sweep is a timer that visits every shop and finishes its passes; clocks *)
(* advance.  Nothing is assumed of people, of QuickBooks or of crashes.    *)
(***************************************************************************)
Fairness ==
    /\ \A h \in Callers : WF_vars(CallReturns(h))
    /\ \A s \in Shops : SF_vars(TickStarts(s))
    /\ WF_vars(\E d \in tick.due : TickTakes(d))
    /\ WF_vars(TickEnds)
    /\ \A r \in 1..MaxRows : WF_vars(r \in DOMAIN queue /\ TimePasses(r))

LiveSpec == Spec /\ Fairness
=============================================================================
