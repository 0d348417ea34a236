--------------------------- MODULE QboSyncProofs ----------------------------
(* Theorems of QboSync, for every value of its constants. *)
EXTENDS QboPromises, Sums, TLAPS

USE NamesAssumption, BoundsAssumption

(* What the steps of a push read and write is well typed.  The queue and   *)
(* the callers' jobs are in Served, further down.                          *)
Shapes ==
    /\ settings \in [Shops -> Settings]
    /\ customers \in [Shops -> Company]
    /\ invoices \in [Invoices -> Invoice]
    /\ payments \in [Payments -> Payment]
    /\ bills \in [Invoices -> [Companies -> 0..2]]
    /\ receipts \in [Payments -> [Companies -> 0..2]]
    /\ push \in [Callers -> Push \cup {None}]
    /\ callback \in [Shops -> [prev : Company, realm : Companies] \cup {None}]

-----------------------------------------------------------------------------
(* The writes of one row keep its type. *)

(* The shop of an invoice is a shop, and the absent value is no invoice. *)
LEMMA InvoiceParts ==
    /\ \A i \in Invoices : ShopOf(i) \in Shops
    /\ None \notin Invoices
  BY DEF Invoices, ShopOf

(* A push goes on as a push, whatever the answer changes of it. *)
LEMMA PushWrites ==
    ASSUME NEW w \in Push
    PROVE  /\ w.invoice \in Invoices /\ w.realm \in Companies /\ w.token \in Companies
           /\ \A g \in Callers : [w EXCEPT !.waiting = Append(@, g)] \in Push
           /\ \A c \in Company : [w EXCEPT !.stage = "invoice", !.customer = c] \in Push
           /\ \A todo \in SUBSET Payments : [w EXCEPT !.stage = "payment", !.todo = todo] \in Push
           /\ \A todo \in SUBSET Payments : [w EXCEPT !.todo = todo] \in Push
           /\ [w EXCEPT !.stage = "refresh"] \in Push
           /\ \A stage \in Stages, id \in Company, c \in Company :
                  [w EXCEPT !.stage = stage, !.again = TRUE, !.id = id, !.customer = c] \in Push
<1>1. \A g \in Callers : Append(w.waiting, g) \in Seq(Callers)
  BY DEF Push
<1>2. \A q \in Seq(Callers) : [w EXCEPT !.waiting = q] \in Push
  BY DEF Push
<1>3. \A g \in Callers : [w EXCEPT !.waiting = Append(@, g)] \in Push
  BY <1>1, <1>2
<1>4. \A c \in Company : [w EXCEPT !.stage = "invoice", !.customer = c] \in Push
  BY DEF Push, Stages
<1>5. \A todo \in SUBSET Payments : [w EXCEPT !.stage = "payment", !.todo = todo] \in Push
  BY DEF Push, Stages
<1>6. /\ [w EXCEPT !.stage = "refresh"] \in Push
      /\ \A todo \in SUBSET Payments : [w EXCEPT !.todo = todo] \in Push
  BY DEF Push
<1>7. \A stage \in Stages, id \in Company, c \in Company :
         [w EXCEPT !.stage = stage, !.again = TRUE, !.id = id, !.customer = c] \in Push
  BY DEF Push
<1>8. w.invoice \in Invoices /\ w.realm \in Companies /\ w.token \in Companies
  BY DEF Push
<1> QED
  BY <1>3, <1>4, <1>5, <1>6, <1>7, <1>8

(* A push that starts is one, of a connected shop. *)
LEMMA NewPushType ==
    ASSUME Shapes, NEW g \in Callers, NEW i \in Invoices, Opening(i) \in Stages
    PROVE  NewPush(g, i) \in Push
<1>1. Connected(ShopOf(i))
  BY DEF Opening, Stages
<1>2. /\ settings[ShopOf(i)].realm \in Companies /\ settings[ShopOf(i)].token \in Companies
      /\ customers[ShopOf(i)] \in Company /\ invoices[i].qbo \in Company
  BY <1>1, InvoiceParts DEF Shapes, Settings, Company, Connected, Invoice
<1>3. <<g>> \in Seq(Callers)
  OBVIOUS
<1> QED
  BY <1>2, <1>3 DEF NewPush, Push

(* A push that settles is over, and no other is touched. *)
LEMMA SettlePush ==
    ASSUME Shapes, NEW h \in Callers, NEW ok, Settle(h, ok)
    PROVE  push' = [push EXCEPT ![h] = None] /\ push' \in [Callers -> Push \cup {None}]
  BY DEF Shapes, Settle

(* Saved ids keep a payment a payment. *)
LEMMA SavedType ==
    ASSUME Shapes, NEW p \in Payments, NEW c \in Company
    PROVE  Saved(p, c) \in [Payments -> Payment]
<1>1. CASE payments[p].invoice = None
  BY <1>1 DEF Shapes, Saved
<1>2. CASE payments[p].invoice # None
  <2>1. payments[p] \in [invoice : Invoices, online : BOOLEAN, qbo : Company]
    BY <1>2 DEF Shapes, Payment, Unrecorded, Deleted
  <2>2. [payments[p] EXCEPT !.qbo = c] \in Payment
    BY <2>1 DEF Payment
  <2> QED
    BY <1>2, <2>2 DEF Shapes, Saved
<1> QED
  BY <1>1, <1>2

-----------------------------------------------------------------------------
(* What a request does to the pushes in flight. *)

(* A caller joins the push in flight, starts one, or touches none. *)
RequestPush(g, i) ==
    \/ \E h \in Running(i) : push' = [push EXCEPT ![h].waiting = Append(@, g)]
    \/ /\ Running(i) = {} /\ Opening(i) \in Stages
       /\ push' = [push EXCEPT ![g] = NewPush(g, i)]
    \/ push' = push

(* That is all a request does to them. *)
LEMMA RequestPushes ==
    ASSUME NEW g \in Callers, NEW i \in Invoices, NEW j, NEW q, Request(g, i, j, q)
    PROVE  RequestPush(g, i)
  BY DEF Request, RequestPush

(* Only SyncNow, Retry and the sweep ask for a push. *)
LEMMA ButtonPushes == 
    ASSUME Buttons \/ Sweep
    PROVE  /\ UNCHANGED <<shopData, books, callback>>
           /\ push' = push \/ \E g \in Callers, i \in Invoices : RequestPush(g, i)
<1>1. ASSUME NEW m \in Managers, NEW i \in Invoices, SyncNow(m, i)
      PROVE  UNCHANGED <<shopData, books, callback>> /\ RequestPush(m, i)
  BY <1>1, RequestPushes DEF SyncNow, Callers
<1>2. ASSUME NEW m \in Managers, NEW i \in Invoices, NEW r \in DOMAIN queue, Retry(m, i, r)
      PROVE  UNCHANGED <<shopData, books, callback>> /\ RequestPush(m, i)
  BY <1>2, RequestPushes DEF Retry, Callers
<1>3. ASSUME NEW r \in DOMAIN queue, Dismiss(r) \/ Requeue(r)
      PROVE  UNCHANGED <<shopData, books, callback, push>>
  BY <1>3 DEF Dismiss, Requeue, process
<1>4. ASSUME NEW s \in Shops, TickStarts(s)
      PROVE  UNCHANGED <<shopData, books, callback, push>>
  BY <1>4 DEF TickStarts
<1>5. ASSUME NEW d \in tick.due, TickTakes(d)
      PROVE  /\ UNCHANGED <<shopData, books, callback>>
             /\ push' = push \/ \E i \in Invoices : RequestPush(Tick, i)
  BY <1>5, RequestPushes DEF TickTakes, Callers
<1>6. ASSUME TickEnds
      PROVE  UNCHANGED <<shopData, books, callback, push>>
  BY <1>6 DEF TickEnds
<1>7. Managers \subseteq Callers /\ Tick \in Callers
  BY DEF Callers
<1> QED
  BY <1>1, <1>2, <1>3, <1>4, <1>5, <1>6, <1>7 DEF Buttons, Sweep

-----------------------------------------------------------------------------
(* Shapes is an invariant. *)

(* The first state is well typed. *)
LEMMA InitShapes == Init => Shapes
<1> SUFFICES ASSUME Init PROVE Shapes
  OBVIOUS
<1>1. settings \in [Shops -> Settings]
  BY DEF Init, Settings, Company
<1>2. invoices \in [Invoices -> Invoice]
  BY DEF Init, Invoice, Company
<1>3. payments \in [Payments -> Payment] 
  BY DEF Init, Payment
<1>4. bills \in [Invoices -> [Companies -> 0..2]] /\ receipts \in [Payments -> [Companies -> 0..2]]
  BY DEF Init
<1> QED
  BY <1>1, <1>2, <1>3, <1>4 DEF Init, Shapes, Company

(* The shop's handlers keep the types. *)
LEMMA ShopShapes ==
    ASSUME Shapes, Shop
    PROVE  Shapes'
<1>1. ASSUME NEW p \in Payments, NEW i \in Invoices, NEW online \in BOOLEAN,
             RecordPayment(p, i, online)
      PROVE  Shapes'
  <2>1. [invoice |-> i, online |-> online, qbo |-> None] \in Payment
    BY DEF Payment, Company
  <2> QED
    BY <1>1, <2>1 DEF RecordPayment, Shapes, books, process
<1>2. ASSUME NEW p \in Payments, DeletePayment(p)
      PROVE  Shapes'
  <2>1. payments' \in [Payments -> Payment]
    BY <1>2 DEF DeletePayment, Shapes, Payment
  <2>2. receipts' \in [Payments -> [Companies -> 0..2]]
    <3>1. \A f \in [Companies -> 0..2], c \in Companies : [f EXCEPT ![c] = 0] \in [Companies -> 0..2]
      OBVIOUS
    <3>2. payments[p].qbo # None => payments[p].qbo \in Companies
      BY DEF Shapes, Payment, Unrecorded, Deleted, Company
    <3>3. receipts \in [Payments -> [Companies -> 0..2]]
      BY DEF Shapes
    <3>4. CASE payments[p].qbo = None
      BY <1>2, <3>3, <3>4 DEF DeletePayment
    <3>5. CASE payments[p].qbo # None
      <4>1. receipts' = [receipts EXCEPT ![p] = [receipts[p] EXCEPT ![payments[p].qbo] = 0]]
        BY <1>2, <3>5 DEF DeletePayment
      <4> QED
        BY <3>1, <3>2, <3>3, <3>5, <4>1
    <3> QED
      BY <3>4, <3>5
  <2> QED
    BY <1>2, <2>1, <2>2 DEF DeletePayment, Shapes, process
<1>3. ASSUME NEW i \in Invoices, Void(i) \/ Adjust(i)
      PROVE  Shapes'
  <2>1. \A row \in Invoice :
            [row EXCEPT !.void = TRUE] \in Invoice /\ [row EXCEPT !.held = TRUE] \in Invoice
    BY DEF Invoice
  <2>2. invoices[i] \in Invoice
    BY DEF Shapes
  <2>3. invoices' \in [Invoices -> Invoice]
    BY <1>3, <2>1, <2>2 DEF Void, Adjust, Shapes
  <2> QED
    BY <1>3, <2>3 DEF Void, Adjust, Shapes, books, process
<1> QED
  BY <1>1, <1>2, <1>3 DEF Shop

(* Connecting and disconnecting keep the types. *)
LEMMA ConnectionShapes ==
    ASSUME Shapes, Connection
    PROVE  Shapes'
<1>1. ASSUME NEW s \in Shops, NEW c \in Companies, StartCallback(s, c)
      PROVE  Shapes'
  <2>1. settings[s].realm \in Company /\ settings[s].last \in Company
    BY DEF Shapes, Settings
  <2> QED
    BY <1>1, <2>1 DEF StartCallback, Shapes, shopData, books, process
<1>2. ASSUME NEW s \in Shops, CallbackFails(s)
      PROVE  Shapes'
  BY <1>2 DEF CallbackFails, Shapes, shopData, books, process
<1>3. ASSUME NEW s \in Shops, FinishCallback(s)
      PROVE  Shapes'
  <2>1. callback[s].realm \in Companies
    BY <1>3 DEF FinishCallback, Shapes
  <2>2. settings' \in [Shops -> Settings]
    BY <1>3, <2>1 DEF FinishCallback, Shapes, Settings, Company
  <2>3. customers' \in [Shops -> Company] /\ callback' \in [Shops -> [prev : Company, realm : Companies] \cup {None}]
    BY <1>3 DEF FinishCallback, ClearQboMappings, Shapes, Company
  <2>4. invoices' \in [Invoices -> Invoice]
    <3>1. \A row \in Invoice : [row EXCEPT !.qbo = None] \in Invoice
      BY DEF Invoice, Company
    <3>2. invoices \in [Invoices -> Invoice]
      BY DEF Shapes
    <3>3. \/ invoices' = invoices
          \/ invoices' = [i \in Invoices |->
                 IF ShopOf(i) = s THEN [invoices[i] EXCEPT !.qbo = None] ELSE invoices[i]]
      BY <1>3 DEF FinishCallback, ClearQboMappings
    <3> QED
      BY <3>1, <3>2, <3>3
  <2>5. payments' \in [Payments -> Payment]
    <3>1. \A row \in Payment : row.invoice # None => [row EXCEPT !.qbo = None] \in Payment
      BY DEF Payment, Unrecorded, Deleted, Company
    <3>2. payments \in [Payments -> Payment]
      BY DEF Shapes
    <3>3. \/ payments' = payments
          \/ payments' = [p \in Payments |->
                 IF payments[p].invoice # None /\ ShopOf(payments[p].invoice) = s
                 THEN [payments[p] EXCEPT !.qbo = None] ELSE payments[p]]
      BY <1>3 DEF FinishCallback, ClearQboMappings
    <3> QED
      BY <3>1, <3>2, <3>3
  <2> QED
    BY <1>3, <2>2, <2>3, <2>4, <2>5 DEF FinishCallback, Shapes, books, process
<1>4. ASSUME NEW s \in Shops, Disconnect(s)
      PROVE  Shapes'
  <2>1. \A row \in Settings : [row EXCEPT !.realm = None, !.token = None] \in Settings
    BY DEF Settings, Company
  <2>2. settings' = [settings EXCEPT ![s] = [settings[s] EXCEPT !.realm = None, !.token = None]]
    BY <1>4 DEF Disconnect, Shapes, Settings
  <2>3. settings' \in [Shops -> Settings]
    BY <2>1, <2>2 DEF Shapes
  <2> QED
    BY <1>4, <2>3 DEF Disconnect, Shapes, books, process
<1> QED
  BY <1>1, <1>2, <1>3, <1>4 DEF Connection

(* The buttons and the sweep keep the types. *)
LEMMA RequestShapes ==
    ASSUME Shapes, Buttons \/ Sweep
    PROVE  Shapes'
<1>1. ASSUME NEW g \in Callers, NEW i \in Invoices, RequestPush(g, i)
      PROVE  push' \in [Callers -> Push \cup {None}]
  <2>1. ASSUME NEW h \in Running(i), push' = [push EXCEPT ![h].waiting = Append(@, g)]
        PROVE  push' \in [Callers -> Push \cup {None}]
    <3>1. h \in Callers /\ push[h] \in Push
      BY DEF Running, Shapes
    <3>2. [push[h] EXCEPT !.waiting = Append(@, g)] \in Push
      BY <3>1, PushWrites
    <3> QED
      BY <2>1, <3>1, <3>2 DEF Shapes
  <2>2. ASSUME Opening(i) \in Stages, push' = [push EXCEPT ![g] = NewPush(g, i)]
        PROVE  push' \in [Callers -> Push \cup {None}]
    BY <2>2, NewPushType DEF Shapes
  <2> QED
    BY <1>1, <2>1, <2>2 DEF RequestPush, Shapes
<1> QED
  BY <1>1, ButtonPushes DEF Shapes, shopData, books

(* What the return of a call does to the pushes: the one that made it is   *)
(* over, or goes on with the same invoice.                                 *)
CallPush(h) ==
    \/ push' = [push EXCEPT ![h] = None]
    \/ \E w \in Push : w.invoice = push[h].invoice /\ push' = [push EXCEPT ![h] = w]

(* That is all any return does to them, and no call turns into another's.  *)
LEMMA CallPushes ==
    ASSUME Shapes, NEW h \in Callers, CallReturns(h)
    PROVE  CallPush(h)
<1>1. push[h] \in Push
  BY DEF CallReturns, Shapes
<1>2. /\ \A c \in Company : [push[h] EXCEPT !.stage = "invoice", !.customer = c].invoice = push[h].invoice
      /\ \A todo : /\ [push[h] EXCEPT !.stage = "payment", !.todo = todo].invoice = push[h].invoice
                   /\ [push[h] EXCEPT !.todo = todo].invoice = push[h].invoice
      /\ [push[h] EXCEPT !.stage = "refresh"].invoice = push[h].invoice
      /\ \A stage, id, c :
            [push[h] EXCEPT !.stage = stage, !.again = TRUE, !.id = id, !.customer = c].invoice = push[h].invoice
  BY <1>1 DEF Push
<1>3. ASSUME CustomerAnswered(h)
      PROVE  CallPush(h)
  <2> DEFINE w == [push[h] EXCEPT !.stage = "invoice", !.customer = push[h].realm]
  <2>1. push' = [push EXCEPT ![h] = w]
    BY <1>1, <1>3 DEF CustomerAnswered, Shapes, Push
  <2>2. w \in Push /\ w.invoice = push[h].invoice
    BY <1>1, <1>2, PushWrites DEF Company
  <2> QED
    BY <2>1, <2>2 DEF CallPush
<1>4. ASSUME InvoiceAnswered(h)
      PROVE  CallPush(h)
  <2> DEFINE i == push[h].invoice
             w == [push[h] EXCEPT !.stage = "payment", !.todo = Unsent(i)]
  <2>1. CASE Unsent(i) = {}
    BY <1>4, <2>1, SettlePush DEF InvoiceAnswered, CallPush
  <2>2. CASE Unsent(i) # {}
    <3>1. push' = [push EXCEPT ![h] = w]
      BY <1>1, <1>4, <2>2 DEF InvoiceAnswered, Shapes, Push
    <3>2. w \in Push /\ w.invoice = push[h].invoice
      BY <1>1, <1>2, PushWrites DEF Unsent, RecordedOn
    <3> QED
      BY <3>1, <3>2 DEF CallPush
  <2> QED
    BY <2>1, <2>2
<1>5. ASSUME PaymentAnswered(h)
      PROVE  CallPush(h)
  <2>1. PICK p \in push[h].todo :
            IF push[h].todo = {p} THEN Settle(h, TRUE)
            ELSE push' = [push EXCEPT ![h].todo = @ \ {p}]
    BY <1>5 DEF PaymentAnswered
  <2> DEFINE w == [push[h] EXCEPT !.todo = push[h].todo \ {p}]
  <2>2. CASE push[h].todo = {p}
    BY <2>1, <2>2, SettlePush DEF CallPush
  <2>3. CASE push[h].todo # {p}
    <3>1. push' = [push EXCEPT ![h] = w]
      BY <1>1, <2>1, <2>3 DEF Shapes, Push
    <3>2. push[h].todo \ {p} \in SUBSET Payments
      BY <1>1 DEF Push
    <3>3. w \in Push /\ w.invoice = push[h].invoice
      BY <1>1, <1>2, <3>2, PushWrites
    <3> QED
      BY <3>1, <3>3 DEF CallPush
  <2> QED
    BY <2>2, <2>3
<1>6. ASSUME Unauthorized(h)
      PROVE  CallPush(h)
  <2> DEFINE w == [push[h] EXCEPT !.stage = "refresh"]
  <2>1. push' = [push EXCEPT ![h] = w]
    BY <1>1, <1>6 DEF Unauthorized, Shapes, Push
  <2>2. w \in Push /\ w.invoice = push[h].invoice
    BY <1>1, <1>2, PushWrites
  <2> QED
    BY <2>1, <2>2 DEF CallPush
<1>7. ASSUME Refreshed(h)
      PROVE  CallPush(h)
  <2> DEFINE i == push[h].invoice
             w == [push[h] EXCEPT !.stage = FirstStep(i), !.again = TRUE,
                                  !.id = invoices[i].qbo, !.customer = customers[ShopOf(i)]]
  <2>1. CASE FirstStep(i) \in Stages
    <3>1. push' = [push EXCEPT ![h] = w]
      BY <1>1, <1>7, <2>1 DEF Refreshed, Shapes, Push
    <3>2. i \in Invoices /\ invoices[i].qbo \in Company /\ customers[ShopOf(i)] \in Company
      BY <1>1, PushWrites, InvoiceParts DEF Shapes, Invoice
    <3>3. \A stage \in Stages, id \in Company, c \in Company :
             [push[h] EXCEPT !.stage = stage, !.again = TRUE, !.id = id, !.customer = c] \in Push
      BY <1>1, PushWrites
    <3>4. w \in Push
      BY <2>1, <3>2, <3>3
    <3>5. w.invoice = push[h].invoice
      BY <1>2
    <3> QED
      BY <3>1, <3>4, <3>5 DEF CallPush
  <2>2. CASE FirstStep(i) \notin Stages
    BY <1>7, <2>2, SettlePush DEF Refreshed, CallPush
  <2> QED
    BY <2>1, <2>2
<1>8. ASSUME VoidAnswered(h) \/ CallFails(h) \/ AnswerLost(h)
      PROVE  CallPush(h)
  BY <1>8, SettlePush DEF VoidAnswered, CallFails, AnswerLost, CallPush
<1> QED
  BY <1>3, <1>4, <1>5, <1>6, <1>7, <1>8 DEF CallReturns, Answered

(* An accepted call leaves the books well typed. *)
LEMMA BooksTypes ==
    ASSUME Shapes, NEW h \in Callers, push[h] # None, Accepted(h)
    PROVE  /\ bills' \in [Invoices -> [Companies -> 0..2]]
           /\ receipts' \in [Payments -> [Companies -> 0..2]]
<1>1. push[h].invoice \in Invoices /\ push[h].realm \in Companies /\ push[h].todo \subseteq Payments
  BY DEF Shapes, Push
<1>2. \A n \in 0..2 : More(n) \in 0..2
  BY DEF More
<1>3. \A f \in [Companies -> 0..2], c \in Companies, n \in 0..2 : [f EXCEPT ![c] = n] \in [Companies -> 0..2]
  OBVIOUS
<1>4. ASSUME BillAccepted(h)
      PROVE  bills' \in [Invoices -> [Companies -> 0..2]]
  <2> DEFINE f == bills[push[h].invoice]
             n == IF Creates(h) THEN More(f[push[h].realm]) ELSE f[push[h].realm]
  <2>1. f \in [Companies -> 0..2] /\ n \in 0..2
    <3>1. f \in [Companies -> 0..2]
      BY <1>1 DEF Shapes
    <3>2. f[push[h].realm] \in 0..2
      BY <1>1, <3>1
    <3> QED
      BY <1>2, <3>1, <3>2
  <2>2. bills' = [bills EXCEPT ![push[h].invoice] = [f EXCEPT ![push[h].realm] = n]]
    BY <1>1, <1>4 DEF BillAccepted, Shapes
  <2>3. [f EXCEPT ![push[h].realm] = n] \in [Companies -> 0..2]
    BY <1>1, <1>3, <2>1
  <2> QED
    BY <2>2, <2>3 DEF Shapes
<1>5. ASSUME NEW p \in push[h].todo, ReceiptAccepted(h, p)
      PROVE  receipts' \in [Payments -> [Companies -> 0..2]]
  <2> DEFINE f == receipts[p]
             n == More(f[push[h].realm])
  <2>1. p \in Payments
    BY <1>1
  <2>2. f \in [Companies -> 0..2]
    BY <2>1 DEF Shapes
  <2>3. n \in 0..2
    BY <1>1, <1>2, <2>2
  <2>4. receipts' = [receipts EXCEPT ![p] = [f EXCEPT ![push[h].realm] = n]]
    BY <1>5 DEF ReceiptAccepted
  <2>5. [f EXCEPT ![push[h].realm] = n] \in [Companies -> 0..2]
    BY <1>1, <1>3, <2>2, <2>3
  <2> QED
    BY <2>4, <2>5 DEF Shapes
<1> QED
  BY <1>4, <1>5 DEF Accepted, BillAccepted, ReceiptAccepted, VoidAccepted, Shapes

(* The answers keep the types. *)
LEMMA CallShapes ==
    ASSUME Shapes, NEW h \in Callers, CallReturns(h)
    PROVE  Shapes'
<1>1. /\ push[h] # None /\ push[h] \in Push /\ push[h].invoice \in Invoices
      /\ push[h].realm \in Companies /\ push[h].token \in Companies
      /\ ShopOf(push[h].invoice) \in Shops
  BY PushWrites, InvoiceParts DEF CallReturns, Shapes
<1>2. push' \in [Callers -> Push \cup {None}]
  BY CallPushes DEF CallPush, Shapes
<1>3. callback' = callback
  BY DEF CallReturns
<1>4. ASSUME CustomerAnswered(h)
      PROVE  Shapes'
  <2>1. customers' \in [Shops -> Company]
    BY <1>1, <1>4 DEF CustomerAnswered, Shapes, Company
  <2> QED
    BY <1>2, <1>3, <1>4, <2>1 DEF CustomerAnswered, Shapes, books
<1>5. ASSUME InvoiceAnswered(h)
      PROVE  Shapes'
  <2>1. \A row \in Invoice, c \in Companies : [row EXCEPT !.qbo = c] \in Invoice
    BY DEF Invoice, Company
  <2>2. invoices' \in [Invoices -> Invoice]
    BY <1>1, <1>5, <2>1 DEF InvoiceAnswered, Shapes
  <2>3. Accepted(h)
    BY <1>5 DEF InvoiceAnswered, Accepted
  <2> QED
    BY <1>1, <1>2, <1>3, <1>5, <2>2, <2>3, BooksTypes DEF InvoiceAnswered, Shapes
<1>6. ASSUME PaymentAnswered(h)
      PROVE  Shapes'
  <2>1. PICK p \in push[h].todo : ReceiptAccepted(h, p) /\ payments' = Saved(p, push[h].realm)
    BY <1>6 DEF PaymentAnswered
  <2>2. p \in Payments
    BY <1>1 DEF Push
  <2>3. payments' \in [Payments -> Payment]
    BY <1>1, <2>1, <2>2, SavedType DEF Company
  <2>4. Accepted(h)
    BY <2>1 DEF Accepted
  <2>5. UNCHANGED <<settings, customers, invoices>>
    BY <1>6 DEF PaymentAnswered
  <2> QED
    BY <1>1, <1>2, <1>3, <2>3, <2>4, <2>5, BooksTypes DEF Shapes
<1>7. ASSUME VoidAnswered(h) \/ AnswerLost(h)
      PROVE  Shapes'
  <2>1. Accepted(h) /\ UNCHANGED shopData
    BY <1>7 DEF VoidAnswered, AnswerLost, Accepted
  <2> QED
    BY <1>1, <1>2, <1>3, <2>1, BooksTypes DEF Shapes, shopData
<1>8. ASSUME Unauthorized(h) \/ CallFails(h)
      PROVE  Shapes'
  BY <1>2, <1>3, <1>8 DEF Unauthorized, CallFails, Shapes, shopData, books
<1>9. ASSUME Refreshed(h)
      PROVE  Shapes'
  <2>1. \A row \in Settings, c \in Companies : [row EXCEPT !.token = c] \in Settings
    BY DEF Settings, Company
  <2>2. settings' = [settings EXCEPT ![ShopOf(push[h].invoice)] =
                         [settings[ShopOf(push[h].invoice)] EXCEPT !.token = push[h].token]]
    BY <1>1, <1>9 DEF Refreshed, Shapes
  <2>3. settings' \in [Shops -> Settings]
    BY <1>1, <2>1, <2>2 DEF Shapes
  <2> QED
    BY <1>2, <1>3, <1>9, <2>3 DEF Refreshed, Shapes, books
<1> QED
  BY <1>4, <1>5, <1>6, <1>7, <1>8, <1>9 DEF CallReturns, Answered

(* Every reachable state is well typed as far as Shapes says. *)
LEMMA ShapesHold == Spec => []Shapes
<1>1. ASSUME Shapes, [Next]_vars
      PROVE  Shapes'
  <2>1. ASSUME NEW r \in DOMAIN queue, TimePasses(r)
        PROVE  Shapes'
    BY <1>1, <2>1 DEF TimePasses, Shapes, shopData, books, process
  <2>2. ASSUME Crash
        PROVE  Shapes'
    <3>1. push' \in [Callers -> Push \cup {None}]
      BY <2>2 DEF Crash
    <3>2. callback' \in [Shops -> [prev : Company, realm : Companies] \cup {None}]
      BY <2>2 DEF Crash
    <3>3. /\ bills' \in [Invoices -> [Companies -> 0..2]]
          /\ receipts' \in [Payments -> [Companies -> 0..2]]
      BY <1>1, <2>2, BooksTypes DEF Crash, Shapes, books
    <3> QED
      BY <1>1, <2>2, <3>1, <3>2, <3>3 DEF Crash, Shapes, shopData
  <2>3. CASE UNCHANGED vars
    BY <1>1, <2>3 DEF vars, Shapes, shopData, books, process
  <2> QED
    BY <1>1, <2>1, <2>2, <2>3, ShopShapes, ConnectionShapes, RequestShapes, CallShapes DEF Next
<1> QED
  BY <1>1, InitShapes, PTL DEF Spec

-----------------------------------------------------------------------------
(* At most one push of an invoice is in flight. *)

(* A request starts a push only when none of its invoice is in flight. *)
LEMMA RequestOnePush ==
    ASSUME Shapes, OnePush, NEW g \in Callers, NEW i \in Invoices, RequestPush(g, i)
    PROVE  OnePush'
<1>1. ASSUME NEW h \in Running(i), push' = [push EXCEPT ![h].waiting = Append(@, g)]
      PROVE  OnePush'
  <2>1. h \in Callers /\ push[h] # None /\ push[h] \in Push
    BY DEF Running, Shapes
  <2>2. push'[h].invoice = push[h].invoice
    BY <1>1, <2>1 DEF Shapes, Push
  <2>3. \A k \in Callers : k # h => push'[k] = push[k]
    BY <1>1, <2>1 DEF Shapes
  <2> QED
    BY <2>1, <2>2, <2>3 DEF OnePush
<1>2. ASSUME Running(i) = {}, push' = [push EXCEPT ![g] = NewPush(g, i)]
      PROVE  OnePush'
  <2>1. push'[g].invoice = i /\ \A k \in Callers : k # g => push'[k] = push[k]
    BY <1>2 DEF Shapes, NewPush
  <2>2. \A k \in Callers : push[k] # None => push[k].invoice # i
    BY <1>2 DEF Running, Key
  <2> QED
    BY <2>1, <2>2 DEF OnePush
<1> QED
  BY <1>1, <1>2 DEF RequestPush, OnePush

(* The return of a call starts none. *)
LEMMA CallOnePush ==
    ASSUME Shapes, OnePush, NEW h \in Callers, CallReturns(h)
    PROVE  OnePush'
<1>1. push[h] # None /\ CallPush(h)
  BY CallPushes DEF CallReturns
<1>2. \A k \in Callers : k # h => push'[k] = push[k]
  BY <1>1 DEF CallPush, Shapes
<1>3. push'[h] = None \/ push'[h].invoice = push[h].invoice
  BY <1>1 DEF CallPush, Shapes
<1> QED
  BY <1>1, <1>2, <1>3 DEF OnePush

(* At most one push of an invoice is in flight, with any number of shops,  *)
(* callers, changes of company, lost answers and restarts (qboInFlight).   *)
THEOREM OnePushHolds == Spec => []OnePush
<1>1. Init => OnePush
  BY DEF Init, OnePush
<1>2. ASSUME Shapes, OnePush, [Next]_vars
      PROVE  OnePush'
  <2>1. ASSUME Shop
        PROVE  push' = push
    BY <2>1 DEF Shop, RecordPayment, DeletePayment, Void, Adjust, process
  <2>2. ASSUME Connection
        PROVE  push' = push
    BY <2>2 DEF Connection, StartCallback, CallbackFails, FinishCallback, Disconnect, process
  <2>3. ASSUME NEW r \in DOMAIN queue, TimePasses(r)
        PROVE  push' = push
    BY <2>3 DEF TimePasses, process
  <2>4. ASSUME Crash
        PROVE  OnePush'
    BY <2>4 DEF Crash, OnePush
  <2>5. ASSUME UNCHANGED vars
        PROVE  push' = push
    BY <2>5 DEF vars, process
  <2>6. push' = push => OnePush'
    BY <1>2 DEF OnePush
  <2> QED
    BY <1>2, <2>1, <2>2, <2>3, <2>4, <2>5, <2>6, ButtonPushes, RequestOnePush, CallOnePush DEF Next
<1> QED
  BY <1>1, <1>2, ShapesHold, PTL DEF Spec

-----------------------------------------------------------------------------
(* While every answer arrives and the shop keeps its company, QuickBooks   *)
(* holds nothing twice.                                                    *)

(* An invoice that QuickBooks holds has its id saved. *)
BillKnown ==
    \A i \in Invoices, c \in Companies :
        bills[i][c] <= 1 /\ (bills[i][c] = 1 => invoices[i].qbo = c)

(* A push that may still create the invoice holds the id that is saved. *)
Ready(h) == push[h] # None /\ push[h].stage \in {"customer", "invoice"}
IdCurrent == \A h \in Callers : Ready(h) => push[h].id = invoices[push[h].invoice].qbo

(* A payment that QuickBooks holds has its id saved, unless it was deleted. *)
ReceiptKnown ==
    \A p \in Payments, c \in Companies :
        /\ receipts[p][c] <= 1
        /\ receipts[p][c] = 1 /\ payments[p] # Deleted => payments[p].qbo # None

(* A payment a push has still to send is of its invoice, or was deleted,   *)
(* and QuickBooks has not seen it.                                         *)
Sending(h) == push[h] # None /\ push[h].stage = "payment"
TodoUnsent ==
    \A h \in Callers : Sending(h) =>
        \A p \in push[h].todo :
            /\ payments[p].qbo = None /\ payments[p] # Unrecorded
            /\ payments[p].invoice \in {None, push[h].invoice}
            /\ \A c \in Companies : receipts[p][c] = 0

(* Two pushes never send the same payment. *)
TodoApart ==
    \A g, h \in Callers : g # h /\ Sending(g) /\ Sending(h) => push[g].todo \cap push[h].todo = {}

(* No change of company is under way. *)
SameCompany == callback = [s \in Shops |-> None]

Documents == BillKnown /\ IdCurrent /\ ReceiptKnown /\ TodoUnsent /\ TodoApart /\ SameCompany

(* A push never starts among the payments. *)
LEMMA FirstSteps ==
    \A i \in Invoices : /\ FirstStep(i) \in {"failed", "ok", "void", "customer", "invoice"}
                        /\ Opening(i) \in {"failed", "ok", "void", "customer", "invoice"}
  BY DEF FirstStep, Opening

(* Documents holds on when nothing it speaks of moves but a push, and that *)
(* push is over, or waits for something else, or knows the id that is saved. *)
LEMMA DocumentsKept ==
    ASSUME Documents, UNCHANGED <<payments, bills, receipts, callback>>,
           \A i \in Invoices : invoices'[i].qbo = invoices[i].qbo,
           \A h \in Callers : push[h] # None => push[h].invoice \in Invoices,
           NEW g \in Callers, \A h \in Callers : h # g => push'[h] = push[h],
           ~Sending(g)',
           Ready(g)' => /\ push'[g].invoice \in Invoices
                        /\ push'[g].id = invoices[push'[g].invoice].qbo
    PROVE  Documents'
<1>1. BillKnown' /\ ReceiptKnown' /\ SameCompany'
  BY DEF Documents, BillKnown, ReceiptKnown, SameCompany
<1>2. IdCurrent'
  BY DEF Documents, IdCurrent, Ready
<1>3. \A h \in Callers : Sending(h)' => h # g /\ Sending(h) /\ push'[h] = push[h]
  BY DEF Sending
<1>4. TodoUnsent'
  BY <1>3 DEF Documents, TodoUnsent
<1>5. TodoApart'
  BY <1>3 DEF Documents, TodoApart
<1> QED
  BY <1>1, <1>2, <1>4, <1>5 DEF Documents

(* Nothing is in QuickBooks at first. *)
LEMMA InitDocuments == Init => Documents
<1> SUFFICES ASSUME Init PROVE Documents
  OBVIOUS
<1>1. BillKnown /\ ReceiptKnown /\ SameCompany
  BY DEF Init, BillKnown, ReceiptKnown, SameCompany
<1>2. IdCurrent /\ TodoUnsent /\ TodoApart
  BY DEF Init, IdCurrent, TodoUnsent, TodoApart, Ready, Sending
<1> QED
  BY <1>1, <1>2 DEF Documents

(* A payment is recorded without an id, and loses it only with its row. *)
LEMMA ShopDocuments ==
    ASSUME Shapes, Documents, Shop
    PROVE  Documents'
<1>1. ASSUME NEW p \in Payments, NEW i \in Invoices, NEW online \in BOOLEAN,
             RecordPayment(p, i, online)
      PROVE  Documents'
  <2>1. /\ UNCHANGED <<invoices, bills, receipts, push, callback>>
        /\ payments[p] = Unrecorded
        /\ payments' = [payments EXCEPT ![p] = [invoice |-> i, online |-> online, qbo |-> None]]
    BY <1>1 DEF RecordPayment, books, process
  <2>2. Unrecorded # Deleted /\ Unrecorded.qbo = None
    BY DEF Unrecorded, Deleted
  <2>3. \A c \in Companies : receipts[p][c] = 0
    BY <2>1, <2>2 DEF Documents, ReceiptKnown, Shapes
  <2>4. \A h \in Callers : Sending(h) => p \notin push[h].todo
    BY <2>1 DEF Documents, TodoUnsent
  <2>5. \A r \in Payments : r # p => payments'[r] = payments[r]
    BY <2>1 DEF Shapes
  <2>6. ReceiptKnown'
    BY <2>1, <2>3, <2>5 DEF Documents, ReceiptKnown
  <2>7. \A h \in Callers : Sending(h) => push[h].todo \subseteq Payments
    BY DEF Sending, Shapes, Push
  <2>8. TodoUnsent'
    BY <2>1, <2>4, <2>5, <2>7 DEF Documents, TodoUnsent, Sending
  <2> QED
    BY <2>1, <2>6, <2>8 DEF Documents, BillKnown, IdCurrent, TodoApart, SameCompany, Ready, Sending
<1>2. ASSUME NEW p \in Payments, DeletePayment(p)
      PROVE  Documents'
  <2>1. /\ UNCHANGED <<invoices, bills, push, callback>>
        /\ payments[p].invoice # None
        /\ payments' = [payments EXCEPT ![p] = Deleted]
    BY <1>2 DEF DeletePayment, process
  <2>2. \A r \in Payments : r # p => payments'[r] = payments[r]
    BY <2>1 DEF Shapes
  <2>3. /\ \A r \in Payments, c \in Companies : receipts'[r][c] = receipts[r][c] \/ receipts'[r][c] = 0
        /\ payments[p].qbo = None => receipts' = receipts
        /\ \A r \in Payments : r # p => receipts'[r] = receipts[r]
    <3>1. CASE payments[p].qbo = None
      BY <1>2, <3>1 DEF DeletePayment
    <3>2. CASE payments[p].qbo # None
      <4>1. payments[p].qbo \in Companies
        BY <3>2 DEF Shapes, Payment, Unrecorded, Deleted, Company
      <4>2. receipts' = [receipts EXCEPT ![p][payments[p].qbo] = 0]
        BY <1>2, <3>2 DEF DeletePayment
      <4> QED
        BY <3>2, <4>1, <4>2 DEF Shapes
    <3> QED
      BY <3>1, <3>2
  <2>4. payments'[p] = Deleted
    BY <2>1 DEF Shapes
  <2>5. ReceiptKnown'
    BY <2>2, <2>3, <2>4 DEF Documents, ReceiptKnown
  <2>6. Deleted.qbo = None /\ Deleted.invoice = None /\ Deleted # Unrecorded
    BY DEF Deleted, Unrecorded
  <2>7. \A h \in Callers : Sending(h) => push[h].todo \subseteq Payments
    BY DEF Sending, Shapes, Push
  <2>8. TodoUnsent'
    <3> SUFFICES ASSUME NEW h \in Callers, Sending(h), NEW r \in push[h].todo
                 PROVE  /\ payments'[r].qbo = None /\ payments'[r] # Unrecorded
                        /\ payments'[r].invoice \in {None, push[h].invoice}
                        /\ \A c \in Companies : receipts'[r][c] = 0
      BY <2>1 DEF TodoUnsent, Sending
    <3>1. /\ payments[r].qbo = None /\ payments[r] # Unrecorded
          /\ payments[r].invoice \in {None, push[h].invoice}
          /\ \A c \in Companies : receipts[r][c] = 0
      BY DEF Documents, TodoUnsent
    <3>2. r \in Payments
      BY <2>7
    <3> QED
      BY <2>2, <2>3, <2>4, <2>6, <3>1, <3>2
  <2> QED
    BY <2>1, <2>5, <2>8 DEF Documents, BillKnown, IdCurrent, TodoApart, SameCompany, Ready, Sending
<1>3. ASSUME NEW i \in Invoices, Void(i) \/ Adjust(i)
      PROVE  Documents'
  <2>1. UNCHANGED <<payments, bills, receipts, push, callback>>
    BY <1>3 DEF Void, Adjust, books, process
  <2>2. \A row \in Invoice : /\ [row EXCEPT !.void = TRUE].qbo = row.qbo
                             /\ [row EXCEPT !.held = TRUE].qbo = row.qbo
    BY DEF Invoice
  <2>3. \A k \in Invoices : invoices'[k].qbo = invoices[k].qbo
    <3>1. invoices[i] \in Invoice
      BY DEF Shapes
    <3>2. \/ invoices' = [invoices EXCEPT ![i] = [invoices[i] EXCEPT !.void = TRUE]]
          \/ invoices' = [invoices EXCEPT ![i] = [invoices[i] EXCEPT !.held = TRUE]]
      BY <1>3 DEF Void, Adjust
    <3>3. /\ [invoices[i] EXCEPT !.void = TRUE].qbo = invoices[i].qbo
          /\ [invoices[i] EXCEPT !.held = TRUE].qbo = invoices[i].qbo
      BY <2>2, <3>1
    <3> QED
      BY <3>2, <3>3 DEF Shapes
  <2>4. \A h \in Callers : push[h] # None => push[h].invoice \in Invoices
    BY DEF Shapes, Push
  <2> QED
    BY <2>1, <2>3, <2>4
    DEF Documents, BillKnown, IdCurrent, ReceiptKnown, TodoUnsent, TodoApart, SameCompany, Ready, Sending
<1> QED
  BY <1>1, <1>2, <1>3 DEF Shop

(* A push starts with the id that is saved, and one that is joined goes on *)
(* as it was.                                                              *)
LEMMA RequestDocuments ==
    ASSUME Shapes, Documents, NEW g \in Callers, NEW i \in Invoices, RequestPush(g, i),
           UNCHANGED <<shopData, books, callback>>
    PROVE  Documents'
<1>1. /\ UNCHANGED <<invoices, payments, bills, receipts, callback>>
      /\ \A h \in Callers : push[h] # None => push[h].invoice \in Invoices
  BY DEF shopData, books, Shapes, Push
<1>2. ASSUME NEW h \in Running(i), push' = [push EXCEPT ![h].waiting = Append(@, g)]
      PROVE  Documents'
  <2>1. h \in Callers /\ push[h] # None /\ push[h] \in Push
    BY DEF Running, Shapes
  <2>2. /\ push'[h].invoice = push[h].invoice /\ push'[h].stage = push[h].stage
        /\ push'[h].id = push[h].id /\ push'[h].todo = push[h].todo
    BY <1>2, <2>1 DEF Shapes, Push
  <2>3. \A k \in Callers : k # h => push'[k] = push[k]
    BY <1>2, <2>1 DEF Shapes
  <2>4. \A k \in Callers : /\ Ready(k)' => Ready(k)
                           /\ Sending(k)' => Sending(k)
                           /\ push'[k] # None => push[k] # None
    BY <2>1, <2>2, <2>3 DEF Ready, Sending
  <2>5. \A k \in Callers : /\ Ready(k) => push'[k].invoice = push[k].invoice /\ push'[k].id = push[k].id
                           /\ Sending(k) => push'[k].invoice = push[k].invoice /\ push'[k].todo = push[k].todo
    BY <2>1, <2>2, <2>3
  <2>6. IdCurrent'
    BY <1>1, <2>4, <2>5 DEF Documents, IdCurrent
  <2>7. TodoUnsent'
    BY <1>1, <2>4, <2>5 DEF Documents, TodoUnsent
  <2>8. TodoApart'
    BY <2>4, <2>5 DEF Documents, TodoApart
  <2> QED
    BY <1>1, <2>6, <2>7, <2>8 DEF Documents, BillKnown, ReceiptKnown, SameCompany
<1>3. ASSUME Opening(i) \in Stages, push' = [push EXCEPT ![g] = NewPush(g, i)]
      PROVE  Documents'
  <2>1. /\ push'[g].invoice = i /\ push'[g].id = invoices[i].qbo /\ push'[g].stage = Opening(i)
        /\ \A k \in Callers : k # g => push'[k] = push[k]
    BY <1>3 DEF Shapes, NewPush
  <2>2. ~Sending(g)'
    BY <2>1, FirstSteps DEF Sending
  <2> QED
    BY <1>1, <2>1, <2>2, DocumentsKept
<1>4. ASSUME push' = push
      PROVE  Documents'
  BY <1>1, <1>4
  DEF Documents, BillKnown, IdCurrent, ReceiptKnown, TodoUnsent, TodoApart, SameCompany, Ready, Sending
<1> QED
  BY <1>2, <1>3, <1>4 DEF RequestPush

(* An invoice is created only when its id is not saved yet, and then it is. *)
LEMMA InvoiceDocuments ==
    ASSUME Shapes, OnePush, Documents, NEW h \in Callers, CallReturns(h), InvoiceAnswered(h)
    PROVE  Documents'
<1> DEFINE i == push[h].invoice
           c == push[h].realm
<1>1. /\ push[h] # None /\ push[h] \in Push /\ i \in Invoices /\ c \in Companies
      /\ push[h].stage = "invoice" /\ push[h].id = invoices[i].qbo
  BY PushWrites DEF CallReturns, Shapes, InvoiceAnswered, BillAccepted, InFlight, Documents, IdCurrent, Ready
<1>2. /\ UNCHANGED <<payments, receipts, callback>>
      /\ invoices' = [invoices EXCEPT ![i].qbo = c]
      /\ bills' = [bills EXCEPT ![i][c] = IF Creates(h) THEN More(@) ELSE @]
      /\ push[h].id \in {None, c}
  BY DEF CallReturns, InvoiceAnswered, BillAccepted, Belongs
<1>3. invoices'[i].qbo = c /\ \A k \in Invoices : k # i => invoices'[k] = invoices[k]
  <2>1. \A row \in Invoice : [row EXCEPT !.qbo = c].qbo = c
    BY DEF Invoice
  <2> QED
    BY <1>1, <1>2, <2>1 DEF Shapes
<1>4. /\ \A k \in Invoices : k # i => bills'[k] = bills[k]
      /\ \A d \in Companies : d # c => bills'[i][d] = bills[i][d]
      /\ bills'[i][c] = IF Creates(h) THEN More(bills[i][c]) ELSE bills[i][c]
  BY <1>1, <1>2 DEF Shapes
<1>5. /\ \A d \in Companies : d # c => bills[i][d] = 0
      /\ bills[i][c] <= 1 /\ Creates(h) => bills[i][c] = 0
      /\ bills[i][c] \in 0..2
  BY <1>1, <1>2 DEF Documents, BillKnown, Creates, Shapes
<1>6. BillKnown'
  <2>1. bills'[i][c] <= 1
    BY <1>1, <1>4, <1>5 DEF More, Documents, BillKnown, Shapes
  <2> QED
    BY <1>1, <1>3, <1>4, <1>5, <2>1 DEF Documents, BillKnown
<1>7. \A k \in Callers : k # h => push'[k] = push[k] /\ (push[k] # None => push[k].invoice # i)
  BY <1>1, CallPushes DEF CallPush, Shapes, OnePush
<1>8. /\ ~Ready(h)'
      /\ Sending(h)' => push'[h].invoice = i /\ push'[h].todo = Unsent(i)
  <2>1. CASE Unsent(i) = {}
    <3>1. Settle(h, TRUE)
      BY <2>1 DEF InvoiceAnswered
    <3>2. push' = [push EXCEPT ![h] = None]
      BY <3>1, SettlePush
    <3> QED
      BY <3>2 DEF Ready, Sending, Shapes
  <2>2. CASE Unsent(i) # {}
    <3>1. push' = [push EXCEPT ![h].stage = "payment", ![h].todo = Unsent(i)]
      BY <2>2 DEF InvoiceAnswered
    <3>2. push'[h].stage = "payment" /\ push'[h].todo = Unsent(i) /\ push'[h].invoice = i
      BY <1>1, <3>1 DEF Shapes, Push
    <3> QED
      BY <3>2 DEF Ready
  <2> QED
    BY <2>1, <2>2
<1>9. IdCurrent'
  <2> SUFFICES ASSUME NEW k \in Callers, Ready(k)'
               PROVE  push'[k].id = invoices'[push'[k].invoice].qbo
    BY DEF IdCurrent
  <2>1. k # h /\ push'[k] = push[k] /\ Ready(k) /\ push[k].invoice # i
    BY <1>7, <1>8 DEF Ready
  <2>2. push[k].invoice \in Invoices
    BY <2>1 DEF Ready, Shapes, Push
  <2> QED
    BY <1>3, <2>1, <2>2 DEF Documents, IdCurrent
<1>10. \A p \in Unsent(i) : /\ p \in Payments /\ payments[p].invoice = i /\ payments[p].qbo = None
                            /\ payments[p] # Unrecorded /\ payments[p] # Deleted
  BY <1>1, InvoiceParts DEF Unsent, RecordedOn, Unrecorded, Deleted
<1>11. \A p \in Unsent(i), d \in Companies : receipts[p][d] = 0
  BY <1>10 DEF Documents, ReceiptKnown, Shapes
<1>12. TodoUnsent'
  <2> SUFFICES ASSUME NEW k \in Callers, Sending(k)', NEW p \in push'[k].todo
               PROVE  /\ payments[p].qbo = None /\ payments[p] # Unrecorded
                      /\ payments[p].invoice \in {None, push'[k].invoice}
                      /\ \A d \in Companies : receipts[p][d] = 0
    BY <1>2 DEF TodoUnsent
  <2>1. CASE k = h
    BY <1>8, <1>10, <1>11, <2>1
  <2>2. CASE k # h
    BY <1>7, <2>2 DEF Documents, TodoUnsent, Sending
  <2> QED
    BY <2>1, <2>2
<1>13. TodoApart'
  <2>1. ASSUME NEW k \in Callers, k # h, Sending(k)', Sending(h)'
        PROVE  push'[k].todo \cap push'[h].todo = {}
    <3>1. push'[k] = push[k] /\ Sending(k) /\ push[k].invoice # i
      BY <1>7, <2>1 DEF Sending
    <3>2. \A p \in push[k].todo : payments[p].invoice \in {None, push[k].invoice}
      BY <3>1 DEF Documents, TodoUnsent
    <3>3. \A p \in push[k].todo : payments[p].invoice # i
      BY <1>1, <3>1, <3>2, InvoiceParts
    <3> QED
      BY <1>8, <1>10, <2>1, <3>1, <3>3
  <2>2. ASSUME NEW g \in Callers, NEW k \in Callers, g # k, g # h, k # h, Sending(g)', Sending(k)'
        PROVE  push'[g].todo \cap push'[k].todo = {}
    BY <1>7, <2>2 DEF Documents, TodoApart, Sending
  <2> QED
    BY <2>1, <2>2 DEF TodoApart
<1> QED
  BY <1>2, <1>6, <1>9, <1>12, <1>13 DEF Documents, ReceiptKnown, SameCompany

(* A payment is sent once, and its id is saved unless it was deleted. *)
LEMMA PaymentDocuments ==
    ASSUME Shapes, OnePush, Documents, NEW h \in Callers, CallReturns(h), PaymentAnswered(h)
    PROVE  Documents'
<1> DEFINE c == push[h].realm
<1>1. PICK p \in push[h].todo :
          /\ ReceiptAccepted(h, p)
          /\ payments' = Saved(p, c)
          /\ IF push[h].todo = {p} THEN Settle(h, TRUE)
             ELSE push' = [push EXCEPT ![h].todo = @ \ {p}]
  BY DEF PaymentAnswered
<1>2. /\ push[h] # None /\ push[h] \in Push /\ c \in Companies /\ p \in Payments
      /\ Sending(h)
  <2>1. push[h] # None /\ push[h] \in Push
    BY DEF CallReturns, Shapes
  <2>2. c \in Companies /\ push[h].todo \subseteq Payments
    BY <2>1 DEF Push
  <2>3. Sending(h)
    BY <1>1 DEF ReceiptAccepted, InFlight, Sending
  <2> QED
    BY <2>1, <2>2, <2>3
<1>3. /\ payments[p].qbo = None /\ payments[p] # Unrecorded
      /\ \A d \in Companies : receipts[p][d] = 0
  BY <1>1, <1>2 DEF Documents, TodoUnsent
<1>4. /\ receipts'[p][c] = 1 /\ \A d \in Companies : d # c => receipts'[p][d] = 0
      /\ \A r \in Payments : r # p => receipts'[r] = receipts[r]
      /\ UNCHANGED <<bills, invoices, callback>>
  <2>1. receipts' = [receipts EXCEPT ![p][c] = More(@)] /\ More(0) = 1
    BY <1>1 DEF ReceiptAccepted, More
  <2>2. UNCHANGED <<bills, invoices, callback>>
    BY <1>1 DEF ReceiptAccepted, PaymentAnswered, CallReturns
  <2> QED
    BY <1>2, <1>3, <2>1, <2>2 DEF Shapes
<1>5. /\ \A r \in Payments : r # p => payments'[r] = payments[r]
      /\ payments[p] = Deleted => payments'[p] = Deleted
      /\ payments[p] # Deleted => payments'[p].qbo = c
  <2>1. CASE payments[p] = Deleted
    BY <1>1, <2>1 DEF Saved, Deleted
  <2>2. CASE payments[p] # Deleted
    <3>1. payments[p] \in [invoice : Invoices, online : BOOLEAN, qbo : Company]
      BY <1>2, <1>3, <2>2 DEF Shapes, Payment
    <3>2. payments[p].invoice # None
      BY <3>1, InvoiceParts
    <3>3. payments' = [payments EXCEPT ![p].qbo = c]
      BY <1>1, <3>2 DEF Saved
    <3>4. [payments[p] EXCEPT !.qbo = c].qbo = c
      BY <3>1
    <3> QED
      BY <1>2, <2>2, <3>3, <3>4 DEF Shapes
  <2> QED
    BY <2>1, <2>2
<1>6. ReceiptKnown'
  <2>1. c # None
    BY <1>2
  <2> SUFFICES ASSUME NEW r \in Payments, NEW d \in Companies
               PROVE  /\ receipts'[r][d] <= 1
                      /\ receipts'[r][d] = 1 /\ payments'[r] # Deleted => payments'[r].qbo # None
    BY DEF ReceiptKnown
  <2>2. CASE r = p
    BY <1>4, <1>5, <2>1, <2>2
  <2>3. CASE r # p
    BY <1>4, <1>5, <2>3 DEF Documents, ReceiptKnown
  <2> QED
    BY <2>2, <2>3
<1>7. /\ \A k \in Callers : k # h => push'[k] = push[k]
      /\ ~Ready(h)'
      /\ Sending(h)' => push'[h].invoice = push[h].invoice /\ push'[h].todo = push[h].todo \ {p}
  <2>1. CASE push[h].todo = {p}
    <3>1. push' = [push EXCEPT ![h] = None]
      BY <1>1, <2>1, SettlePush
    <3> QED
      BY <3>1 DEF Ready, Sending, Shapes
  <2>2. CASE push[h].todo # {p}
    <3>1. push' = [push EXCEPT ![h].todo = @ \ {p}]
      BY <1>1, <2>2
    <3>2. /\ \A k \in Callers : k # h => push'[k] = push[k]
          /\ push'[h].stage = push[h].stage
          /\ push'[h].invoice = push[h].invoice /\ push'[h].todo = push[h].todo \ {p}
      BY <1>2, <3>1 DEF Shapes, Push
    <3> QED
      BY <1>2, <3>2 DEF Ready, Sending
  <2> QED
    BY <2>1, <2>2
<1>8. IdCurrent'
  BY <1>4, <1>7 DEF Documents, IdCurrent, Ready
<1>9. \A k \in Callers : Sending(k)' => /\ Sending(k) /\ push'[k].invoice = push[k].invoice
                                        /\ push'[k].todo \subseteq push[k].todo /\ p \notin push'[k].todo
                                        /\ push[k].todo \subseteq Payments
  <2> SUFFICES ASSUME NEW k \in Callers, Sending(k)'
               PROVE  /\ Sending(k) /\ push'[k].invoice = push[k].invoice
                      /\ push'[k].todo \subseteq push[k].todo /\ p \notin push'[k].todo
                      /\ push[k].todo \subseteq Payments
    OBVIOUS
  <2>1. Sending(k) /\ push[k].todo \subseteq Payments
    BY <1>2, <1>7 DEF Sending, Shapes, Push
  <2>2. CASE k = h
    BY <1>7, <2>1, <2>2
  <2>3. CASE k # h
    BY <1>1, <1>2, <1>7, <2>1, <2>3 DEF Documents, TodoApart
  <2> QED
    BY <2>1, <2>2, <2>3
<1>10. TodoUnsent'
  <2> SUFFICES ASSUME NEW k \in Callers, Sending(k)', NEW r \in push'[k].todo
               PROVE  /\ payments'[r].qbo = None /\ payments'[r] # Unrecorded
                      /\ payments'[r].invoice \in {None, push'[k].invoice}
                      /\ \A d \in Companies : receipts'[r][d] = 0
    BY DEF TodoUnsent
  <2>1. r # p /\ r \in Payments /\ Sending(k) /\ r \in push[k].todo /\ push'[k].invoice = push[k].invoice
    BY <1>9
  <2>2. /\ payments[r].qbo = None /\ payments[r] # Unrecorded
        /\ payments[r].invoice \in {None, push[k].invoice}
        /\ \A d \in Companies : receipts[r][d] = 0
    BY <2>1 DEF Documents, TodoUnsent
  <2> QED
    BY <1>4, <1>5, <2>1, <2>2
<1>11. TodoApart'
  BY <1>9 DEF Documents, TodoApart
<1> QED
  BY <1>4, <1>6, <1>8, <1>10, <1>11 DEF Documents, BillKnown, SameCompany

(* The other answers send and save nothing that Documents speaks of. *)
LEMMA CallDocuments ==
    ASSUME Shapes, OnePush, Documents, "lost" \notin Events, NEW h \in Callers, CallReturns(h)
    PROVE  Documents'
<1>1. /\ push[h] # None /\ push[h] \in Push /\ push[h].invoice \in Invoices
      /\ callback' = callback
      /\ \A k \in Callers : push[k] # None => push[k].invoice \in Invoices
  BY PushWrites DEF CallReturns, Shapes
<1>2. \A k \in Callers : k # h => push'[k] = push[k]
  BY CallPushes DEF CallPush, Shapes
<1>3. ASSUME CustomerAnswered(h)
      PROVE  Documents'
  <2>1. /\ UNCHANGED <<invoices, payments, bills, receipts>>
        /\ push[h].stage = "customer"
        /\ push' = [push EXCEPT ![h].stage = "invoice", ![h].customer = push[h].realm]
    BY <1>3 DEF CustomerAnswered, InFlight, books
  <2>2. /\ push'[h].stage = "invoice" /\ push'[h].id = push[h].id
        /\ push'[h].invoice = push[h].invoice
    BY <1>1, <2>1 DEF Shapes, Push
  <2>3. ~Sending(h)' /\ Ready(h)
    BY <1>1, <2>1, <2>2 DEF Sending, Ready
  <2>4. push'[h].id = invoices[push'[h].invoice].qbo
    BY <2>2, <2>3 DEF Documents, IdCurrent
  <2> QED
    BY <1>1, <1>2, <2>1, <2>2, <2>3, <2>4, DocumentsKept
<1>4. ASSUME push' = [push EXCEPT ![h] = None], UNCHANGED <<invoices, payments, bills, receipts>>
      PROVE  Documents'
  <2>1. ~Sending(h)' /\ ~Ready(h)'
    BY <1>4 DEF Sending, Ready, Shapes
  <2> QED
    BY <1>1, <1>2, <1>4, <2>1, DocumentsKept
<1>5. ASSUME VoidAnswered(h) \/ CallFails(h)
      PROVE  Documents'
  <2>1. push' = [push EXCEPT ![h] = None]
    BY <1>5, SettlePush DEF VoidAnswered, CallFails
  <2>2. UNCHANGED <<invoices, payments, bills, receipts>>
    BY <1>5 DEF VoidAnswered, VoidAccepted, CallFails, shopData, books
  <2> QED
    BY <1>4, <2>1, <2>2
<1>6. ASSUME Unauthorized(h)
      PROVE  Documents'
  <2>1. /\ UNCHANGED <<invoices, payments, bills, receipts>>
        /\ push' = [push EXCEPT ![h].stage = "refresh"]
    BY <1>6 DEF Unauthorized, shopData, books
  <2>2. push'[h].stage = "refresh"
    BY <1>1, <2>1 DEF Shapes, Push
  <2>3. ~Sending(h)' /\ ~Ready(h)'
    BY <2>2 DEF Sending, Ready
  <2> QED
    BY <1>1, <1>2, <2>1, <2>3, DocumentsKept
<1>7. ASSUME Refreshed(h)
      PROVE  Documents'
  <2> DEFINE i == push[h].invoice
  <2>1. UNCHANGED <<invoices, payments, bills, receipts>>
    BY <1>7 DEF Refreshed, books
  <2>2. CASE FirstStep(i) \in Stages
    <3>1. push' = [push EXCEPT ![h].stage = FirstStep(i), ![h].again = TRUE,
                               ![h].id = invoices[i].qbo, ![h].customer = customers[ShopOf(i)]]
      BY <1>7, <2>2 DEF Refreshed
    <3>2. push'[h].stage = FirstStep(i) /\ push'[h].id = invoices[i].qbo /\ push'[h].invoice = i
      BY <1>1, <3>1 DEF Shapes, Push
    <3>3. ~Sending(h)'
      BY <1>1, <3>2, FirstSteps DEF Sending
    <3> QED
      BY <1>1, <1>2, <2>1, <3>2, <3>3, DocumentsKept
  <2>3. CASE FirstStep(i) \notin Stages
    <3>1. push' = [push EXCEPT ![h] = None]
      BY <1>7, <2>3, SettlePush DEF Refreshed
    <3> QED
      BY <1>4, <2>1, <3>1
  <2> QED
    BY <2>2, <2>3
<1> QED
  BY <1>3, <1>5, <1>6, <1>7, InvoiceDocuments, PaymentDocuments
  DEF CallReturns, Answered, AnswerLost

(* Without a change of company, nobody's ids are cleared. *)
LEMMA ConnectionDocuments ==
    ASSUME Shapes, Documents, "connect" \notin Events, Connection
    PROVE  Documents'
<1>1. ~(\E s \in Shops, c \in Companies : StartCallback(s, c))
  BY DEF StartCallback
<1>2. ~(\E s \in Shops : CallbackFails(s) \/ FinishCallback(s))
  BY DEF CallbackFails, FinishCallback, Documents, SameCompany
<1>3. PICK s \in Shops : Disconnect(s)
  BY <1>1, <1>2 DEF Connection
<1>4. UNCHANGED <<invoices, payments, bills, receipts, push, callback>>
  BY <1>3 DEF Disconnect, books, process
<1> QED
  BY <1>4
  DEF Documents, BillKnown, IdCurrent, ReceiptKnown, TodoUnsent, TodoApart, SameCompany, Ready, Sending

(***************************************************************************)
(* QuickBooks holds every invoice and every payment once at most, with any *)
(* number of shops, callers, retries, token refreshes and restarts, as     *)
(* long as every answer arrives and no shop connects another company: a    *)
(* create whose answer is lost is created again by the next push.          *)
(***************************************************************************)
THEOREM OneDocumentHolds ==
    ASSUME "lost" \notin Events, "connect" \notin Events
    PROVE  Spec => []OneDocument
<1>1. ASSUME Shapes, OnePush, Documents, [Next]_vars
      PROVE  Documents'
  <2>1. ASSUME Buttons \/ Sweep
        PROVE  Documents'
    <3>1. CASE push' = push
      <4>1. UNCHANGED <<invoices, payments, bills, receipts, push, callback>>
        BY <2>1, <3>1, ButtonPushes DEF shopData, books
      <4> QED
        BY <1>1, <4>1
        DEF Documents, BillKnown, IdCurrent, ReceiptKnown, TodoUnsent, TodoApart, SameCompany, Ready, Sending
    <3>2. CASE push' # push
      BY <1>1, <2>1, <3>2, ButtonPushes, RequestDocuments
    <3> QED
      BY <3>1, <3>2
  <2>2. ASSUME NEW r \in DOMAIN queue, TimePasses(r)
        PROVE  UNCHANGED <<invoices, payments, bills, receipts, push, callback>>
    BY <2>2 DEF TimePasses, shopData, books, process
  <2>3. ASSUME Crash
        PROVE  Documents'
    <3>1. /\ UNCHANGED <<invoices, payments, bills, receipts>>
          /\ \A h \in Callers : push'[h] = None
          /\ callback' = [s \in Shops |-> None]
      BY <2>3 DEF Crash, shopData, books
    <3>2. IdCurrent' /\ TodoUnsent' /\ TodoApart'
      BY <3>1 DEF IdCurrent, TodoUnsent, TodoApart, Ready, Sending
    <3> QED
      BY <1>1, <3>1, <3>2 DEF Documents, BillKnown, ReceiptKnown, SameCompany
  <2>4. ASSUME UNCHANGED vars
        PROVE  UNCHANGED <<invoices, payments, bills, receipts, push, callback>>
    BY <2>4 DEF vars, shopData, books, process
  <2>5. ASSUME UNCHANGED <<invoices, payments, bills, receipts, push, callback>>
        PROVE  Documents'
    BY <1>1, <2>5
    DEF Documents, BillKnown, IdCurrent, ReceiptKnown, TodoUnsent, TodoApart, SameCompany, Ready, Sending
  <2> QED
    BY <1>1, <2>1, <2>2, <2>3, <2>4, <2>5, ShopDocuments, ConnectionDocuments, CallDocuments DEF Next
<1>2. Documents => OneDocument
  BY DEF Documents, BillKnown, ReceiptKnown, OneDocument
<1> QED
  BY <1>1, <1>2, InitDocuments, ShapesHold, OnePushHolds, PTL DEF Spec

-----------------------------------------------------------------------------
(***************************************************************************)
(* The rows.  A caller writes only rows of the invoice that its job is for, *)
(* so after all of those that await one push have written, the rows that   *)
(* became "ok" are of the push's invoice.                                  *)
(***************************************************************************)

Jobs == [op : {"tick", "sync", "retry"}, invoice : Invoices, row : Nat, attempts : 0..MaxAttempts]

(* A job of invoice i that can be written to the queue q. *)
Fits(j, q, i) ==
    /\ j \in Jobs /\ j.invoice = i
    /\ j.op # "sync" => j.row \in DOMAIN q /\ q[j.row].invoice = i

(* From q to p, rows are added and none changes hands, and only rows of    *)
(* the invoices in own become ok.                                          *)
Wrote(q, p, own) ==
    /\ p \in Seq(Row) /\ DOMAIN q \subseteq DOMAIN p
    /\ \A r \in DOMAIN q : p[r].invoice = q[r].invoice
    /\ \A r \in DOMAIN p :
           p[r].status = "ok" /\ (r \in DOMAIN q => q[r].status # "ok") => p[r].invoice \in own

(* Nothing is written, *)
LEMMA WroteNothing ==
    ASSUME NEW q \in Seq(Row), NEW own
    PROVE  Wrote(q, q, own)
  BY DEF Wrote

(* or one after the other, *)
LEMMA WroteBoth ==
    ASSUME NEW q, NEW p, NEW o, NEW some, NEW own, Wrote(q, p, some), Wrote(p, o, own),
           some \subseteq own
    PROVE  Wrote(q, o, own)
  BY DEF Wrote

(* which spoils no job, *)
LEMMA FitsStill ==
    ASSUME NEW j, NEW q, NEW p, NEW i, NEW own, Fits(j, q, i), Wrote(q, p, own)
    PROVE  Fits(j, p, i)
  BY DEF Fits, Wrote

(* or a row is written, *)
LEMMA RowWritten ==
    ASSUME NEW q \in Seq(Row), NEW r \in DOMAIN q, NEW row \in Row, NEW own,
           row.invoice = q[r].invoice,
           row.status = "ok" => q[r].status = "ok" \/ row.invoice \in own
    PROVE  Wrote(q, [q EXCEPT ![r] = row], own)
<1> DEFINE p == [q EXCEPT ![r] = row]
<1>1. p \in Seq(Row) /\ DOMAIN p = DOMAIN q /\ p[r] = row /\ \A s \in DOMAIN q \ {r} : p[s] = q[s]
  OBVIOUS
<1> HIDE DEF p
<1>2. Wrote(q, p, own)
  BY <1>1 DEF Wrote
<1> QED
  BY <1>2 DEF p

(* or one is added. *)
LEMMA RowAdded ==
    ASSUME NEW q \in Seq(Row), NEW row \in Row, NEW own, row.status = "ok" => row.invoice \in own
    PROVE  Wrote(q, Append(q, row), own)
<1>1. PICK p : p = Append(q, row)
  OBVIOUS
<1>2. /\ p \in Seq(Row) /\ DOMAIN q \subseteq DOMAIN p
      /\ \A r \in DOMAIN q : p[r] = q[r]
      /\ \A r \in DOMAIN p : r \in DOMAIN q \/ p[r] = row
  BY <1>1
<1>3. Wrote(q, p, own)
  BY <1>2 DEF Wrote
<1> QED
  BY <1>1, <1>3

LEMMA BumpType ==
    ASSUME NEW n \in 0..MaxAttempts
    PROVE  Bump(n) \in 0..MaxAttempts
  BY DEF Bump

(* What one caller writes. *)
LEMMA WrittenOwn ==
    ASSUME NEW q \in Seq(Row), NEW i \in Invoices, NEW j, Fits(j, q, i), NEW ok \in BOOLEAN,
           NEW own, ok => i \in own, NEW p \in Written(q, j, ok)
    PROVE  Wrote(q, p, own)
<1>1. CASE j.op = "tick"
  <2>1. PICK r \in DOMAIN q : r = j.row /\ q[r].invoice = i
    BY <1>1 DEF Fits
  <2>2. q[r] \in Row
    OBVIOUS
  <2>3. PICK row : row = [q[r] EXCEPT !.attempts = Bump(j.attempts),
            !.status = IF ok THEN "ok" ELSE IF Bump(j.attempts) = MaxAttempts THEN "failed" ELSE "retrying",
            !.due = ok \/ Bump(j.attempts) = MaxAttempts]
    OBVIOUS
  <2>4. row \in Row /\ row.invoice = i /\ (row.status = "ok" => ok)
    <3>1. Bump(j.attempts) \in 0..MaxAttempts
      BY BumpType DEF Fits, Jobs
    <3>2. (ok \/ Bump(j.attempts) = MaxAttempts) \in BOOLEAN
      OBVIOUS
    <3> QED
      BY <2>1, <2>2, <2>3, <3>1, <3>2 DEF Row, Open
  <2>5. p = [q EXCEPT ![r] = row]
    BY <1>1, <2>1, <2>3 DEF Written, TickWrites
  <2> QED
    BY <2>1, <2>4, <2>5, RowWritten
<1>2. CASE j.op = "retry"
  <2>1. PICK r \in DOMAIN q : r = j.row /\ q[r].invoice = i
    BY <1>2 DEF Fits
  <2>2. q[r] \in Row
    OBVIOUS
  <2>3. PICK row : row = [q[r] EXCEPT !.attempts = Bump(q[r].attempts),
            !.status = IF ok THEN "ok" ELSE "retrying", !.due = ok]
    OBVIOUS
  <2>4. row \in Row /\ row.invoice = i /\ (row.status = "ok" => ok)
    <3>1. Bump(q[r].attempts) \in 0..MaxAttempts
      BY <2>2, BumpType DEF Row
    <3> QED
      BY <2>1, <2>2, <2>3, <3>1 DEF Row, Open
  <2>5. p = [q EXCEPT ![r] = row]
    BY <1>2, <2>1, <2>3 DEF Written, RetryWrites
  <2> QED
    BY <2>1, <2>4, <2>5, RowWritten
<1>3. CASE j.op = "sync"
  <2>1. PICK status \in {"ok", "retrying"} :
            status = (IF ok THEN "ok" ELSE "retrying") /\ (status = "ok" => ok)
    OBVIOUS
  <2>2. CASE \E r \in DOMAIN q : q[r].invoice = i /\ p = [q EXCEPT ![r].status = status]
    <3>1. PICK r \in DOMAIN q : q[r].invoice = i /\ p = [q EXCEPT ![r].status = status]
      BY <2>2
    <3>2. PICK row : row = [q[r] EXCEPT !.status = status]
      OBVIOUS
    <3>3. q[r] \in Row /\ row \in Row /\ row.invoice = i /\ row.status = status
      <4>1. q[r] \in Row /\ status \in {"ok", "retrying"} /\ q[r].invoice = i
        BY <2>1, <3>1
      <4> QED
        BY <3>2, <4>1 DEF Row, Open
    <3>4. p = [q EXCEPT ![r] = row] /\ q[r].invoice = row.invoice
      BY <3>1, <3>2, <3>3
    <3> QED
      BY <2>1, <3>3, <3>4, RowWritten
  <2>3. CASE p = Append(q, [invoice |-> i, status |-> status, attempts |-> 1, due |-> TRUE])
    <3>1. PICK row : row = [invoice |-> i, status |-> status, attempts |-> 1, due |-> TRUE]
      OBVIOUS
    <3>2. row \in Row /\ row.invoice = i /\ row.status = status
      BY <2>1, <3>1 DEF Row, Open
    <3> QED
      BY <2>1, <2>3, <3>1, <3>2, RowAdded
  <2> QED
    BY <1>3, <2>1, <2>2, <2>3 DEF Written, SyncWrites, Fits
<1> QED
  BY <1>1, <1>2, <1>3 DEF Fits, Jobs

-----------------------------------------------------------------------------
(***************************************************************************)
(* The writes of all who await a push: Settle folds them over the queue in *)
(* the order the callers joined.                                           *)
(***************************************************************************)
Outcomes(q, js, w, ok) ==
    FoldLeft(LAMBDA qs, g : UNION {Written(o, js[g], ok) : o \in qs}, {q}, w)

(* What caller j may make of the queues that those before it may leave. *)
After(qs, j, ok) == UNION {Written(o, j, ok) : o \in qs}

(* g takes each set of places in line to the queues their writes may leave. *)
Folds(g, T, q, js, w, ok) ==
    g = [s \in SUBSET T |->
            IF s = {} THEN {q} ELSE After(g[s \ {Max(s)}], js[w[Max(s)]], ok)]

LEMMA OutcomesUnfold ==
    ASSUME NEW q, NEW js, NEW w, NEW ok
    PROVE  Outcomes(q, js, w, ok) = (CHOOSE g : Folds(g, DOMAIN w, q, js, w, ok))[DOMAIN w]
  BY DEF Outcomes, FoldLeft, MapThenFoldSet, Folds, After

(* The last of the first n places is n. *)
LEMMA LastPlace ==
    ASSUME NEW n \in Nat \ {0}, NEW s \in SUBSET (1..n), n \in s
    PROVE  Max(s) = n
<1>1. \A m \in s : n >= m
  OBVIOUS
<1>2. PICK m \in s : m = Max(s) /\ \A k \in s : m >= k
  BY <1>1 DEF Max
<1> QED
  BY <1>1, <1>2

(* There is such a g: the writes of one more caller follow those before it. *)
LEMMA Foldable ==
    ASSUME NEW n \in Nat, NEW q, NEW js, NEW w, NEW ok
    PROVE  \E g : Folds(g, 1..n, q, js, w, ok)
<1> DEFINE bad == {m \in Nat : ~\E g : Folds(g, 1..m, q, js, w, ok)}
<1>1. ASSUME bad # {} PROVE FALSE
  <2>1. PICK m \in bad : \A k \in bad : m <= k
    <3>1. bad \subseteq Nat
      OBVIOUS
    <3> HIDE DEF bad
    <3> QED
      BY <1>1, <3>1, LeastNumber
  <2>2. m # 0
    <3>1. ASSUME m = 0 PROVE FALSE
      <4>1. 1..m = {}
        BY <3>1
      <4> DEFINE g == [s \in SUBSET (1..m) |-> {q}]
      <4>2. g = [s \in SUBSET (1..m) |-> IF s = {} THEN {q}
                    ELSE After(g[s \ {Max(s)}], js[w[Max(s)]], ok)]
        BY <4>1
      <4>3. Folds(g, 1..m, q, js, w, ok)
        BY <4>2 DEF Folds
      <4> QED
        BY <4>3
    <3> QED
      BY <3>1
  <2>3. PICK f : Folds(f, 1..(m - 1), q, js, w, ok)
    BY <2>1, <2>2
  <2> DEFINE last(s) == After(f[s \ {m}], js[w[m]], ok)
  <2> DEFINE g == [s \in SUBSET (1..m) |-> IF m \in s THEN last(s) ELSE f[s]]
  <2>4. ASSUME NEW s \in SUBSET (1..m)
        PROVE  g[s] = IF s = {} THEN {q}
                      ELSE After(g[s \ {Max(s)}], js[w[Max(s)]], ok)
    <3>1. CASE m \in s
      <4>1. Max(s) = m
        BY <2>2, <3>1, LastPlace
      <4>2. g[s] = last(s) /\ g[s \ {m}] = f[s \ {m}]
        BY <3>1
      <4> QED
        BY <3>1, <4>1, <4>2
    <3>2. CASE m \notin s
      <4>1. PICK T : Folds(f, T, q, js, w, ok) /\ s \in SUBSET T
        <5>1. s \in SUBSET (1..(m - 1))
          BY <2>2, <3>2
        <5> QED
          BY <2>3, <5>1
      <4>2. f[s] = IF s = {} THEN {q}
                   ELSE After(f[s \ {Max(s)}], js[w[Max(s)]], ok)
        BY <4>1 DEF Folds
      <4>3. g[s] = f[s] /\ g[s \ {Max(s)}] = f[s \ {Max(s)}]
        BY <3>2
      <4> QED
        BY <4>2, <4>3
    <3> QED
      BY <3>1, <3>2
  <2>5. g = [s \in SUBSET (1..m) |-> IF s = {} THEN {q}
                ELSE After(g[s \ {Max(s)}], js[w[Max(s)]], ok)]
    <3>1. g = [s \in SUBSET (1..m) |-> g[s]]
      OBVIOUS
    <3> HIDE DEF g
    <3> QED
      BY <2>4, <3>1
  <2> HIDE DEF g
  <2>6. Folds(g, 1..m, q, js, w, ok)
    BY <2>5 DEF Folds
  <2> QED
    BY <2>1, <2>6
<1> QED
  BY <1>1

(* Whoever awaits a push of invoice i, only rows of i become ok. *)
LEMMA OutcomesOwn ==
    ASSUME NEW q \in Seq(Row), NEW i \in Invoices, NEW js, NEW w \in Seq(Callers), NEW ok \in BOOLEAN,
           \A k \in DOMAIN w : Fits(js[w[k]], q, i), NEW own, ok => i \in own,
           NEW p \in Outcomes(q, js, w, ok)
    PROVE  Wrote(q, p, own)
<1>1. PICK n \in Nat : DOMAIN w = 1..n
  OBVIOUS
<1>2. PICK g : Folds(g, 1..n, q, js, w, ok) /\ p \in g[1..n]
  <2>1. PICK g : g = CHOOSE f : Folds(f, 1..n, q, js, w, ok)
    OBVIOUS
  <2>2. Folds(g, 1..n, q, js, w, ok)
    BY <2>1, Foldable
  <2>3. Outcomes(q, js, w, ok) = g[1..n]
    BY <1>1, <2>1, OutcomesUnfold
  <2> QED
    BY <2>2, <2>3
<1> DEFINE bad == {m \in 0..n : \E o \in g[1..m] : ~Wrote(q, o, own)}
<1>3. ASSUME bad # {} PROVE FALSE
  <2>1. PICK m \in bad : \A k \in bad : m <= k
    <3>1. bad \subseteq Nat
      OBVIOUS
    <3> HIDE DEF bad
    <3> QED
      BY <1>3, <3>1, LeastNumber
  <2>2. PICK o \in g[1..m] : ~Wrote(q, o, own)
    OBVIOUS
  <2>3. 1..m \in SUBSET (1..n) /\ m \in Nat /\ m <= n
    OBVIOUS
  <2>4. m # 0
    <3>1. ASSUME m = 0 PROVE FALSE
      <4>1. 1..m = {}
        BY <3>1
      <4>2. g[1..m] = {q}
        BY <1>2, <2>3, <4>1 DEF Folds
      <4> QED
        BY <2>2, <4>2, WroteNothing
    <3> QED
      BY <3>1
  <2>5. Max(1..m) = m /\ (1..m) \ {m} = 1..(m - 1) /\ 1..m # {}
    BY <2>3, <2>4, LastPlace
  <2>6. g[1..m] = After(g[1..(m - 1)], js[w[m]], ok)
    <3>1. PICK T, s : T = 1..n /\ s = 1..m
      OBVIOUS
    <3>2. Folds(g, T, q, js, w, ok) /\ s \in SUBSET T /\ s # {}
      BY <1>2, <2>3, <2>5, <3>1
    <3>3. g[s] = After(g[s \ {Max(s)}], js[w[Max(s)]], ok)
      BY <3>2 DEF Folds
    <3> QED
      BY <2>5, <3>1, <3>3
  <2>7. PICK x \in g[1..(m - 1)] : o \in Written(x, js[w[m]], ok)
    BY <2>2, <2>6 DEF After
  <2>8. Wrote(q, x, own) /\ x \in Seq(Row)
    <3>1. m - 1 \in 0..n /\ m - 1 \notin bad
      BY <2>1, <2>3, <2>4
    <3> QED
      BY <2>7, <3>1 DEF Wrote
  <2>9. Fits(js[w[m]], x, i)
    <3>1. PICK j : j = js[w[m]]
      OBVIOUS
    <3>2. Fits(j, q, i)
      BY <1>1, <2>3, <2>4, <3>1
    <3> QED
      BY <2>8, <3>1, <3>2, FitsStill
  <2>10. Wrote(x, o, own)
    BY <2>7, <2>8, <2>9, WrittenOwn
  <2> QED
    BY <2>2, <2>8, <2>10, WroteBoth
<1>4. n \in 0..n /\ n \notin bad
  BY <1>3
<1> QED
  BY <1>2, <1>4

-----------------------------------------------------------------------------
(***************************************************************************)
(* Who awaits what.  Every caller in the line of a push has a job for the  *)
(* push's invoice, and stands in that line only; the sweep takes rows that *)
(* are there; and a push that sends payments, or voids, is of an invoice   *)
(* that QuickBooks has, or that is void.                                   *)
(***************************************************************************)
Theirs == {i \in Invoices : invoices[i].qbo # None \/ invoices[i].void}

JobsFit ==
    \A h \in Callers : push[h] # None =>
        \A g \in ToSet(push[h].waiting) : Fits(job[g], queue, push[h].invoice)
OneLine ==
    \A g, h \in Callers : push[g] # None /\ push[h] # None /\ g # h
        => ToSet(push[g].waiting) \cap ToSet(push[h].waiting) = {}
StagesTrue ==
    \A h \in Callers : push[h] # None =>
        /\ push[h].stage = "payment" => invoices[push[h].invoice].qbo # None
        /\ push[h].stage = "void" => invoices[push[h].invoice].void
DueThere ==
    /\ DOMAIN tick = {"shop", "due"}
    /\ tick.due \subseteq [row : DOMAIN queue, attempts : 0..MaxAttempts]

Served ==
    /\ queue \in Seq(Row) /\ DOMAIN job = Callers
    /\ DueThere /\ JobsFit /\ OneLine /\ StagesTrue /\ SameCompany

(* No id is forgotten and no void is undone. *)
Remembered ==
    \A i \in Invoices : /\ invoices[i].qbo # None => invoices'[i].qbo # None
                        /\ invoices[i].void => invoices'[i].void

(* A push that goes on, with the same callers in its line. *)
GoesOn(h) ==
    /\ push[h] # None
    /\ push'[h].invoice = push[h].invoice /\ push'[h].waiting = push[h].waiting
    /\ \A g \in ToSet(push[h].waiting) : job'[g] = job[g]

LEMMA InitServed == Init => Served
<1> SUFFICES ASSUME Init PROVE Served
  OBVIOUS
<1>1. /\ queue \in Seq(Row) /\ DOMAIN job = Callers /\ SameCompany
      /\ DOMAIN tick = {"shop", "due"} /\ tick.due = {}
  BY DEF Init, Idle, SameCompany
<1>2. \A h \in Callers : push[h] = None
  BY DEF Init
<1> QED
  BY <1>1, <1>2 DEF Served, DueThere, JobsFit, OneLine, StagesTrue

(* The rows the sweep still has to take stay where they are. *)
LEMMA DueStays ==
    ASSUME DueThere, NEW own, Wrote(queue, queue', own), tick'.due \subseteq tick.due,
           DOMAIN tick' = DOMAIN tick
    PROVE  DueThere'
  BY DEF DueThere, Wrote

(* A caller without a job awaits nothing. *)
LEMMA JoblessAwaits ==
    ASSUME Served, NEW g, job[g] = None, NEW h \in Callers, push[h] # None
    PROVE  g \notin ToSet(push[h].waiting)
<1>1. None \notin Jobs
  <2>1. Jobs \subseteq [op : {"tick", "sync", "retry"}, invoice : Shops \X Numbers,
                        row : Nat, attempts : Nat]
    BY DEF Jobs, Invoices
  <2> QED
    BY <2>1
<1> QED
  BY <1>1 DEF Served, JobsFit, Fits

(* Pushes that go on or end leave every caller in its line. *)
LEMMA LinesKept ==
    ASSUME Served, NEW own, Wrote(queue, queue', own),
           \A h \in Callers : push'[h] = None \/ GoesOn(h)
    PROVE  JobsFit' /\ OneLine'
<1>1. ASSUME NEW h \in Callers, push'[h] # None, NEW g \in ToSet(push'[h].waiting)
      PROVE  Fits(job'[g], queue', push'[h].invoice)
  <2>1. PICK j, i : j = job[g] /\ i = push[h].invoice
    OBVIOUS
  <2>2. GoesOn(h)
    BY <1>1
  <2>3. job'[g] = j /\ push'[h].invoice = i /\ Fits(j, queue, i)
    BY <1>1, <2>1, <2>2 DEF GoesOn, Served, JobsFit
  <2>4. Fits(j, queue', i)
    BY <2>3, FitsStill
  <2> QED
    BY <2>3, <2>4
<1>2. JobsFit'
  BY <1>1 DEF JobsFit
<1>3. OneLine'
  BY DEF OneLine, GoesOn, Served
<1> QED
  BY <1>2, <1>3

(* Steps that touch no push keep Served, whatever rows they write. *)
LEMMA RowsServed ==
    ASSUME Shapes, Served, NEW own, Wrote(queue, queue', own), Remembered, DueThere',
           UNCHANGED <<push, job, callback>>
    PROVE  Served'
<1>1. \A h \in Callers : push'[h] = None \/ GoesOn(h)
  BY DEF GoesOn
<1>2. JobsFit' /\ OneLine'
  BY <1>1, LinesKept
<1>3. StagesTrue'
  <2>1. \A h \in Callers : push[h] # None => push[h].invoice \in Invoices
    BY PushWrites DEF Shapes
  <2> QED
    BY <2>1 DEF StagesTrue, Served, Remembered
<1> QED
  BY <1>2, <1>3 DEF Served, Wrote, SameCompany

-----------------------------------------------------------------------------
(* Step by step. *)

(* A row that is queued is pending. *)
LEMMA EnqueueWrites ==
    ASSUME queue \in Seq(Row), NEW i \in Invoices, Enqueue(i), NEW own
    PROVE  Wrote(queue, queue', own)
<1>1. PICK row : row = [invoice |-> i, status |-> "pending", attempts |-> 0, due |-> TRUE]
  OBVIOUS
<1>2. row \in Row /\ row.status # "ok"
  BY <1>1 DEF Row, Open
<1> QED
  BY <1>1, <1>2, RowAdded, WroteNothing DEF Enqueue

(* The shop's handlers queue invoices, and touch no push. *)
LEMMA ShopServed ==
    ASSUME Shapes, Served, Shop
    PROVE  Served' /\ Wrote(queue, queue', Theirs')
<1>1. PICK own : own = Theirs'
  OBVIOUS
<1>2. queue \in Seq(Row)
  BY DEF Served
<1>3. UNCHANGED <<process, callback>> /\ Remembered
  <2>1. ASSUME NEW i \in Invoices, Void(i) \/ Adjust(i)
        PROVE  UNCHANGED <<process, callback>> /\ Remembered
    <3>1. UNCHANGED <<process, callback>>
      BY <2>1 DEF Void, Adjust
    <3>2. invoices[i] \in Invoice
      BY DEF Shapes
    <3>3. PICK row : /\ row.qbo = invoices[i].qbo /\ (invoices[i].void => row.void)
                     /\ invoices' = [invoices EXCEPT ![i] = row]
      <4>1. CASE Void(i)
        <5>1. PICK row : row = [invoices[i] EXCEPT !.void = TRUE]
          OBVIOUS
        <5> QED
          BY <3>2, <4>1, <5>1 DEF Void, Invoice
      <4>2. CASE Adjust(i)
        <5>1. PICK row : row = [invoices[i] EXCEPT !.held = TRUE]
          OBVIOUS
        <5> QED
          BY <3>2, <4>2, <5>1 DEF Adjust, Invoice
      <4> QED
        BY <2>1, <4>1, <4>2
    <3> QED
      BY <3>1, <3>3 DEF Remembered, Shapes
  <2> QED
    BY <2>1 DEF Shop, RecordPayment, DeletePayment, Remembered
<1>4. Wrote(queue, queue', own)
  <2>1. ASSUME NEW p \in Payments, NEW i \in Invoices, NEW online \in BOOLEAN,
               RecordPayment(p, i, online)
        PROVE  Wrote(queue, queue', own)
    BY <1>2, <2>1, EnqueueWrites DEF RecordPayment
  <2>2. ASSUME NEW p \in Payments, DeletePayment(p)
        PROVE  Wrote(queue, queue', own)
    <3>1. payments[p].invoice \in Invoices
      BY <2>2 DEF DeletePayment, Shapes, Payment, Unrecorded, Deleted
    <3> QED
      BY <1>2, <2>2, <3>1, EnqueueWrites, WroteNothing DEF DeletePayment
  <2>3. ASSUME NEW i \in Invoices, Void(i) \/ Adjust(i)
        PROVE  Wrote(queue, queue', own)
    BY <1>2, <2>3, EnqueueWrites, WroteNothing DEF Void, Adjust
  <2> QED
    BY <2>1, <2>2, <2>3 DEF Shop
<1>5. DueThere'
  BY <1>3, <1>4, DueStays DEF Served, process
<1> QED
  BY <1>1, <1>3, <1>4, <1>5, RowsServed DEF process

(* A request joins a line, opens one, or is answered at once: "ok" only    *)
(* for an invoice that is void.                                            *)
LEMMA RequestServed ==
    ASSUME Shapes, Served, NEW g \in Callers, NEW i \in Invoices, NEW j, NEW q,
           job[g] = None, Fits(j, q, i), Wrote(queue, q, {}), Request(g, i, j, q),
           UNCHANGED <<invoices, callback>>, tick'.due \subseteq tick.due,
           DOMAIN tick' = DOMAIN tick
    PROVE  Served' /\ Wrote(queue, queue', Theirs')
<1>1. PICK own : own = Theirs'
  OBVIOUS
<1>2. \A h \in Callers : push[h] # None => push[h] \in Push /\ push[h].invoice \in Invoices
  BY PushWrites DEF Shapes
<1>3. \A h \in Callers : push[h] # None => g \notin ToSet(push[h].waiting)
  BY JoblessAwaits
<1>4. ASSUME queue' = q
      PROVE  Wrote(queue, queue', own) /\ DueThere'
  <2>1. Wrote(queue, q, own)
    BY DEF Wrote
  <2> QED
    BY <1>4, <2>1, DueStays DEF Served
<1>5. ASSUME queue' = q, job' = [job EXCEPT ![g] = j],
             NEW h \in Callers, push'[h].invoice = i,
             \A k \in Callers : k # h => push'[k] = push[k],
             \A m \in ToSet(push'[h].waiting) :
                 \/ m = g
                 \/ push[h] # None /\ push[h].invoice = i /\ m \in ToSet(push[h].waiting),
             push'[h].stage = "void" => invoices[i].void,
             push'[h].stage = "payment" => invoices[i].qbo # None
      PROVE  Served' /\ Wrote(queue, queue', own)
  <2>1. /\ job'[g] = j /\ DOMAIN job' = Callers
        /\ \A m : m # g => job'[m] = job[m]
    BY <1>5 DEF Served
  <2>2. ASSUME NEW k \in Callers, push[k] # None, NEW m \in ToSet(push[k].waiting)
        PROVE  Fits(job'[m], queue', push[k].invoice)
    <3>1. PICK c, o : c = job[m] /\ o = push[k].invoice
      OBVIOUS
    <3>2. Fits(c, queue, o) /\ job'[m] = c
      BY <1>3, <2>1, <2>2, <3>1 DEF Served, JobsFit
    <3>3. Fits(c, queue', o)
      BY <1>5, <3>2, FitsStill
    <3> QED
      BY <3>1, <3>2, <3>3
  <2>3. JobsFit'
    <3> SUFFICES ASSUME NEW k \in Callers, push'[k] # None, NEW m \in ToSet(push'[k].waiting)
                 PROVE  Fits(job'[m], queue', push'[k].invoice)
      BY DEF JobsFit
    <3>1. CASE k # h
      BY <1>5, <2>2, <3>1
    <3>2. CASE k = h /\ m = g
      BY <1>5, <2>1, <3>2
    <3>3. CASE k = h /\ m # g
      BY <1>5, <2>2, <3>3
    <3> QED
      BY <3>1, <3>2, <3>3
  <2>4. OneLine'
    <3>1. ASSUME NEW k \in Callers, push'[k] # None, NEW m \in ToSet(push'[k].waiting)
          PROVE  \/ k = h /\ m = g
                 \/ push[k] # None /\ m # g /\ m \in ToSet(push[k].waiting)
      BY <1>3, <1>5, <3>1
    <3>2. OneLine
      BY DEF Served
    <3> QED
      BY <3>1, <3>2 DEF OneLine
  <2>5. StagesTrue'
    BY <1>5 DEF StagesTrue, Served
  <2>6. queue' \in Seq(Row)
    BY <1>5 DEF Wrote
  <2> QED
    BY <1>4, <1>5, <2>1, <2>3, <2>4, <2>5, <2>6 DEF Served, SameCompany
<1>6. ASSUME NEW h \in Running(i), push' = [push EXCEPT ![h].waiting = Append(@, g)],
             job' = [job EXCEPT ![g] = j], queue' = q
      PROVE  Served' /\ Wrote(queue, queue', own)
  <2>1. h \in Callers /\ push[h] \in Push /\ push[h] # None /\ push[h].invoice = i
    BY <1>2 DEF Running, Key
  <2>2. /\ push'[h].waiting = Append(push[h].waiting, g) /\ push'[h].invoice = i
        /\ push'[h].stage = push[h].stage
        /\ \A k \in Callers : k # h => push'[k] = push[k]
    BY <1>6, <2>1 DEF Shapes, Push
  <2>3. \A m \in ToSet(push'[h].waiting) : m = g \/ m \in ToSet(push[h].waiting)
    <3>1. PICK w : w = push[h].waiting /\ w \in Seq(Callers)
      BY <2>1 DEF Push
    <3>2. \A m \in ToSet(Append(w, g)) : m = g \/ m \in ToSet(w)
      BY <3>1 DEF ToSet
    <3> QED
      BY <2>2, <3>1, <3>2
  <2>4. /\ push[h].stage = "void" => invoices[i].void
        /\ push[h].stage = "payment" => invoices[i].qbo # None
    BY <2>1 DEF Served, StagesTrue
  <2> QED
    BY <1>5, <1>6, <2>1, <2>2, <2>3, <2>4
<1>7. ASSUME Opening(i) \in Stages, push' = [push EXCEPT ![g] = NewPush(g, i)],
             job' = [job EXCEPT ![g] = j], queue' = q
      PROVE  Served' /\ Wrote(queue, queue', own)
  <2>1. push'[g] = NewPush(g, i) /\ \A k \in Callers : k # g => push'[k] = push[k]
    BY <1>7 DEF Shapes
  <2>2. /\ push'[g].invoice = i /\ push'[g].waiting = <<g>> /\ push'[g].stage = Opening(i)
    BY <2>1 DEF NewPush
  <2>3. \A m \in ToSet(push'[g].waiting) : m = g
    BY <2>2 DEF ToSet
  <2>4. /\ Opening(i) = "void" => invoices[i].void
        /\ Opening(i) # "payment"
    BY DEF Opening, FirstStep
  <2> QED
    BY <1>5, <1>7, <2>1, <2>2, <2>3, <2>4
<1>8. ASSUME Opening(i) \in {"ok", "failed"}, queue' \in Written(q, j, Opening(i) = "ok"),
             UNCHANGED <<push, job>>
      PROVE  Served' /\ Wrote(queue, queue', own)
  <2>1. PICK ok \in BOOLEAN : ok = (Opening(i) = "ok")
    OBVIOUS
  <2>2. ok => i \in own
    <3>1. ok => invoices[i].void
      BY <2>1 DEF Opening, FirstStep
    <3> QED
      BY <1>1, <3>1 DEF Theirs
  <2>3. q \in Seq(Row)
    BY DEF Wrote
  <2>4. Wrote(q, queue', own)
    BY <1>8, <2>1, <2>2, <2>3, WrittenOwn
  <2>5. Wrote(queue, queue', own)
    BY <2>4, WroteBoth
  <2>6. DueThere' /\ Remembered
    BY <2>5, DueStays DEF Served, Remembered
  <2> QED
    BY <1>8, <2>5, <2>6, RowsServed
<1> QED
  BY <1>1, <1>6, <1>7, <1>8 DEF Request

(* The sweep takes back the rows of a dead process, and none becomes ok. *)
LEMMA ReclaimWrites ==
    ASSUME queue \in Seq(Row), NEW s, NEW own
    PROVE  Wrote(queue, Reclaimed(s), own) /\ DOMAIN Reclaimed(s) = DOMAIN queue
<1>1. PICK p : p = Reclaimed(s)
  OBVIOUS
<1>2. \A row \in Row : [row EXCEPT !.status = "retrying"] \in Row
  BY DEF Row, Open
<1>3. \A r \in DOMAIN queue : [queue[r] EXCEPT !.status = "retrying"].invoice = queue[r].invoice
                              /\ [queue[r] EXCEPT !.status = "retrying"].status # "ok"
  <2>1. \A row \in Row : [row EXCEPT !.status = "retrying"].invoice = row.invoice
                         /\ [row EXCEPT !.status = "retrying"].status # "ok"
    BY DEF Row
  <2> QED
    BY <2>1
<1>4. /\ DOMAIN p = DOMAIN queue
      /\ \A r \in DOMAIN queue : p[r] = queue[r] \/ p[r] = [queue[r] EXCEPT !.status = "retrying"]
  BY <1>1 DEF Reclaimed
<1>5. p = [r \in DOMAIN queue |-> p[r]] /\ \A r \in DOMAIN queue : p[r] \in Row
  BY <1>1, <1>2, <1>4 DEF Reclaimed
<1>6. p \in Seq(Row)
  <2>1. PICK n \in Nat : DOMAIN queue = 1..n
    OBVIOUS
  <2>2. p \in [1..n -> Row]
    BY <1>5, <2>1
  <2> QED
    BY <2>2
<1> QED
  BY <1>1, <1>3, <1>4, <1>6 DEF Wrote

LEMMA SweepServed ==
    ASSUME Shapes, Served, Sweep
    PROVE  Served' /\ Wrote(queue, queue', Theirs')
<1>1. queue \in Seq(Row) /\ Tick \in Callers
  BY DEF Served, Callers
<1>2. PICK own : own = Theirs'
  OBVIOUS
<1>3. ASSUME NEW s \in Shops, TickStarts(s)
      PROVE  Served' /\ Wrote(queue, queue', own)
  <2>1. queue' = Reclaimed(s) /\ UNCHANGED <<invoices, push, job, callback>>
    BY <1>3 DEF TickStarts, shopData
  <2>2. Wrote(queue, queue', own) /\ DOMAIN queue' = DOMAIN queue
    BY <1>1, <2>1, ReclaimWrites
  <2>3. DueThere'
    <3>1. \A r \in DOMAIN queue : queue[r].attempts \in 0..MaxAttempts
      <4>1. \A row \in Row : row.attempts \in 0..MaxAttempts
        BY DEF Row
      <4> QED
        BY <1>1, <4>1
    <3>2. /\ \A e \in tick'.due : \E r \in DOMAIN queue : e = [row |-> r, attempts |-> queue[r].attempts]
          /\ DOMAIN tick' = {"shop", "due"}
      BY <1>3 DEF TickStarts
    <3> QED
      BY <2>2, <3>1, <3>2 DEF DueThere
  <2> QED
    BY <2>1, <2>2, <2>3, RowsServed DEF Remembered
<1>4. ASSUME NEW d \in tick.due, TickTakes(d)
      PROVE  Served' /\ Wrote(queue, queue', Theirs')
  <2>1. /\ d.row \in DOMAIN queue /\ d.row \in Nat /\ d.attempts \in 0..MaxAttempts
        /\ job[Tick] = None /\ UNCHANGED <<invoices, callback>>
    BY <1>1, <1>4 DEF Served, DueThere, TickTakes, shopData
  <2>2. tick'.due \subseteq tick.due /\ DOMAIN tick' = DOMAIN tick
    <3>1. tick' = [tick EXCEPT !.due = @ \ {d}]
      BY <1>4 DEF TickTakes
    <3> QED
      BY <3>1 DEF Served, DueThere
  <2>3. CASE UNCHANGED <<queue, push, job>>
    <3>1. Wrote(queue, queue', own)
      BY <1>1, <2>3, WroteNothing
    <3>2. DueThere'
      BY <2>2, <3>1, DueStays DEF Served
    <3> QED
      BY <1>2, <2>1, <2>3, <3>1, <3>2, RowsServed DEF Remembered
  <2>4. ASSUME NEW i \in Invoices, queue[d.row].invoice = i,
               Request(Tick, i, [op |-> "tick", invoice |-> i, row |-> d.row, attempts |-> d.attempts],
                       [queue EXCEPT ![d.row].status = "syncing", ![d.row].due = FALSE])
        PROVE  Served' /\ Wrote(queue, queue', Theirs')
    <3>1. PICK j, row, q :
              /\ j = [op |-> "tick", invoice |-> i, row |-> d.row, attempts |-> d.attempts]
              /\ row = [queue[d.row] EXCEPT !.status = "syncing", !.due = FALSE]
              /\ q = [queue EXCEPT ![d.row] = row]
      OBVIOUS
    <3>2. queue[d.row] \in Row
      BY <1>1, <2>1
    <3>3. row \in Row /\ row.invoice = i /\ row.status # "ok"
      BY <2>4, <3>1, <3>2 DEF Row, Open
    <3>4. Wrote(queue, q, {})
      BY <1>1, <2>1, <2>4, <3>1, <3>3, RowWritten
    <3>5. Fits(j, q, i)
      <4>1. j \in Jobs /\ j.invoice = i /\ j.row = d.row
        BY <2>1, <3>1 DEF Jobs
      <4>2. d.row \in DOMAIN q /\ q[d.row].invoice = i
        BY <2>1, <2>4, <3>4 DEF Wrote
      <4> QED
        BY <4>1, <4>2 DEF Fits
    <3>6. Request(Tick, i, j, q)
      BY <2>4, <3>1
    <3> QED
      BY <1>1, <2>1, <2>2, <3>4, <3>5, <3>6, RequestServed
  <2> QED
    BY <1>4, <2>3, <2>4 DEF TickTakes
<1>5. ASSUME TickEnds
      PROVE  Served' /\ Wrote(queue, queue', own)
  <2>1. UNCHANGED <<queue, invoices, push, job, callback>> 
        /\ tick'.due = {} /\ DOMAIN tick' = {"shop", "due"}
    BY <1>5 DEF TickEnds, Idle, shopData
  <2>2. Wrote(queue, queue', own)
    BY <1>1, <2>1, WroteNothing
  <2>3. DueThere'
    BY <2>1 DEF DueThere
  <2> QED
    BY <2>1, <2>2, <2>3, RowsServed DEF Remembered
<1> QED
  BY <1>2, <1>3, <1>4, <1>5 DEF Sweep

(* The managers' buttons. *)
LEMMA ButtonsServed ==
    ASSUME Shapes, Served, Buttons
    PROVE  Served' /\ Wrote(queue, queue', Theirs')
<1>1. queue \in Seq(Row) /\ Managers \subseteq Callers
  BY DEF Served, Callers
<1>2. PICK own : own = Theirs'
  OBVIOUS
<1>3. ASSUME NEW m \in Managers, NEW i \in Invoices, SyncNow(m, i)
      PROVE  Served' /\ Wrote(queue, queue', Theirs')
  <2>1. PICK j : j = [op |-> "sync", invoice |-> i, row |-> 0, attempts |-> 0]
    OBVIOUS
  <2>2. job[m] = None /\ Request(m, i, j, queue) /\ UNCHANGED <<invoices, callback, tick>>
    BY <1>3, <2>1 DEF SyncNow, shopData
  <2>3. Fits(j, queue, i)
    BY <2>1 DEF Fits, Jobs
  <2> QED
    BY <1>1, <2>2, <2>3, WroteNothing, RequestServed
<1>4. ASSUME NEW m \in Managers, NEW i \in Invoices, NEW r \in DOMAIN queue, Retry(m, i, r)
      PROVE  Served' /\ Wrote(queue, queue', Theirs')
  <2>1. PICK j : j = [op |-> "retry", invoice |-> i, row |-> r, attempts |-> 0]
    OBVIOUS
  <2>2. job[m] = None /\ Request(m, i, j, queue) /\ UNCHANGED <<invoices, callback, tick>>
    BY <1>4, <2>1 DEF Retry, shopData
  <2>3. r \in Nat /\ queue[r].invoice = i
    BY <1>1, <1>4 DEF Retry
  <2>4. Fits(j, queue, i)
    BY <2>1, <2>3 DEF Fits, Jobs
  <2> QED
    BY <1>1, <2>2, <2>4, WroteNothing, RequestServed
<1>5. ASSUME NEW r \in DOMAIN queue, Dismiss(r) \/ Requeue(r)
      PROVE  Served' /\ Wrote(queue, queue', own)
  <2>1. UNCHANGED <<invoices, push, job, tick, callback>>
    BY <1>5 DEF Dismiss, Requeue, shopData, process
  <2>2. queue[r] \in Row
    BY <1>1
  <2>3. PICK row \in Row : /\ row.invoice = queue[r].invoice /\ row.status # "ok"
                           /\ queue' = [queue EXCEPT ![r] = row]
    <3>1. CASE Dismiss(r)
      <4>1. PICK row : row = [queue[r] EXCEPT !.status = "dismissed"]
        OBVIOUS
      <4>2. row \in Row /\ row.invoice = queue[r].invoice /\ row.status # "ok"
        BY <2>2, <4>1 DEF Row
      <4> QED
        BY <3>1, <4>1, <4>2 DEF Dismiss
    <3>2. CASE Requeue(r)
      <4>1. PICK row : row = [queue[r] EXCEPT !.status = "pending", !.attempts = 0, !.due = TRUE]
        OBVIOUS
      <4>2. 0 \in 0..MaxAttempts
        OBVIOUS
      <4>3. row \in Row /\ row.invoice = queue[r].invoice /\ row.status # "ok"
        BY <2>2, <4>1, <4>2 DEF Row, Open
      <4> QED
        BY <3>2, <4>1, <4>3 DEF Requeue
    <3> QED
      BY <1>5, <3>1, <3>2
  <2>4. Wrote(queue, queue', own)
    BY <1>1, <2>3, RowWritten
  <2>5. DueThere'
    BY <2>1, <2>4, DueStays DEF Served
  <2> QED
    BY <2>1, <2>4, <2>5, RowsServed DEF Remembered
<1> QED
  BY <1>2, <1>3, <1>4, <1>5 DEF Buttons

(* When a push settles, its callers write rows of its invoice and leave;   *)
(* all others stay in line.                                                *)
LEMMA SettleServed ==
    ASSUME Shapes, Served, NEW h \in Callers, push[h] # None, NEW ok \in BOOLEAN, Settle(h, ok),
           Remembered, ok => push[h].invoice \in Theirs', UNCHANGED <<tick, callback>>
    PROVE  Served' /\ Wrote(queue, queue', Theirs')
<1>1. PICK own, w, js, i : own = Theirs' /\ w = push[h].waiting /\ js = job /\ i = push[h].invoice
  OBVIOUS
<1>2. queue \in Seq(Row) /\ w \in Seq(Callers) /\ i \in Invoices
  BY <1>1 DEF Served, Shapes, Push
<1>3. \A k \in DOMAIN w : Fits(js[w[k]], queue, i)
  BY <1>1 DEF Served, JobsFit, ToSet
<1>4. queue' \in Outcomes(queue, js, w, ok)
  <2>1. queue' \in Outcomes(queue, job, push[h].waiting, ok)
    BY DEF Settle, Outcomes
  <2> QED
    BY <1>1, <2>1
<1>5. Wrote(queue, queue', own)
  BY <1>1, <1>2, <1>3, <1>4, OutcomesOwn
<1>6. /\ push' = [push EXCEPT ![h] = None] /\ DOMAIN job' = Callers
      /\ \A g \in Callers : g \notin ToSet(w) => job'[g] = job[g]
  BY <1>1 DEF Settle
<1>7. ASSUME NEW k \in Callers, k # h, push[k] # None
      PROVE  push'[k] = push[k] /\ \A g \in ToSet(push[k].waiting) : job'[g] = job[g]
  <2>1. push[k].waiting \in Seq(Callers)
    BY <1>7 DEF Shapes, Push
  <2>2. \A g \in ToSet(push[k].waiting) : g \in Callers
    BY <2>1 DEF ToSet
  <2>3. \A g \in ToSet(push[k].waiting) : g \notin ToSet(w)
    BY <1>1, <1>7 DEF Served, OneLine
  <2> QED
    BY <1>6, <1>7, <2>2, <2>3
<1>8. \A k \in Callers : push'[k] = None \/ GoesOn(k)
  BY <1>6, <1>7 DEF GoesOn, Shapes
<1>9. JobsFit' /\ OneLine'
  BY <1>5, <1>8, LinesKept
<1>10. StagesTrue'
  <2>1. \A k \in Callers : push[k] # None => push[k].invoice \in Invoices
    BY PushWrites DEF Shapes
  <2>2. \A k \in Callers : push'[k] # None => push[k] # None /\ push'[k] = push[k]
    BY <1>6 DEF Shapes
  <2> QED
    BY <2>1, <2>2 DEF StagesTrue, Served, Remembered
<1>11. DueThere'
  BY <1>5, DueStays DEF Served
<1> QED
  BY <1>1, <1>5, <1>6, <1>9, <1>10, <1>11 DEF Served, Wrote, SameCompany

(* A push that goes on keeps its line and writes no row. *)
LEMMA GoingServed ==
    ASSUME Shapes, Served, NEW h \in Callers, push[h] # None, NEW w \in Push,
           push' = [push EXCEPT ![h] = w],
           w.invoice = push[h].invoice, w.waiting = push[h].waiting, Remembered,
           w.stage = "payment" => invoices'[w.invoice].qbo # None,
           w.stage = "void" => invoices'[w.invoice].void,
           UNCHANGED <<queue, job, tick, callback>>
    PROVE  Served' /\ Wrote(queue, queue', Theirs')
<1>1. PICK own : own = Theirs'
  OBVIOUS
<1>2. Wrote(queue, queue', own)
  BY WroteNothing DEF Served
<1>3. push'[h] = w /\ \A k \in Callers : k # h => push'[k] = push[k]
  BY DEF Shapes
<1>4. \A k \in Callers : push'[k] = None \/ GoesOn(k)
  BY <1>3 DEF GoesOn
<1>5. JobsFit' /\ OneLine'
  BY <1>2, <1>4, LinesKept
<1>6. StagesTrue'
  <2>1. \A k \in Callers : push[k] # None => push[k].invoice \in Invoices
    BY PushWrites DEF Shapes
  <2> QED
    BY <1>3, <2>1 DEF StagesTrue, Served, Remembered
<1>7. DueThere'
  BY <1>2, DueStays DEF Served
<1> QED
  BY <1>1, <1>2, <1>5, <1>6, <1>7 DEF Served, SameCompany

(* A call returns: "ok" only once the invoice has its id or is void. *)
LEMMA CallServed ==
    ASSUME Shapes, Served, NEW h \in Callers, CallReturns(h)
    PROVE  Served' /\ Wrote(queue, queue', Theirs')
<1> DEFINE i == push[h].invoice
<1>1. /\ push[h] # None /\ push[h] \in Push /\ i \in Invoices /\ push[h].realm \in Companies
      /\ push[h].waiting \in Seq(Callers) /\ UNCHANGED <<tick, callback>>
  <2>1. push[h] # None /\ push[h] \in Push /\ UNCHANGED <<tick, callback>>
    BY DEF CallReturns, Shapes
  <2>2. push[h].waiting \in Seq(Callers)
    BY <2>1 DEF Push
  <2> QED
    BY <2>1, <2>2, PushWrites
<1>2. ASSUME invoices' = invoices
      PROVE  Remembered
  BY <1>2 DEF Remembered
<1>3. ASSUME CustomerAnswered(h)
      PROVE  Served' /\ Wrote(queue, queue', Theirs')
  <2>1. PICK w : w = [push[h] EXCEPT !.stage = "invoice", !.customer = push[h].realm]
    OBVIOUS
  <2>2. /\ w \in Push /\ w.invoice = i /\ w.waiting = push[h].waiting /\ w.stage = "invoice"
    BY <1>1, <2>1, PushWrites DEF Company, Push
  <2>3. push' = [push EXCEPT ![h] = w] /\ UNCHANGED <<invoices, queue, job>>
    BY <1>1, <1>3, <2>1 DEF CustomerAnswered, Shapes, Push
  <2> QED
    BY <1>1, <1>2, <2>2, <2>3, GoingServed
<1>4. ASSUME InvoiceAnswered(h)
      PROVE  Served' /\ Wrote(queue, queue', Theirs')
  <2>1. PICK row : row = [invoices[i] EXCEPT !.qbo = push[h].realm]
    OBVIOUS
  <2>2. /\ row.qbo # None /\ (invoices[i].void => row.void)
        /\ invoices' = [invoices EXCEPT ![i] = row]
    <3>1. invoices[i] \in Invoice
      BY <1>1 DEF Shapes
    <3>2. row.qbo # None /\ (invoices[i].void => row.void)
      BY <1>1, <2>1, <3>1 DEF Invoice
    <3> QED
      BY <1>4, <2>1, <3>2 DEF InvoiceAnswered
  <2>3. Remembered /\ invoices'[i].qbo # None
    BY <1>1, <2>2 DEF Remembered, Shapes
  <2>4. CASE Unsent(i) = {}
    <3>1. Settle(h, TRUE)
      BY <1>4, <2>4 DEF InvoiceAnswered
    <3>2. i \in Theirs'
      BY <1>1, <2>3 DEF Theirs
    <3> QED
      BY <1>1, <2>3, <3>1, <3>2, SettleServed
  <2>5. CASE Unsent(i) # {}
    <3>1. PICK w : w = [push[h] EXCEPT !.stage = "payment", !.todo = Unsent(i)]
      OBVIOUS
    <3>2. w \in Push /\ w.invoice = i /\ w.waiting = push[h].waiting /\ w.stage = "payment"
      BY <1>1, <3>1, PushWrites DEF Unsent, RecordedOn, Push
    <3>3. push' = [push EXCEPT ![h] = w] /\ UNCHANGED <<queue, job>>
      BY <1>1, <1>4, <2>5, <3>1 DEF InvoiceAnswered, Shapes, Push
    <3> QED
      BY <1>1, <2>3, <3>2, <3>3, GoingServed
  <2> QED
    BY <2>4, <2>5
<1>5. ASSUME PaymentAnswered(h)
      PROVE  Served' /\ Wrote(queue, queue', Theirs')
  <2>1. PICK p \in push[h].todo :
            /\ push[h].stage = "payment" /\ invoices' = invoices
            /\ IF push[h].todo = {p} THEN Settle(h, TRUE)
               ELSE push' = [push EXCEPT ![h].todo = @ \ {p}] /\ UNCHANGED <<queue, job>>
    BY <1>5 DEF PaymentAnswered, ReceiptAccepted, InFlight
  <2>2. invoices'[i].qbo # None /\ Remembered
    BY <1>1, <1>2, <2>1 DEF Served, StagesTrue
  <2>3. CASE push[h].todo = {p}
    <3>1. i \in Theirs'
      BY <1>1, <2>2 DEF Theirs
    <3>2. Settle(h, TRUE)
      BY <2>1, <2>3
    <3> QED
      BY <1>1, <2>2, <3>1, <3>2, SettleServed
  <2>4. CASE push[h].todo # {p}
    <3>1. PICK w : w = [push[h] EXCEPT !.todo = push[h].todo \ {p}]
      OBVIOUS
    <3>2. push[h].todo \ {p} \in SUBSET Payments
      BY <1>1 DEF Push
    <3>3. w \in Push /\ w.invoice = i /\ w.waiting = push[h].waiting /\ w.stage = "payment"
      <4>1. w \in Push
        BY <1>1, <3>1, <3>2, PushWrites
      <4> QED
        BY <1>1, <2>1, <3>1, <4>1 DEF Push
    <3>4. push' = [push EXCEPT ![h] = w] /\ UNCHANGED <<queue, job>>
      BY <1>1, <2>1, <2>4, <3>1 DEF Shapes, Push
    <3> QED
      BY <1>1, <2>2, <3>3, <3>4, GoingServed
  <2> QED
    BY <2>3, <2>4
<1>6. ASSUME VoidAnswered(h)
      PROVE  Served' /\ Wrote(queue, queue', Theirs')
  <2>1. push[h].stage = "void" /\ Settle(h, TRUE) /\ invoices' = invoices
    BY <1>6 DEF VoidAnswered, VoidAccepted, InFlight, shopData
  <2>2. i \in Theirs'
    BY <1>1, <2>1 DEF Served, StagesTrue, Theirs
  <2> QED
    BY <1>1, <1>2, <2>1, <2>2, SettleServed
<1>7. ASSUME Unauthorized(h)
      PROVE  Served' /\ Wrote(queue, queue', Theirs')
  <2>1. PICK w : w = [push[h] EXCEPT !.stage = "refresh"]
    OBVIOUS
  <2>2. w \in Push /\ w.invoice = i /\ w.waiting = push[h].waiting /\ w.stage = "refresh"
    BY <1>1, <2>1, PushWrites DEF Push
  <2>3. push' = [push EXCEPT ![h] = w] /\ UNCHANGED <<invoices, queue, job>>
    BY <1>1, <1>7, <2>1 DEF Unauthorized, Shapes, Push, shopData
  <2> QED
    BY <1>1, <1>2, <2>2, <2>3, GoingServed
<1>8. ASSUME Refreshed(h)
      PROVE  Served' /\ Wrote(queue, queue', Theirs')
  <2>1. invoices' = invoices /\ Remembered
    BY <1>2, <1>8 DEF Refreshed
  <2>2. CASE FirstStep(i) \in Stages
    <3>1. PICK w : w = [push[h] EXCEPT !.stage = FirstStep(i), !.again = TRUE,
                                       !.id = invoices[i].qbo, !.customer = customers[ShopOf(i)]]
      OBVIOUS
    <3>2. invoices[i].qbo \in Company /\ customers[ShopOf(i)] \in Company
      BY <1>1, InvoiceParts DEF Shapes, Invoice
    <3>3. w \in Push
      BY <1>1, <2>2, <3>1, <3>2, PushWrites
    <3>4. w.invoice = i /\ w.waiting = push[h].waiting /\ w.stage = FirstStep(i)
      BY <1>1, <3>1 DEF Push
    <3>5. push' = [push EXCEPT ![h] = w] /\ UNCHANGED <<queue, job>>
      BY <1>1, <1>8, <2>2, <3>1 DEF Refreshed, Shapes, Push
    <3>6. FirstStep(i) # "payment" /\ (FirstStep(i) = "void" => invoices[i].void)
      BY DEF FirstStep
    <3> QED
      BY <1>1, <2>1, <3>3, <3>4, <3>5, <3>6, GoingServed
  <2>3. CASE FirstStep(i) \notin Stages
    <3>1. PICK ok \in BOOLEAN : ok = (FirstStep(i) = "ok")
      OBVIOUS
    <3>2. Settle(h, ok)
      BY <1>8, <2>3, <3>1 DEF Refreshed
    <3>3. ok => i \in Theirs'
      BY <1>1, <2>1, <3>1 DEF FirstStep, Theirs
    <3> QED
      BY <1>1, <2>1, <3>2, <3>3, SettleServed
  <2> QED
    BY <2>2, <2>3
<1>9. ASSUME CallFails(h) \/ AnswerLost(h)
      PROVE  Served' /\ Wrote(queue, queue', Theirs')
  <2>1. Settle(h, FALSE) /\ invoices' = invoices
    BY <1>9 DEF CallFails, AnswerLost, shopData
  <2> QED
    BY <1>1, <1>2, <2>1, SettleServed
<1> QED
  BY <1>3, <1>4, <1>5, <1>6, <1>7, <1>8, <1>9 DEF CallReturns, Answered

(* Every step keeps Served, and marks "ok" what QuickBooks has or is void. *)
LEMMA NextServed ==
    ASSUME "connect" \notin Events, Shapes, Served, [Next]_vars
    PROVE  Served' /\ Wrote(queue, queue', Theirs')
<1>1. queue \in Seq(Row)
  BY DEF Served
<1>2. PICK own : own = Theirs'
  OBVIOUS
<1>3. Wrote(queue, queue, own)
  BY <1>1, WroteNothing
<1>4. ASSUME UNCHANGED <<invoices, queue, push, job, tick, callback>>
      PROVE  Served' /\ Wrote(queue, queue', Theirs')
  <2>1. DueThere' /\ Remembered
    BY <1>4 DEF Served, DueThere, Remembered
  <2> QED
    BY <1>2, <1>3, <1>4, <2>1, RowsServed
<1>5. ASSUME Connection
      PROVE  UNCHANGED <<invoices, queue, push, job, tick, callback>>
  <2>1. ~(\E s \in Shops, c \in Companies : StartCallback(s, c))
    BY DEF StartCallback
  <2>2. ~(\E s \in Shops : CallbackFails(s) \/ FinishCallback(s))
    BY DEF CallbackFails, FinishCallback, Served, SameCompany
  <2> QED
    BY <1>5, <2>1, <2>2 DEF Connection, Disconnect, process
<1>6. ASSUME NEW r \in DOMAIN queue, TimePasses(r)
      PROVE  Served' /\ Wrote(queue, queue', Theirs')
  <2>1. UNCHANGED <<invoices, push, job, tick, callback>>
    BY <1>6 DEF TimePasses, shopData, process
  <2>2. queue[r] \in Row
    BY <1>1
  <2>3. PICK row : row = [queue[r] EXCEPT !.due = TRUE]
    OBVIOUS
  <2>4. row \in Row /\ row.invoice = queue[r].invoice /\ row.status = queue[r].status
    BY <2>2, <2>3 DEF Row
  <2>5. queue' = [queue EXCEPT ![r] = row]
    BY <1>6, <2>3 DEF TimePasses
  <2>6. Wrote(queue, queue', own)
    BY <1>1, <2>4, <2>5, RowWritten
  <2>7. DueThere' /\ Remembered
    BY <2>1, <2>6, DueStays DEF Served, Remembered
  <2> QED
    BY <1>2, <2>1, <2>6, <2>7, RowsServed
<1>7. ASSUME Crash
      PROVE  Served' /\ Wrote(queue, queue', Theirs')
  <2>1. /\ \A h \in Callers : push'[h] = None
        /\ DOMAIN job' = Callers /\ callback' = [s \in Shops |-> None]
        /\ tick'.due = {} /\ DOMAIN tick' = {"shop", "due"} /\ queue' = queue
    BY <1>7 DEF Crash, Idle, shopData
  <2>2. JobsFit' /\ OneLine' /\ StagesTrue' /\ DueThere' /\ SameCompany'
    BY <2>1 DEF JobsFit, OneLine, StagesTrue, DueThere, SameCompany
  <2> QED
    BY <1>1, <1>2, <1>3, <2>1, <2>2 DEF Served
<1>8. ASSUME UNCHANGED vars
      PROVE  UNCHANGED <<invoices, queue, push, job, tick, callback>>
  BY <1>8 DEF vars, shopData, process
<1> QED
  BY <1>4, <1>5, <1>6, <1>7, <1>8, ShopServed, ButtonsServed, SweepServed, CallServed DEF Next

(***************************************************************************)
(* A row becomes "ok" only for its own invoice, which QuickBooks has by    *)
(* then or which is void, however many callers share a push, join it late  *)
(* and write their rows after it: as long as no shop connects another      *)
(* company, which forgets the saved ids under a push that is on its way.   *)
(***************************************************************************)
THEOREM OkIsOwnHolds ==
    ASSUME "connect" \notin Events
    PROVE  Spec => OkIsOwn
<1> DEFINE Own == \A r \in DOMAIN queue' :
                      /\ queue'[r].status = "ok"
                      /\ r \in DOMAIN queue => queue[r].status # "ok"
                      => invoices'[queue'[r].invoice].qbo # None \/ invoices'[queue'[r].invoice].void
<1>1. ASSUME Shapes, Served, [Next]_vars
      PROVE  Served' /\ [Own]_vars
  <2>1. Served' /\ Wrote(queue, queue', Theirs')
    BY <1>1, NextServed
  <2>2. Own
    BY <2>1 DEF Wrote, Theirs
  <2> QED
    BY <2>1, <2>2
<1> HIDE DEF Own
<1>2. Spec => [][Own]_vars
  BY <1>1, InitServed, ShapesHold, PTL DEF Spec
<1> QED
  BY <1>2 DEF OkIsOwn, Own
=============================================================================
