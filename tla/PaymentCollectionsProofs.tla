---------------------- MODULE PaymentCollectionsProofs ----------------------
(***************************************************************************)
(* Theorems of PaymentCollections, for every value of its constants.       *)
(* First the types and the reservation (Reservations), then what rows,     *)
(* sessions, receipts and handlers know of each other (Certain), which     *)
(* with the reservation is the inductive invariant IInv; every step is     *)
(* also shown to be one of OrderMoney's or a stutter.  Last, with IInv,    *)
(* what an overpayment leaves behind and the sums of the books.            *)
(***************************************************************************)
EXTENDS PaymentPromises, Sums, FiniteSetTheorems, TLAPS

USE ProviderAssumption, AmountsAssumption, InvoicesAssumption, NoneAssumption

-----------------------------------------------------------------------------
(* The writes of one row keep its type. *)

(* A claimed row is a row. *)
LEMMA ClaimType ==
    ASSUME NEW c \in Collection, NEW r \in Requests
    PROVE  Claim(c, r) \in Collection
  BY DEF Claim, Collection

(* A released row is a row, whichever token it holds. *)
LEMMA ReleaseType ==
    ASSUME NEW c \in Collection, NEW r \in Requests, NEW state \in {"unresolved", "expired"},
           NEW error \in BOOLEAN, NEW close \in BOOLEAN
    PROVE  Release(c, r, state, error, close) \in Collection
<1>1. \A held \in BOOLEAN, wait \in {"free", "backoff"} :
        [c EXCEPT !.state = state, !.holder = None, !.closed = held,
                  !.wait = wait] \in Collection
  BY DEF Collection
<1>2. (c.closed \/ close) \in BOOLEAN
  OBVIOUS
<1>3. (IF error THEN "backoff" ELSE "free") \in {"free", "backoff"}
  OBVIOUS
<1> QED
  BY <1>1, <1>2, <1>3 DEF Release

(* A failed call leaves a row. *)
LEMMA FailType ==
    ASSUME NEW c \in Collection, NEW r \in Requests
    PROVE  Fail(c, r) \in Collection
  BY ReleaseType DEF Fail

(* A finished row is a row. *)
LEMMA FinishType ==
    ASSUME NEW c \in Collection
    PROVE  Finish(c) \in Collection
  BY DEF Finish, Collection

(* A row bound to a connected account is a row. *)
LEMMA BindType ==
    ASSUME NEW c \in Collection, NEW account \in Accounts
    PROVE  Bind(c, account) \in Collection
  BY DEF Bind, Collection

(* A row whose create is submitted is a row. *)
LEMMA SubmitType ==
    ASSUME NEW c \in Collection
    PROVE  Submit(c) \in Collection
  BY DEF Submit, Collection

(* The version triggers keep every row a row. *)
LEMMA StaleType ==
    ASSUME NEW cs \in [Attempts -> Collection], NEW S
    PROVE  Stale(cs, S) \in [Attempts -> Collection]
<1>1. \A c \in Collection : [c EXCEPT !.fresh = FALSE] \in Collection
  BY DEF Collection
<1> QED
  BY <1>1 DEF Stale

(* A hand-recorded payment, or its deletion, keeps the invoice a row. *)
LEMMA MoveManualType ==
    ASSUME NEW row \in Invoice, NEW n \in Int, NEW held \in BOOLEAN, row.manual + n >= 0
    PROVE  MoveManual(row, n, held) \in Invoice
<1>1. row.paid + n \in Int /\ row.manual + n \in Nat /\ (row.review \/ held) \in BOOLEAN
  BY DEF Invoice
<1>2. \A p \in Int, m \in Nat, h \in BOOLEAN :
        [row EXCEPT !.paid = p, !.manual = m, !.review = h] \in Invoice
  BY DEF Invoice
<1> QED
  BY <1>1, <1>2 DEF MoveManual

(* The order before any checkout is typed, and nobody holds anything. *)
LEMMA InitTypes == Init => TypeOK /\ HandlersKnow /\ AttemptsPlaced
<1> SUFFICES ASSUME Init PROVE TypeOK /\ HandlersKnow /\ AttemptsPlaced
  OBVIOUS
<1>1. estimate \in Estimate /\ settings \in [account : Accounts, currency : Currencies]
  BY DEF Init, Estimate
<1>2. invoices \in [Invoices -> Invoice]
  BY DEF Init, Invoice
<1>3. attempts \in [Attempts -> Attempt]
  BY <1>1 DEF Init, Attempt, NoInvoice
<1>4. collections \in [Attempts -> Collection]
  BY DEF Init, Collection
<1>5. receipts \in [Transactions -> Receipt] /\ posted \in [Transactions -> 0..MaxInvoices]
  BY DEF Init, Receipt, NoInvoice
<1>6. sessions \in [Sessions -> SessionStates]
  BY DEF Init, SessionStates
<1>7. requests \in [Requests -> Request]
  BY DEF Init, Request, Idle, SessionStates, Captures
<1> QED
  BY <1>1, <1>2, <1>3, <1>4, <1>5, <1>6, <1>7
  DEF TypeOK, HandlersKnow, AttemptsPlaced, Init, Idle

-----------------------------------------------------------------------------
(* Sessions, transactions and the invoice a payment goes to. *)

(* The parts of sessions and transactions; neither is the absent value. *)
LEMMA Shapes ==
    /\ None \notin Sessions /\ None \notin Transactions
    /\ 1 \in Captures /\ Captures \subseteq {1, 2}
    /\ \A s \in Sessions : RefOf(s) \in Attempts /\ AccountOf(s) \in Accounts
    /\ \A a \in Attempts, m \in Accounts, n \in {1, 2} : <<a, m, n>> \in Sessions
    /\ \A t \in Transactions : t[1] \in Sessions /\ t[2] \in Captures
    /\ \A s \in Sessions, n \in Captures : <<s, n>> \in Transactions
  BY DEF Sessions, Captures, Transactions, RefOf, AccountOf

(* The newest invoice of a nonempty set is one of that set. *)
LEMMA NewestType ==
    ASSUME NEW S \in SUBSET Invoices, S # {}
    PROVE  Newest(S) \in S
<1> DEFINE Back == {MaxInvoices - i : i \in S}
<1>1. Back \in SUBSET Nat /\ Back # {}
<2>1. \A i \in S : MaxInvoices - i \in Nat
  BY InvoicesAssumption DEF Invoices
<2> QED
  BY <2>1
<1>2. PICK m \in Back : \A n \in Back : m <= n
  <2> HIDE DEF Back
  <2> QED
    BY <1>1, LeastNumber
<1>3. PICK i \in S : m = MaxInvoices - i
  OBVIOUS
<1>4. \A j \in S : j <= i
  BY <1>2, <1>3 DEF Invoices
<1> QED
  BY <1>3, <1>4 DEF Newest

(* The invoice a payment goes to exists or is the first to be converted. *)
LEMMA InvoiceForType ==
    ASSUME TypeOK, NEW a \in Attempts
    PROVE  InvoiceFor(a) \in Invoices
<1>1. attempts[a].invoice # NoInvoice => attempts[a].invoice \in Invoices
  BY DEF TypeOK, Attempt, Invoices, NoInvoice
<1>2. LiveInvoices # {} => Newest(LiveInvoices) \in Invoices
  BY NewestType DEF LiveInvoices
<1>3. Converted # {} => Newest(Converted) \in Invoices
  BY NewestType DEF Converted
<1> QED
  BY <1>1, <1>2, <1>3 DEF InvoiceFor, Invoices

-----------------------------------------------------------------------------
(* Each step keeps the types: one lemma per kind of handler. *)

USE DEF NoInvoice

(* Writing one invoice row, with its triggers, keeps the types. *)
LEMMA ChangeInvoiceType ==
    ASSUME TypeOK, NEW i \in Invoices, NEW row \in Invoice, ChangeInvoice(i, row)
    PROVE  TypeOK'
  BY StaleType DEF ChangeInvoice, TypeOK

(* Every handler of the shop keeps the types. *)
LEMMA ShopTypes ==
    ASSUME TypeOK, ShopStep
    PROVE  TypeOK'
<1>1. CASE ReviseEstimate
  BY <1>1, StaleType DEF ReviseEstimate, TypeOK, Estimate
<1>2. CASE ChangeSettings
  BY <1>2 DEF ChangeSettings, TypeOK
<1>3. ASSUME NEW i \in Invoices, Convert(i)
      PROVE  TypeOK'
  <2>1. estimate.total \in Nat
    BY AmountsAssumption DEF TypeOK, Estimate
  <2>2. NewInvoice(estimate.total) \in Invoice
    BY <2>1 DEF NewInvoice, Invoice
  <2> QED
    BY <1>3, <2>2 DEF Convert, TypeOK
<1>4. ASSUME NEW i \in Invoices, EditInvoice(i)
      PROVE  TypeOK'
  BY <1>4, StaleType DEF EditInvoice, TypeOK
<1>5. ASSUME NEW i \in Invoices, Void(i) \/ AddCredit(i) \/ CancelCredit(i)
      PROVE  TypeOK'
  <2>1. invoices[i] \in Invoice
    BY DEF TypeOK
  <2>2. [invoices[i] EXCEPT !.status = "void"] \in Invoice
    BY <2>1 DEF Invoice
  <2>3. \A c \in Nat : [invoices[i] EXCEPT !.credit = c, !.review = TRUE] \in Invoice
    BY <2>1 DEF Invoice
  <2>4. /\ invoices[i].credit \in Nat
        /\ \A n \in CreditAmounts : n \in Nat
    BY <2>1, AmountsAssumption DEF Invoice
  <2>5. \A n \in CreditAmounts : /\ invoices[i].credit + n \in Nat
                                 /\ n <= invoices[i].credit => invoices[i].credit - n \in Nat
    BY <2>4
  <2> QED
    BY <1>5, <2>2, <2>3, <2>5, ChangeInvoiceType
    DEF Void, AddCredit, CancelCredit
<1>6. ASSUME NEW i \in Invoices, ManualPayment(i)
      PROVE  TypeOK'
  <2>1. invoices[i] \in Invoice /\ Balance(i) \in Int /\ MoneyDuringCheckout(i) \in BOOLEAN
    BY DEF TypeOK, Balance, Due, Invoice, MoneyDuringCheckout
  <2>2. PICK amount \in ManualAmounts :
            LET recorded == IF amount < Balance(i) THEN amount ELSE Balance(i)
            IN  /\ recorded > 0
                /\ ChangeInvoice(i, MoveManual(invoices[i], recorded, MoneyDuringCheckout(i)))
    BY <1>6 DEF ManualPayment
  <2> DEFINE recorded == IF amount < Balance(i) THEN amount ELSE Balance(i)
  <2>3. recorded \in Int /\ invoices[i].manual + recorded >= 0
    BY <2>1, <2>2, AmountsAssumption DEF Invoice
  <2> QED
    BY <2>1, <2>2, <2>3, MoveManualType, ChangeInvoiceType
<1>7. ASSUME NEW i \in Invoices, DeletePayment(i)
      PROVE  TypeOK'
  <2>1. invoices[i] \in Invoice /\ MoneyDuringCheckout(i) \in BOOLEAN
    BY DEF TypeOK, MoneyDuringCheckout
  <2>2. PICK n \in ManualAmounts :
            /\ n <= invoices[i].manual
            /\ ChangeInvoice(i, MoveManual(invoices[i], -n, MoneyDuringCheckout(i)))
    BY <1>7 DEF DeletePayment
  <2>3. -n \in Int /\ invoices[i].manual + (-n) >= 0
    BY <2>1, <2>2, AmountsAssumption DEF Invoice
  <2> QED
    BY <2>1, <2>2, <2>3, MoveManualType, ChangeInvoiceType
<1>8. ASSUME NEW i \in Invoices, ClearReview(i)
      PROVE  TypeOK'
  <2>1. invoices' \in [Invoices -> Invoice]
    <3>1. \A row \in Invoice : [row EXCEPT !.review = FALSE] \in Invoice
      BY DEF Invoice
    <3> QED
      BY <1>8, <3>1 DEF ClearReview, TypeOK
  <2>2. receipts' \in [Transactions -> Receipt]
    BY <1>8 DEF ClearReview, TypeOK, Receipt
  <2>3. collections' \in [Attempts -> Collection]
    BY <1>8, StaleType DEF ClearReview, TypeOK
  <2> QED
    BY <1>8, <2>1, <2>2, <2>3 DEF ClearReview, TypeOK
<1> QED
  BY <1>1, <1>2, <1>3, <1>4, <1>5, <1>6, <1>7, <1>8 DEF ShopStep

(* An amount that is offered for payment is a number. *)
LEMMA AmountType ==
    ASSUME TypeOK, NEW i \in Invoices, NEW kind \in Kinds, Amount(i, kind) > 0
    PROVE  Amount(i, kind) \in Nat
<1>1. /\ invoices[i].base \in Nat /\ invoices[i].credit \in Nat
      /\ invoices[i].paid \in Int
  BY DEF TypeOK, Invoice
<1>2. Due(i) \in Int /\ Balance(i) \in Int
  BY <1>1 DEF Due, Balance
<1>3. ((Due(i) + 1) \div 2) - invoices[i].paid \in Int
  BY <1>1, <1>2
<1> QED
  BY <1>2, <1>3 DEF Amount

(* A request that starts is a request. *)
LEMMA StartType ==
    ASSUME TypeOK, NEW r \in Requests, NEW op \in {"resume", "recheck", "expire"},
           NEW a \in Attempts, NEW s \in Sessions \cup {None}, NEW n \in Captures,
           Start(r, op, a, s, n, "account")
    PROVE  requests' \in [Requests -> Request]
<1>1. settings.account \in Accounts
  BY DEF TypeOK
<1>2. [pc |-> "account", op |-> op, ref |-> a, account |-> settings.account,
       session |-> s, n |-> n, seen |-> "none"] \in Request
  BY <1>1 DEF Request, SessionStates
<1> QED
  BY <1>2 DEF Start, TypeOK

(* A reservation writes a typed attempt and a typed collection. *)
LEMMA ReserveType ==
    ASSUME TypeOK, NEW r \in Requests, NEW a \in Attempts, NEW i \in 0..MaxInvoices,
           NEW amount \in Nat, NEW kind \in Kinds, Reserve(r, a, i, amount, kind)
    PROVE  attempts' \in [Attempts -> Attempt] /\ collections' \in [Attempts -> Collection]
<1>1. settings.currency \in Currencies
  BY DEF TypeOK
<1>2. [status |-> "pending", onEstimate |-> i = NoInvoice, invoice |-> i,
       amount |-> amount, kind |-> kind, currency |-> settings.currency,
       session |-> None, txn |-> None] \in Attempt
  BY <1>1 DEF Attempt
<1>3. \A c \in Collection : [c EXCEPT !.fresh = TRUE] \in Collection
  BY DEF Collection
<1>4. Claim([collections[a] EXCEPT !.fresh = TRUE], r) \in Collection
  BY <1>3, ClaimType DEF TypeOK
<1> QED
  BY <1>2, <1>4 DEF Reserve, TypeOK

(* Every way to open, check or close a checkout keeps the types. *)
LEMMA OpenTypes ==
    ASSUME TypeOK, NEW r \in Requests, Open(r)
    PROVE  TypeOK'
<1>1. ASSUME NEW a \in Attempts, NEW i \in Invoices, NEW kind \in Kinds,
             PayInvoice(r, a, i, kind)
      PROVE  TypeOK'
  <2>1. requests' \in [Requests -> Request]
    BY <1>1, StartType, Shapes DEF PayInvoice
  <2>2. i \in 0..MaxInvoices
    BY DEF Invoices
  <2>3. attempts' \in [Attempts -> Attempt] /\ collections' \in [Attempts -> Collection]
    <3>1. CASE Reserve(r, a, i, Amount(i, kind), kind)
      BY <1>1, <2>2, <3>1, AmountType, ReserveType DEF PayInvoice
    <3>2. CASE Reuse(r, a, i, Amount(i, kind), kind)
      BY <3>2, ClaimType DEF Reuse, TypeOK
    <3> QED
      BY <1>1, <3>1, <3>2 DEF PayInvoice
  <2> QED
    BY <1>1, <2>1, <2>3 DEF PayInvoice, TypeOK
<1>2. ASSUME NEW a \in Attempts, PayEstimate(r, a)
      PROVE  TypeOK'
  <2>1. requests' \in [Requests -> Request]
    BY <1>2, StartType, Shapes DEF PayEstimate
  <2>2. estimate.total \in Nat /\ "balance" \in Kinds /\ 0 \in 0..MaxInvoices
    <3>1. estimate.total \in Totals
      BY DEF TypeOK, Estimate
    <3>2. "balance" \in Kinds /\ Totals \subseteq Nat \ {0}
      BY AmountsAssumption
    <3>3. 0 \in 0..MaxInvoices
      BY InvoicesAssumption
    <3> QED
      BY <3>1, <3>2, <3>3
  <2>3. attempts' \in [Attempts -> Attempt] /\ collections' \in [Attempts -> Collection]
    BY <1>2, <2>2, ReserveType DEF PayEstimate
  <2> QED
    BY <1>2, <2>1, <2>3 DEF PayEstimate, TypeOK
<1>3. ASSUME NEW a \in Attempts, NEW op \in {"resume", "recheck", "expire"}, Manage(r, a, op)
      PROVE  TypeOK'
  <2>1. attempts[a].session \in Sessions \cup {None}
    BY DEF TypeOK, Attempt
  <2>2. \A look \in Looks(a, op) : look[1] \in Sessions \cup {None} /\ look[2] \in Captures
    BY <2>1, Shapes DEF Looks
  <2>3. requests' \in [Requests -> Request]
    BY <1>3, <2>2, StartType DEF Manage
  <2>4. collections' \in [Attempts -> Collection]
    BY <1>3, ClaimType DEF Manage, TypeOK
  <2> QED
    BY <1>3, <2>3, <2>4 DEF Manage, TypeOK
<1>4. ASSUME NEW s \in Sessions, NEW n \in Captures, Evidence(r, s, n)
      PROVE  TypeOK'
  <2>1. /\ settings.account \in Accounts /\ sessions[s] \in SessionStates
        /\ RefOf(s) \in Attempts
    BY Shapes DEF TypeOK
  <2>2. [pc |-> "answered", op |-> "evidence", ref |-> RefOf(s), account |-> settings.account,
         session |-> s, n |-> n, seen |-> sessions[s]] \in Request
    BY <2>1 DEF Request
  <2> QED
    BY <1>4, <2>2 DEF Evidence, TypeOK, database
<1> QED
  BY <1>1, <1>2, <1>3, <1>4 DEF Open

(* A request that calls the provider is a request. *)
LEMMA CallType ==
    ASSUME TypeOK, NEW r \in Requests, NEW s \in Sessions \cup {None}, Call(r, s)
    PROVE  requests' \in [Requests -> Request]
<1>1. \A q \in Request : [q EXCEPT !.pc = "call", !.session = s] \in Request
  BY DEF Request
<1> QED
  BY <1>1 DEF Call, TypeOK

(* A request that has its answer is a request. *)
LEMMA AnswerType ==
    ASSUME TypeOK, NEW r \in Requests, NEW s \in Sessions, NEW state \in SessionStates,
           Answer(r, s, state)
    PROVE  requests' \in [Requests -> Request]
<1>1. \A q \in Request : [q EXCEPT !.pc = "answered", !.session = s, !.seen = state] \in Request
  BY DEF Request
<1> QED
  BY <1>1 DEF Answer, TypeOK

(* A request that ends is an idle request. *)
LEMMA DoneType ==
    ASSUME TypeOK, NEW r \in Requests, Done(r)
    PROVE  requests' \in [Requests -> Request]
<1>1. Idle \in Request
  BY Shapes DEF Idle, Request, SessionStates
<1> QED
  BY <1>1 DEF Done, TypeOK

(* A handler in flight names a checkout and an account, and may bind them. *)
LEMMA BoundType ==
    ASSUME TypeOK, HandlersKnow, NEW r \in Requests, requests[r].pc # "idle"
    PROVE  /\ requests[r].ref \in Attempts /\ requests[r].account \in Accounts
           /\ collections[requests[r].ref] \in Collection
           /\ Bound(r) \in Collection
<1>1. requests[r].ref \in Attempts /\ requests[r].account \in Accounts
  BY DEF TypeOK, Request, HandlersKnow
<1>2. collections[requests[r].ref] \in Collection
  BY <1>1 DEF TypeOK
<1> QED
  BY <1>1, <1>2, BindType DEF Bound

(* Writing one collection row keeps the others. *)
LEMMA WriteType ==
    ASSUME TypeOK, NEW r \in Requests, NEW c \in Collection, WriteCollection(r, c)
    PROVE  collections' \in [Attempts -> Collection]
  BY DEF WriteCollection, TypeOK

(* Every error path of a handler keeps the types. *)
LEMMA GiveUpTypes ==
    ASSUME TypeOK, HandlersKnow, NEW r \in Requests, requests[r].pc # "idle", GiveUp(r)
    PROVE  TypeOK'
<1>1. collections' \in [Attempts -> Collection]
  BY BoundType, FailType, WriteType DEF GiveUp
<1> QED
  BY <1>1, DoneType DEF GiveUp, TypeOK

(* Every step of a handler before its answer is accepted keeps the types. *)
LEMMA ClaimedTypes ==
    ASSUME TypeOK, HandlersKnow, NEW r \in Requests,
           \/ CallFails(r) \/ AccountRefused(r) \/ ResumeRefused(r) \/ ReopenForm(r)
           \/ SubmitCreate(r) \/ SubmitRetrieve(r) \/ AnswerRefused(r) \/ SubmitExpire(r)
    PROVE  TypeOK'
<1>1. CASE CallFails(r) \/ AccountRefused(r) \/ AnswerRefused(r)
  BY <1>1, GiveUpTypes DEF CallFails, AccountRefused, AnswerRefused
<1>2. CASE ResumeRefused(r)
  <2>1. collections' \in [Attempts -> Collection]
    BY <1>2, BoundType, FailType, WriteType DEF ResumeRefused
  <2> QED
    BY <1>2, <2>1, DoneType DEF ResumeRefused, TypeOK
<1>3. CASE ReopenForm(r)
  <2>1. collections' \in [Attempts -> Collection]
    BY <1>3, BoundType, ReleaseType, WriteType DEF ReopenForm, MayResume
  <2> QED
    BY <1>3, <2>1, DoneType DEF ReopenForm, TypeOK
<1>4. CASE SubmitCreate(r)
  <2>1. collections' \in [Attempts -> Collection]
    BY <1>4, BoundType, SubmitType, WriteType DEF SubmitCreate, MayResume
  <2> QED
    BY <1>4, <2>1, CallType DEF SubmitCreate, TypeOK
<1>5. CASE SubmitRetrieve(r)
  <2>1. collections' \in [Attempts -> Collection]
    BY <1>5, BoundType, WriteType DEF SubmitRetrieve
  <2>2. /\ attempts[requests[r].ref].session \in Sessions \cup {None}
        /\ requests[r].session \in Sessions \cup {None}
    BY <1>5, BoundType DEF SubmitRetrieve, TypeOK, Attempt, Request
  <2>3. requests' \in [Requests -> Request]
    BY <1>5, <2>2, CallType DEF SubmitRetrieve
  <2> QED
    BY <1>5, <2>1, <2>3 DEF SubmitRetrieve, TypeOK
<1>6. CASE SubmitExpire(r)
  <2>1. attempts[requests[r].ref].session \in Sessions \cup {None}
    BY <1>6, BoundType DEF SubmitExpire, Acceptable, TypeOK, Attempt
  <2>2. \A q \in Request : \A s \in Sessions \cup {None} :
            [q EXCEPT !.pc = "call", !.op = "expireCall", !.session = s] \in Request
    BY DEF Request
  <2>3. requests' \in [Requests -> Request]
    BY <1>6, <2>1, <2>2 DEF SubmitExpire, TypeOK
  <2> QED
    BY <1>6, <2>3 DEF SubmitExpire, TypeOK, database
<1> QED
  BY <1>1, <1>2, <1>3, <1>4, <1>5, <1>6

(* Accepting the provider's answer keeps the types. *)
LEMMA AcceptTypes ==
    ASSUME TypeOK, HandlersKnow, NEW r \in Requests, AcceptAnswer(r)
    PROVE  TypeOK'
<1> DEFINE a == requests[r].ref
<1>1. a \in Attempts /\ collections[a] \in Collection /\ requests[r].pc = "answered"
  BY BoundType DEF AcceptAnswer, Acceptable
<1>2. requests[r].session \in Sessions
  BY <1>1 DEF TypeOK, HandlersKnow, Request
<1>3. attempts' \in [Attempts -> Attempt]
  <2>1. \A row \in Attempt : \A s \in Sessions \cup {None} :
            /\ [row EXCEPT !.session = s, !.status = "expired"] \in Attempt
            /\ [row EXCEPT !.session = s, !.status = row.status] \in Attempt
            /\ row.session \in Sessions \cup {None}
    BY DEF Attempt
  <2> QED
    BY <1>1, <1>2, <2>1 DEF AcceptAnswer, TypeOK
<1>4. collections' \in [Attempts -> Collection]
  <2>1. \A state \in {"unresolved", "expired"}, ended \in BOOLEAN :
            Release(collections[a], r, state, FALSE, ended) \in Collection
    BY <1>1, ReleaseType
  <2> QED
    BY <1>1, <2>1, FailType, WriteType DEF AcceptAnswer
<1>5. requests' \in [Requests -> Request]
  <2>1. \A q \in Request : [q EXCEPT !.pc = "paid"] \in Request
    BY DEF Request
  <2> QED
    BY <2>1, DoneType DEF AcceptAnswer, TypeOK
<1> QED
  BY <1>3, <1>4, <1>5 DEF AcceptAnswer, TypeOK

(* A handler about to reconcile names a checkout and a transaction. *)
LEMMA ReconcilableType ==
    ASSUME TypeOK, HandlersKnow, NEW r \in Requests, Reconcilable(r)
    PROVE  /\ requests[r].pc # "idle" /\ requests[r].ref \in Attempts
           /\ Txn(r) \in Transactions /\ Txn(r)[1] \in Sessions
           /\ Received(Txn(r)) \in Receipt
<1>1. requests[r].pc \in {"answered", "paid"}
  BY DEF Reconcilable
<1>2. /\ requests[r].ref \in Attempts
      /\ requests[r].session \in Sessions /\ requests[r].n \in Captures
  BY <1>1 DEF TypeOK, HandlersKnow, Request
<1>3. Txn(r) \in Transactions /\ Txn(r)[1] = requests[r].session
  BY <1>2, Shapes DEF Txn
<1>4. \A t \in Transactions : Received(t) \in Receipt
  <2> SUFFICES ASSUME NEW t \in Transactions PROVE Received(t) \in Receipt
    OBVIOUS
  <2>1. attempts[RefOf(t[1])].invoice \in 0..MaxInvoices /\ receipts[t] \in Receipt
    BY Shapes DEF TypeOK, Attempt
  <2>2. \A i \in 0..MaxInvoices : [state |-> "review", invoice |-> i] \in Receipt
    BY DEF Receipt
  <2> QED
    BY <2>1, <2>2 DEF Received
<1> QED
  BY <1>1, <1>2, <1>3, <1>4

(* Holding a receipt keeps the types. *)
LEMMA HoldTypes ==
    ASSUME TypeOK, HandlersKnow, NEW r \in Requests, HoldReceipt(r)
    PROVE  TypeOK'
<1>1. Reconcilable(r)
  BY DEF HoldReceipt
<1>2. Received(Txn(r)).invoice \in 0..MaxInvoices
  BY <1>1, ReconcilableType DEF Receipt
<1>3. receipts' \in [Transactions -> Receipt]
  <2>1. \A i \in 0..MaxInvoices : [state |-> "review", invoice |-> i] \in Receipt
    BY DEF Receipt
  <2> QED
    BY <1>2, <2>1 DEF HoldReceipt, TypeOK
<1>4. invoices' \in [Invoices -> Invoice]
  <2>1. \A row \in Invoice : Held(row) \in Invoice
    BY DEF Held, Invoice
  <2> QED
    BY <2>1 DEF HoldReceipt, TypeOK
<1>5. collections' \in [Attempts -> Collection]
  BY StaleType DEF HoldReceipt, TypeOK
<1> QED
  BY <1>3, <1>4, <1>5, DoneType DEF HoldReceipt, TypeOK

(* Evidence delivered again keeps the types. *)
LEMMA RepeatedTypes ==
    ASSUME TypeOK, HandlersKnow, NEW r \in Requests, RepeatedEvidence(r)
    PROVE  TypeOK'
<1> DEFINE a == requests[r].ref
<1>1. /\ a \in Attempts /\ Txn(r) \in Transactions
      /\ collections[a] \in Collection /\ attempts[a].invoice \in 0..MaxInvoices
  BY ReconcilableType DEF RepeatedEvidence, TypeOK, Attempt
<1>2. receipts' \in [Transactions -> Receipt]
  <2>1. \A i \in 0..MaxInvoices : [state |-> "applied", invoice |-> i] \in Receipt
    BY DEF Receipt
  <2> QED
    BY <1>1, <2>1 DEF RepeatedEvidence, TypeOK
<1>3. collections' \in [Attempts -> Collection]
  BY <1>1, FinishType, WriteType DEF RepeatedEvidence, TypeOK
<1> QED
  BY <1>2, <1>3, DoneType DEF RepeatedEvidence, TypeOK

(* Applying a payment keeps the types. *)
LEMMA ApplyTypes ==
    ASSUME TypeOK, HandlersKnow, NEW r \in Requests, ApplyPayment(r)
    PROVE  TypeOK'
<1> DEFINE a == requests[r].ref
           t == Txn(r)
           i == InvoiceFor(a)
           row == RowFor(i)
           review == Unexpected(a, t, row)
           others == \E b \in Attempts \ {a} : attempts[b].invoice = i /\ Unresolved(b)
<1>1. a \in Attempts /\ t \in Transactions /\ t[1] \in Sessions /\ i \in Invoices
  BY ReconcilableType, InvoiceForType DEF ApplyPayment
<1>2. i \in 0..MaxInvoices
  BY <1>1 DEF Invoices
<1>3. row \in Invoice
  <2>1. estimate.total \in Totals /\ invoices[i] \in Invoice
    BY <1>1 DEF TypeOK, Estimate
  <2>2. estimate.total \in Nat
    BY <2>1, AmountsAssumption
  <2>3. NewInvoice(estimate.total) \in Invoice
    BY <2>2 DEF NewInvoice, Invoice
  <2> QED
    BY <2>1, <2>3 DEF RowFor
<1>4. Arriving(a, t) \in Nat
  BY <1>1 DEF Arriving, TypeOK, Attempt
<1>5. invoices' \in [Invoices -> Invoice]
  <2>1. row.paid + Arriving(a, t) \in Int /\ row.review \in BOOLEAN
    BY <1>3, <1>4 DEF Invoice
  <2>2. \A p \in Int, h \in BOOLEAN : [row EXCEPT !.paid = p, !.review = h] \in Invoice
    BY <1>3 DEF Invoice
  <2>3. (row.review \/ review \/ (Arriving(a, t) # 0 /\ others)) \in BOOLEAN
    OBVIOUS
  <2>4. [row EXCEPT !.paid = @ + Arriving(a, t),
                    !.review = @ \/ review \/ (Arriving(a, t) # 0 /\ others)] \in Invoice
    BY <2>1, <2>2, <2>3
  <2> QED
    BY <1>1, <2>4 DEF ApplyPayment, TypeOK
<1>6. attempts' \in [Attempts -> Attempt]
  <2>1. \A q \in Attempt, s \in Sessions \cup {None} :
            [q EXCEPT !.status = "paid", !.txn = t, !.invoice = i, !.session = s] \in Attempt
    BY <1>1, <1>2 DEF Attempt
  <2> QED
    BY <1>1, <2>1 DEF ApplyPayment, TypeOK
<1>7. collections' \in [Attempts -> Collection]
  <2>1. Stale(collections, ReservedOn(i) \cup {a}) \in [Attempts -> Collection]
    BY StaleType DEF TypeOK
  <2>2. Finish(Stale(collections, ReservedOn(i) \cup {a})[a]) \in Collection
    BY <1>1, <2>1, FinishType
  <2> QED
    BY <2>1, <2>2 DEF ApplyPayment
<1>8. receipts' \in [Transactions -> Receipt] /\ posted' \in [Transactions -> 0..MaxInvoices]
  <2>1. /\ [state |-> "applied_review", invoice |-> i] \in Receipt
        /\ [state |-> "applied", invoice |-> i] \in Receipt
    BY <1>2 DEF Receipt
  <2> QED
    BY <1>2, <2>1 DEF ApplyPayment, TypeOK
<1> QED
  BY <1>5, <1>6, <1>7, <1>8, DoneType DEF ApplyPayment, TypeOK

(* Every answer of the provider keeps the types. *)
LEMMA ProviderTypes ==
    ASSUME TypeOK, HandlersKnow, NEW r \in Requests, ProviderStep(r)
    PROVE  TypeOK'
<1>1. CASE ProviderCreates(r)
  <2> DEFINE s == Created(requests[r].ref, requests[r].account)
             after == IF sessions[s] = "none" THEN "open" ELSE sessions[s]
  <2>1. requests[r].ref \in Attempts /\ requests[r].account \in Accounts
    BY <1>1, BoundType DEF ProviderCreates
  <2>2. s \in Sessions
    BY <2>1, Shapes DEF Created, Existing
  <2>3. after \in SessionStates
    BY <2>2 DEF TypeOK, SessionStates
  <2> QED
    BY <1>1, <2>2, <2>3, AnswerType DEF ProviderCreates, TypeOK, database
<1>2. CASE ProviderReads(r)
  <2>1. requests[r].session \in Sessions
    BY <1>2 DEF ProviderReads, TypeOK, Request
  <2>2. sessions[requests[r].session] \in SessionStates
    BY <2>1 DEF TypeOK
  <2> QED
    BY <1>2, <2>1, <2>2, AnswerType DEF ProviderReads, TypeOK, database
<1>3. CASE ProviderExpires(r)
  <2> DEFINE s == requests[r].session
             after == IF sessions[s] = "open" THEN "expired" ELSE sessions[s]
  <2>1. s \in Sessions
    BY <1>3 DEF ProviderExpires, TypeOK, HandlersKnow, Request
  <2>2. after \in SessionStates
    BY <2>1 DEF TypeOK, SessionStates
  <2> QED
    BY <1>3, <2>1, <2>2, AnswerType DEF ProviderExpires, TypeOK, database
<1> QED
  BY <1>1, <1>2, <1>3 DEF ProviderStep

(* The customer, the provider's clock and the leases keep the types. *)
LEMMA WorldTypes ==
    ASSUME TypeOK, World
    PROVE  TypeOK'
<1>1. ASSUME NEW s \in Sessions, NEW from, NEW to \in SessionStates, Provides(s, from, to)
      PROVE  TypeOK'
  BY <1>1 DEF Provides, TypeOK, database
<1>2. {"paid", "processing", "failed", "expired", "paidTwice"} \subseteq SessionStates
  BY DEF SessionStates
<1>3. ASSUME NEW a \in Attempts, WaitEnds(a) \/ ReplayWindowEnds(a)
      PROVE  TypeOK'
  <2>1. \A c \in Collection : /\ [c EXCEPT !.wait = "free"] \in Collection
                              /\ [c EXCEPT !.submitted = "late"] \in Collection
    BY DEF Collection
  <2>2. collections[a] \in Collection
    BY DEF TypeOK
  <2>3. CASE WaitEnds(a)
    BY <2>1, <2>2, <2>3 DEF WaitEnds, TypeOK
  <2>4. CASE ReplayWindowEnds(a)
    BY <2>1, <2>2, <2>4 DEF ReplayWindowEnds, TypeOK
  <2> QED
    BY <1>3, <2>3, <2>4 DEF WaitEnds, ReplayWindowEnds, TypeOK
<1> QED
  BY <1>1, <1>2, <1>3 DEF World, CustomerPays, CustomerPaysLater, PaymentSettles, PaymentFails,
     SessionExpires, FormCapturedAgain

(* A crash, also between receipt and transaction, keeps the types. *)
LEMMA CrashTypes ==
    ASSUME TypeOK, HandlersKnow, Crash \/ \E r \in Requests : CrashAfterReceipt(r)
    PROVE  TypeOK'
<1>1. Idle \in Request
  BY Shapes DEF Idle, Request, SessionStates
<1>2. CASE Crash
  BY <1>1, <1>2 DEF Crash, TypeOK, database
<1>3. ASSUME NEW r \in Requests, CrashAfterReceipt(r)
      PROVE  TypeOK'
  BY <1>1, <1>3, ReconcilableType DEF CrashAfterReceipt, TypeOK
<1> QED
  BY <1>2, <1>3

(* Every step keeps the types. *)
LEMMA TypeStep == TypeOK /\ HandlersKnow /\ [Next]_vars => TypeOK'
<1> SUFFICES ASSUME TypeOK, HandlersKnow, [Next]_vars PROVE TypeOK'
  OBVIOUS
<1>1. ASSUME NEW r \in Requests, RequestStep(r) PROVE TypeOK'
  <2>1. CASE EvidenceRefused(r)
    BY <2>1, DoneType DEF EvidenceRefused, TypeOK, database
  <2> QED
    BY <1>1, <2>1, ClaimedTypes, AcceptTypes, HoldTypes, RepeatedTypes, ApplyTypes DEF RequestStep
<1>2. CASE UNCHANGED vars
  BY <1>2 DEF vars, TypeOK
<1> QED
  BY <1>1, <1>2, ProviderTypes, OpenTypes, CrashTypes, ShopTypes, WorldTypes DEF Next

-----------------------------------------------------------------------------
(* A handler in flight knows its checkout. *)

(* Every step leaves handlers in flight with what they know. *)
LEMMA HandlersStep == TypeOK /\ HandlersKnow /\ [Next]_vars => HandlersKnow'
<1> SUFFICES ASSUME TypeOK, HandlersKnow, [Next]_vars PROVE HandlersKnow'
  OBVIOUS
<1>1. Idle.pc = "idle" /\ Idle.op = "resume"
  BY DEF Idle
<1>2. ASSUME NEW r \in Requests, Done(r) PROVE HandlersKnow'
  BY <1>1, <1>2 DEF Done, HandlersKnow, TypeOK
<1>3. ASSUME UNCHANGED requests PROVE HandlersKnow'
  BY <1>3 DEF HandlersKnow
<1>4. ASSUME requests' = [r \in Requests |-> Idle] PROVE HandlersKnow'
  BY <1>1, <1>4 DEF HandlersKnow
<1>5. ASSUME NEW r \in Requests, NEW s \in Sessions, NEW state, requests[r].pc # "idle",
             Answer(r, s, state)
      PROVE  HandlersKnow'
  BY <1>5, Shapes DEF Answer, HandlersKnow, TypeOK, Request
<1>6. ASSUME NEW r \in Requests, NEW op \in {"resume", "recheck", "expire"},
             NEW a \in Attempts, NEW s, NEW n, Start(r, op, a, s, n, "account")
      PROVE  HandlersKnow'
  <2>1. a # None /\ settings.account # None
    BY NoneAssumption DEF TypeOK
  <2> QED
    BY <1>6, <2>1 DEF Start, HandlersKnow, TypeOK
<1>7. ASSUME NEW r \in Requests, NEW s, Call(r, s), requests[r].op # "expireCall",
             requests[r].pc # "idle"
      PROVE  HandlersKnow'
  BY <1>7 DEF Call, HandlersKnow, TypeOK, Request
<1>8. ASSUME NEW r \in Requests, RequestStep(r) PROVE HandlersKnow'
  <2>1. CASE SubmitCreate(r) \/ SubmitRetrieve(r)
    BY <1>7, <2>1 DEF SubmitCreate, SubmitRetrieve, MayResume
  <2>2. CASE SubmitExpire(r)
    BY <2>2 DEF SubmitExpire, Acceptable, HandlersKnow, TypeOK, Request
  <2>3. CASE AcceptAnswer(r)
    <3>1. CASE requests' = [requests EXCEPT ![r].pc = "paid"]
      BY <2>3, <3>1 DEF AcceptAnswer, Acceptable, HandlersKnow, TypeOK, Request
    <3> QED
      BY <1>2, <2>3, <3>1 DEF AcceptAnswer
  <2> QED
    BY <1>2, <1>8, <2>1, <2>2, <2>3 DEF RequestStep, CallFails, AccountRefused, ResumeRefused,
       ReopenForm, AnswerRefused, EvidenceRefused, HoldReceipt,
       RepeatedEvidence, ApplyPayment, GiveUp
<1>9. ASSUME NEW r \in Requests, ProviderStep(r) PROVE HandlersKnow'
  <2>1. CASE ProviderCreates(r)
    <3>1. requests[r].ref \in Attempts /\ requests[r].account \in Accounts
      BY <2>1, BoundType DEF ProviderCreates
    <3>2. Created(requests[r].ref, requests[r].account) \in Sessions
      BY <3>1, Shapes DEF Created, Existing
    <3> QED
      BY <1>5, <2>1, <3>2 DEF ProviderCreates
  <2>2. CASE ProviderReads(r) \/ ProviderExpires(r)
    <3>1. requests[r].session \in Sessions
      BY <2>2 DEF ProviderReads, ProviderExpires, HandlersKnow, TypeOK, Request
    <3> QED
      BY <1>5, <2>2, <3>1 DEF ProviderReads, ProviderExpires
  <2> QED
    BY <1>9, <2>1, <2>2 DEF ProviderStep
<1>10. ASSUME NEW r \in Requests, Open(r) PROVE HandlersKnow'
  <2>1. ASSUME NEW s \in Sessions, NEW n \in Captures, Evidence(r, s, n) PROVE HandlersKnow'
    <3>1. RefOf(s) # None /\ settings.account # None /\ s # None
      BY Shapes, NoneAssumption DEF TypeOK
    <3> QED
      BY <2>1, <3>1 DEF Evidence, HandlersKnow, TypeOK
  <2> QED
    BY <1>6, <1>10, <2>1 DEF Open, PayEstimate, PayInvoice, Manage
<1>11. CASE Crash \/ \E r \in Requests : CrashAfterReceipt(r)
  BY <1>4, <1>11 DEF Crash, CrashAfterReceipt
<1>12. CASE ShopStep
  BY <1>3, <1>12 DEF ShopStep, ReviseEstimate, ChangeSettings, Convert, EditInvoice, Void, AddCredit,
     CancelCredit, ManualPayment, DeletePayment, ClearReview, ChangeInvoice
<1>13. CASE World
  BY <1>3, <1>13 DEF World, CustomerPays, CustomerPaysLater, PaymentSettles, PaymentFails,
     SessionExpires, FormCapturedAgain, Provides, WaitEnds, ReplayWindowEnds
<1>14. CASE UNCHANGED vars
  BY <1>3, <1>14 DEF vars
<1> QED
  BY <1>8, <1>9, <1>10, <1>11, <1>12, <1>13, <1>14 DEF Next

-----------------------------------------------------------------------------
(***************************************************************************)
(* Reservations.  Every step but a reservation keeps what Kept says: no    *)
(* invoice disappears, nothing closed is opened, only a reserved checkout  *)
(* is claimed, and an attempt is rewritten only by the payment that closes *)
(* it, onto an invoice that exists.                                        *)
(***************************************************************************)
Kept ==
    /\ Converted \subseteq Converted'
    /\ \A b \in Attempts :
        /\ collections[b].closed => collections'[b].closed
        /\ collections'[b].holder \in {None, collections[b].holder} \/ attempts[b].status # "unused"
        /\ attempts[b].status # "unused" => attempts'[b].status # "unused"
        /\ \/ /\ attempts'[b].onEstimate = attempts[b].onEstimate
              /\ attempts'[b].invoice = attempts[b].invoice
              /\ attempts'[b].status # "unused" => attempts[b].status # "unused"
           \/ attempts'[b].invoice \in Converted' /\ collections'[b].closed

(* Every write of a collection row but a claim keeps it closed if it was, and *)
(* its holder or none. *)
Onward(c, d) == (c.closed => d.closed) /\ d.holder \in {None, c.holder}

(* Each write of a row moves it onward: nothing closed opens, no new holder. *)
LEMMA WritesOnward ==
    ASSUME NEW c \in Collection, NEW r \in Requests, NEW account, NEW state,
           NEW error, NEW close \in BOOLEAN
    PROVE  /\ Onward(c, Release(c, r, state, error, close)) /\ Onward(c, Fail(c, r))
           /\ Onward(c, Finish(c)) /\ Onward(c, Bind(c, account))
           /\ Onward(c, Submit(Bind(c, account))) /\ Onward(c, c)
           /\ Onward(c, Fail(Bind(c, account), r))
           /\ Onward(c, Release(Bind(c, account), r, state, error, close))
<1>1. Onward(c, Release(c, r, state, error, close)) /\ Onward(c, Fail(c, r))
  BY DEF Onward, Fail, Release, Collection
<1>2. Onward(c, Finish(c)) /\ Onward(c, c)
  BY DEF Onward, Finish, Collection
<1>3. /\ Bind(c, account).closed = c.closed /\ Bind(c, account).holder = c.holder
      /\ Submit(Bind(c, account)).closed = c.closed
      /\ Submit(Bind(c, account)).holder = c.holder
  BY DEF Bind, Submit, Collection
<1>4. /\ Onward(c, Fail(Bind(c, account), r))
      /\ Onward(c, Release(Bind(c, account), r, state, error, close))
  BY DEF Onward, Bind, Fail, Release, Collection
<1> QED
  BY <1>1, <1>2, <1>3, <1>4 DEF Onward

(* The version triggers move every row onward. *)
LEMMA StaleOnward ==
    ASSUME TypeOK, NEW S
    PROVE  \A b \in Attempts : Onward(collections[b], Stale(collections, S)[b])
<1>1. \A c \in Collection : /\ [c EXCEPT !.fresh = FALSE].closed = c.closed
                            /\ [c EXCEPT !.fresh = FALSE].holder = c.holder
  BY DEF Collection
<1> QED
  BY <1>1 DEF Stale, Onward, TypeOK

(* A step that writes no attempt row and moves collection rows onward. *)
LEMMA OnwardKept ==
    ASSUME attempts' = attempts, Converted \subseteq Converted',
           \A b \in Attempts : Onward(collections[b], collections'[b])
    PROVE  Kept
  BY DEF Kept, Onward

(* The shop's handlers, the world and the clock keep what a reservation rests on. *)
LEMMA ShopKept ==
    ASSUME TypeOK, ShopStep \/ World
    PROVE  Kept
<1>1. UNCHANGED attempts
  BY DEF ShopStep, World, ReviseEstimate, ChangeSettings, Convert, EditInvoice, Void, AddCredit,
     CancelCredit, ManualPayment, DeletePayment, ClearReview, ChangeInvoice, CustomerPays,
     CustomerPaysLater, PaymentSettles, PaymentFails, SessionExpires, FormCapturedAgain,
     Provides, WaitEnds, ReplayWindowEnds, database
<1>2. ASSUME NEW i \in Invoices, NEW row, ChangeInvoice(i, row), row.status # "none"
      PROVE  Converted \subseteq Converted'
  BY <1>2 DEF ChangeInvoice, Converted, TypeOK
<1>3. \A i \in Invoices : invoices[i] \in Invoice
  BY DEF TypeOK
<1>4. \A row \in Invoice : row.status # "none" =>
        /\ \A c : [row EXCEPT !.credit = c, !.review = TRUE].status # "none"
        /\ \A n, h : MoveManual(row, n, h).status # "none"
        /\ [row EXCEPT !.status = "void"].status # "none"
        /\ [row EXCEPT !.review = FALSE].status # "none"
  BY DEF Invoice, MoveManual
<1>5. Converted \subseteq Converted'
  <2>1. ASSUME NEW i \in Invoices, Convert(i) PROVE Converted \subseteq Converted'
    BY <2>1 DEF Convert, Converted, NewInvoice, TypeOK
  <2>2. ASSUME NEW i \in Invoices,
               \/ Void(i) \/ AddCredit(i) \/ CancelCredit(i) \/ ManualPayment(i) \/ DeletePayment(i)
        PROVE  Converted \subseteq Converted'
    BY <1>2, <1>3, <1>4, <2>2 DEF Void, AddCredit, CancelCredit, ManualPayment, DeletePayment, Live
  <2>3. ASSUME NEW i \in Invoices, ClearReview(i) PROVE Converted \subseteq Converted'
    BY <1>3, <1>4, <2>3 DEF ClearReview, Converted, TypeOK
  <2>4. ASSUME UNCHANGED invoices PROVE Converted \subseteq Converted'
    BY <2>4 DEF Converted
  <2> QED
    BY <2>1, <2>2, <2>3, <2>4 DEF ShopStep, World, ReviseEstimate, ChangeSettings, EditInvoice,
       CustomerPays, CustomerPaysLater, PaymentSettles, PaymentFails, SessionExpires,
       FormCapturedAgain, Provides, WaitEnds, ReplayWindowEnds, database
<1>6. \A b \in Attempts : Onward(collections[b], collections'[b])
  <2>1. ASSUME UNCHANGED collections PROVE \A b \in Attempts : Onward(collections[b], collections'[b])
    BY <2>1, WritesOnward DEF Onward
  <2>2. ASSUME NEW S, collections' = Stale(collections, S)
        PROVE  \A b \in Attempts : Onward(collections[b], collections'[b])
    BY <2>2, StaleOnward
  <2>3. ASSUME NEW a \in Attempts, WaitEnds(a) \/ ReplayWindowEnds(a)
        PROVE  \A b \in Attempts : Onward(collections[b], collections'[b])
    <3>1. \A c \in Collection : /\ Onward(c, [c EXCEPT !.wait = "free"])
                                /\ Onward(c, [c EXCEPT !.submitted = "late"]) /\ Onward(c, c)
      BY DEF Collection, Onward
    <3>2. \A b \in Attempts : collections[b] \in Collection
      BY DEF TypeOK
    <3>3. CASE WaitEnds(a)
      BY <3>1, <3>2, <3>3 DEF WaitEnds, TypeOK
    <3>4. CASE ReplayWindowEnds(a)
      BY <3>1, <3>2, <3>4 DEF ReplayWindowEnds, TypeOK
    <3> QED
      BY <2>3, <3>3, <3>4
  <2> QED
    BY <2>1, <2>2, <2>3 DEF ShopStep, World, ReviseEstimate, ChangeSettings, Convert, EditInvoice,
       Void, AddCredit, CancelCredit, ManualPayment, DeletePayment, ClearReview, ChangeInvoice,
       CustomerPays, CustomerPaysLater, PaymentSettles, PaymentFails, SessionExpires,
       FormCapturedAgain, Provides, database
<1> QED
  BY <1>1, <1>5, <1>6, OnwardKept

(* Writing one row onward keeps what a reservation rests on. *)
LEMMA WriteKept ==
    ASSUME TypeOK, HandlersKnow, NEW r \in Requests, requests[r].pc # "idle",
           UNCHANGED <<attempts, invoices>>,
           NEW c, WriteCollection(r, c), Onward(collections[requests[r].ref], c)
    PROVE  Kept
<1>1. requests[r].ref \in Attempts
  BY BoundType
<1>2. \A b \in Attempts : Onward(collections[b], collections'[b])
  BY <1>1, WritesOnward DEF WriteCollection, TypeOK, Onward
<1> QED
  BY <1>2, OnwardKept DEF Converted

(* A handler's steps before its answer keep what a reservation rests on. *)
LEMMA ClaimedKept ==
    ASSUME TypeOK, HandlersKnow, NEW r \in Requests,
           \/ CallFails(r) \/ AccountRefused(r) \/ ResumeRefused(r) \/ ReopenForm(r)
           \/ SubmitCreate(r) \/ SubmitRetrieve(r) \/ AnswerRefused(r) \/ SubmitExpire(r)
           \/ EvidenceRefused(r) \/ ProviderStep(r)
    PROVE  Kept
<1> DEFINE c == collections[requests[r].ref]
<1>1. ASSUME requests[r].pc # "idle", GiveUp(r) PROVE Kept
  BY <1>1, BoundType, WritesOnward, WriteKept DEF GiveUp
<1>2. ASSUME UNCHANGED database PROVE Kept
  <2>1. \A b \in Attempts : Onward(collections[b], collections'[b])
    BY <1>2 DEF database, Onward
  <2> QED
    BY <1>2, <2>1, OnwardKept DEF database, Converted
<1>3. CASE CallFails(r) \/ AccountRefused(r) \/ AnswerRefused(r)
  BY <1>1, <1>3 DEF CallFails, AccountRefused, AnswerRefused
<1>4. CASE ResumeRefused(r) \/ ReopenForm(r) \/ SubmitCreate(r) \/ SubmitRetrieve(r)
  <2>1. requests[r].pc # "idle" /\ UNCHANGED <<attempts, invoices>>
    BY <1>4 DEF ResumeRefused, ReopenForm, SubmitCreate, SubmitRetrieve, MayResume
  <2>2. c \in Collection /\ Bound(r) = Bind(c, requests[r].account)
    BY <2>1, BoundType DEF Bound
  <2>3. \/ WriteCollection(r, Fail(Bound(r), r)) \/ WriteCollection(r, Submit(Bound(r)))
        \/ WriteCollection(r, Release(Bound(r), r, "unresolved", FALSE, FALSE))
        \/ WriteCollection(r, Bound(r))
    BY <1>4 DEF ResumeRefused, ReopenForm, SubmitCreate, SubmitRetrieve
  <2> QED
    BY <2>1, <2>2, <2>3, WritesOnward, WriteKept
<1>5. CASE SubmitExpire(r) \/ EvidenceRefused(r) \/ ProviderStep(r)
  BY <1>2, <1>5 DEF SubmitExpire, EvidenceRefused, ProviderStep, ProviderCreates,
     ProviderReads, ProviderExpires
<1> QED
  BY <1>3, <1>4, <1>5

(* Accepting an answer keeps what a reservation rests on. *)
LEMMA AcceptKept ==
    ASSUME TypeOK, HandlersKnow, ClaimsReserved, NEW r \in Requests, AcceptAnswer(r)
    PROVE  Kept
<1> DEFINE a == requests[r].ref
           c == collections[a]
<1>1. a \in Attempts /\ c \in Collection /\ attempts[a] \in Attempt
  BY BoundType DEF AcceptAnswer, Acceptable, TypeOK
<1>2. attempts[a].status # "unused"
  BY <1>1, NoneAssumption DEF AcceptAnswer, Acceptable, Owns, ClaimsReserved
<1>3. \A b \in Attempts : Onward(collections[b], collections'[b])
  <2> DEFINE stale == requests[r].op = "resume" /\ ~Paid(requests[r].seen) /\ ~SnapshotSame(a)
             ended == requests[r].seen = "expired" /\ ~stale
             d == IF stale THEN Fail(c, r)
                  ELSE Release(c, r, IF ended THEN "expired" ELSE "unresolved", FALSE, ended)
  <2>1. WriteCollection(r, d)
    BY DEF AcceptAnswer
  <2>2. Onward(c, d)
    BY <1>1, WritesOnward
  <2> QED
    BY <1>1, <2>1, <2>2 DEF WriteCollection, TypeOK, Onward
<1>4. Converted' = Converted
  BY DEF AcceptAnswer, Converted
<1>5. /\ \A b \in Attempts \ {a} : attempts'[b] = attempts[b]
      /\ attempts'[a].onEstimate = attempts[a].onEstimate
      /\ attempts'[a].invoice = attempts[a].invoice
      /\ attempts'[a].status # "unused"
  <2>1. \A row \in Attempt : \A s, e \in BOOLEAN :
          LET new == [row EXCEPT !.session = IF s THEN requests[r].session ELSE @,
                                 !.status = IF e THEN "expired" ELSE @]
          IN  /\ new.onEstimate = row.onEstimate /\ new.invoice = row.invoice
              /\ row.status # "unused" => new.status # "unused"
    BY DEF Attempt
  <2> QED
    BY <1>1, <1>2, <2>1 DEF AcceptAnswer, TypeOK
<1> QED
  BY <1>2, <1>3, <1>4, <1>5 DEF Kept, Onward

(* Holding or repeating evidence keeps what a reservation rests on. *)
LEMMA ReconcileKept ==
    ASSUME TypeOK, HandlersKnow, NEW r \in Requests,
           HoldReceipt(r) \/ RepeatedEvidence(r) \/ CrashAfterReceipt(r)
    PROVE  Kept
<1>1. CASE HoldReceipt(r)
  <2>1. \A b \in Attempts : Onward(collections[b], collections'[b])
    BY <1>1, StaleOnward DEF HoldReceipt
  <2>2. Converted \subseteq Converted'
    <3>1. \A row \in Invoice : Held(row).status = row.status
      BY DEF Held, Invoice
    <3> QED
      BY <1>1, <3>1 DEF HoldReceipt, Converted, TypeOK
  <2> QED
    BY <1>1, <2>1, <2>2, OnwardKept DEF HoldReceipt
<1>2. CASE RepeatedEvidence(r)
  <2>1. requests[r].pc # "idle" /\ collections[requests[r].ref] \in Collection
    BY <1>2, ReconcilableType, BoundType DEF RepeatedEvidence
  <2>2. CASE UNCHANGED collections
    BY <1>2, <2>2, OnwardKept DEF RepeatedEvidence, Converted, Onward
  <2>3. CASE WriteCollection(r, Finish(collections[requests[r].ref]))
    BY <1>2, <2>1, <2>3, WritesOnward, WriteKept DEF RepeatedEvidence
  <2> QED
    BY <1>2, <2>2, <2>3 DEF RepeatedEvidence
<1>3. CASE CrashAfterReceipt(r)
  BY <1>3, OnwardKept DEF CrashAfterReceipt, Converted, Onward
<1> QED
  BY <1>1, <1>2, <1>3

(* Applying a payment keeps what a reservation rests on. *)
LEMMA ApplyKept ==
    ASSUME TypeOK, HandlersKnow, NEW r \in Requests, ApplyPayment(r)
    PROVE  Kept
<1> DEFINE a == requests[r].ref
           t == Txn(r)
           i == InvoiceFor(a)
           row == RowFor(i)
           touched == ReservedOn(i) \cup {a}
<1>1. a \in Attempts /\ i \in Invoices /\ attempts[a] \in Attempt
  BY ReconcilableType, InvoiceForType DEF ApplyPayment, TypeOK
<1>2. i \in Converted' /\ Converted \subseteq Converted'
  <2>1. row \in Invoice /\ row.status # "none"
    <3>1. invoices[i] \in Invoice /\ estimate.total \in Totals
      BY <1>1 DEF TypeOK, Estimate
    <3>2. estimate.total \in Nat
      BY <3>1, AmountsAssumption
    <3>3. NewInvoice(estimate.total) \in Invoice /\ NewInvoice(estimate.total).status = "live"
      BY <3>2 DEF NewInvoice, Invoice
    <3> QED
      BY <3>1, <3>3 DEF RowFor, Converted
  <2>2. \A p, h : [row EXCEPT !.paid = p, !.review = h].status = row.status
    BY <2>1 DEF Invoice
  <2>3. \E p, h : invoices' = [invoices EXCEPT ![i] = [row EXCEPT !.paid = p, !.review = h]]
    BY <2>1 DEF ApplyPayment, Invoice
  <2> QED
    BY <1>1, <2>1, <2>2, <2>3 DEF Converted, TypeOK
<1>3. /\ \A b \in Attempts : Onward(collections[b], collections'[b])
      /\ collections'[a].closed
  <2> DEFINE cs == Stale(collections, touched)
  <2>1. cs \in [Attempts -> Collection] /\ \A b \in Attempts : Onward(collections[b], cs[b])
    BY StaleType, StaleOnward DEF TypeOK
  <2>2. Onward(cs[a], Finish(cs[a])) /\ Finish(cs[a]).closed
    BY <1>1, <2>1 DEF Onward, Finish, Collection
  <2>3. collections' = [cs EXCEPT ![a] = Finish(cs[a])]
    BY <1>1, <2>1 DEF ApplyPayment
  <2> QED
    BY <1>1, <2>1, <2>2, <2>3 DEF Onward
<1>4. \/ attempts' = attempts
      \/ /\ attempts'[a].status # "unused" /\ attempts'[a].invoice = i
         /\ \A b \in Attempts \ {a} : attempts'[b] = attempts[b]
  <2>1. \A s : LET new == [attempts[a] EXCEPT !.status = "paid", !.txn = t, !.invoice = i, !.session = s]
               IN  new.status = "paid" /\ new.invoice = i
    BY <1>1 DEF Attempt
  <2> QED
    BY <1>1, <2>1 DEF ApplyPayment, TypeOK
<1> QED
  BY <1>2, <1>3, <1>4 DEF Kept, Onward

(* Opening a checkout reserves a new one, or claims one that is reserved. *)
Reserves(r) ==
    \E a \in Attempts, i \in 0..MaxInvoices : \E amount, kind :
        /\ i # NoInvoice => i \in Converted
        /\ Reserve(r, a, i, amount, kind)
        /\ UNCHANGED invoices

(* Opening a checkout reserves a new one or keeps what a reservation rests on. *)
LEMMA OpenKept ==
    ASSUME TypeOK, NEW r \in Requests, Open(r)
    PROVE  Kept \/ Reserves(r)
<1>1. ASSUME NEW a \in Attempts, attempts[a].status # "unused",
             collections' = [collections EXCEPT ![a] = Claim(@, r)], UNCHANGED <<attempts, invoices>>
      PROVE  Kept
  <2>1. \A c \in Collection : Claim(c, r).closed = c.closed
    BY DEF Claim, Collection
  <2> QED
    BY <1>1, <2>1 DEF Kept, Converted, TypeOK
<1>2. ASSUME NEW a \in Attempts, NEW i \in Invoices, NEW kind \in Kinds, PayInvoice(r, a, i, kind)
      PROVE  Kept \/ Reserves(r)
  <2>1. CASE Reserve(r, a, i, Amount(i, kind), kind)
    BY <1>2, <2>1 DEF PayInvoice, Reserves, Live, Converted, Invoices
  <2>2. CASE Reuse(r, a, i, Amount(i, kind), kind)
    BY <1>1, <1>2, <2>2 DEF PayInvoice, Reuse, RelatedPending, Unresolved
  <2> QED
    BY <1>2, <2>1, <2>2 DEF PayInvoice
<1>3. ASSUME NEW a \in Attempts, PayEstimate(r, a) PROVE Reserves(r)
  BY <1>3 DEF PayEstimate, Reserves
<1>4. ASSUME NEW a \in Attempts, NEW op \in {"resume", "recheck", "expire"}, Manage(r, a, op)
      PROVE  Kept
  BY <1>1, <1>4 DEF Manage
<1>5. ASSUME NEW s \in Sessions, NEW n \in Captures, Evidence(r, s, n) PROVE Kept
  BY <1>5, OnwardKept DEF Evidence, database, Converted, Onward
<1> QED
  BY <1>2, <1>3, <1>4, <1>5 DEF Open

(* Every step but a reservation keeps what a reservation rests on. *)
LEMMA StepKept ==
    ASSUME TypeOK, HandlersKnow, ClaimsReserved, [Next]_vars
    PROVE  Kept \/ \E r \in Requests : Reserves(r)
<1>1. ASSUME UNCHANGED database PROVE Kept
  <2>1. \A b \in Attempts : Onward(collections[b], collections'[b])
    BY <1>1 DEF database, Onward
  <2> QED
    BY <1>1, <2>1, OnwardKept DEF database, Converted
<1>2. CASE Crash \/ UNCHANGED vars
  BY <1>1, <1>2 DEF Crash, vars, database
<1>3. ASSUME NEW r \in Requests, RequestStep(r) \/ ProviderStep(r) PROVE Kept
  BY <1>3, ClaimedKept, AcceptKept, ReconcileKept, ApplyKept DEF RequestStep
<1> QED
  BY <1>2, <1>3, OpenKept, ReconcileKept, ShopKept DEF Next

(* A reservation finds nothing unresolved, so it is the only one. *)
LEMMA ReserveStep ==
    ASSUME TypeOK, AttemptsPlaced, ClaimsReserved, NEW r \in Requests, Reserves(r)
    PROVE  /\ AttemptsPlaced' /\ ClaimsReserved'
           /\ OneReservation'
<1>1. PICK a \in Attempts, i \in 0..MaxInvoices :
        /\ i # NoInvoice => i \in Converted
        /\ \E amount, kind : Reserve(r, a, i, amount, kind)
        /\ UNCHANGED invoices
  BY DEF Reserves
<1>2. /\ \A b \in Attempts \ {a} :
            attempts'[b] = attempts[b] /\ collections'[b] = collections[b]
      /\ attempts'[a].status = "pending" /\ attempts'[a].onEstimate = (i = NoInvoice)
      /\ attempts'[a].invoice = i
  BY <1>1 DEF Reserve, TypeOK
<1>3. Converted' = Converted
  BY <1>1 DEF Converted
<1>4. \A b \in Attempts : ~Unresolved(b)
  BY <1>1 DEF Reserve, RelatedPending, AttemptsPlaced, Unresolved
<1>5. AttemptsPlaced' /\ ClaimsReserved'
  BY <1>1, <1>2, <1>3 DEF AttemptsPlaced, ClaimsReserved
<1>6. OneReservation'
  BY <1>2, <1>4 DEF OneReservation, Unresolved
<1> QED
  BY <1>5, <1>6

(* A step of that kind leaves at most the reservation there was. *)
LEMMA KeptStep ==
    ASSUME AttemptsPlaced, ClaimsReserved, OneReservation, Kept
    PROVE  AttemptsPlaced' /\ ClaimsReserved' /\ OneReservation'
<1>1. \A b \in Attempts : Unresolved(b)' => Unresolved(b)
  BY DEF Kept, Unresolved
<1>2. AttemptsPlaced'
  BY DEF Kept, AttemptsPlaced
<1>3. ClaimsReserved'
  BY DEF Kept, ClaimsReserved
<1> QED
  BY <1>1, <1>2, <1>3 DEF OneReservation

-----------------------------------------------------------------------------
(***************************************************************************)
(* The inductive invariant: types and handlers, and what makes a           *)
(* reservation exclude every other.                                        *)
(***************************************************************************)
Reservations ==
    TypeOK /\ HandlersKnow /\ AttemptsPlaced /\ ClaimsReserved /\ OneReservation

(* Reservations holds initially and every step keeps it. *)
LEMMA ReservationsInductive ==
    /\ Init => Reservations
    /\ Reservations /\ [Next]_vars => Reservations'
<1>1. Init => Reservations
  <2>1. Init => ClaimsReserved /\ OneReservation
    BY DEF Init, ClaimsReserved, OneReservation, Unresolved
  <2> QED
    BY <2>1, InitTypes DEF Reservations
<1>2. ASSUME Reservations, [Next]_vars PROVE Reservations'
  <2>1. TypeOK' /\ HandlersKnow'
    BY <1>2, TypeStep, HandlersStep DEF Reservations
  <2>2. AttemptsPlaced' /\ ClaimsReserved' /\ OneReservation'
    BY <1>2, StepKept, ReserveStep, KeptStep DEF Reservations
  <2> QED
    BY <2>1, <2>2 DEF Reservations
<1> QED
  BY <1>1, <1>2

(***************************************************************************)
(* Every reachable state is a state of the rows, the handlers and the      *)
(* provider that the types describe.                                       *)
(***************************************************************************)
THEOREM TypeCorrect == Spec => []TypeOK
<1>1. Spec => []Reservations
  BY ReservationsInductive, PTL DEF Spec
<1>2. Reservations => TypeOK
  BY DEF Reservations
<1> QED
  BY <1>1, <1>2, PTL

(***************************************************************************)
(* However many handlers, attempts, accounts and invoices there are, an    *)
(* order never has two unresolved checkouts (relatedPending, with the      *)
(* reservation and the check in one synchronous stretch).                  *)
(***************************************************************************)
THEOREM OneReservationHolds == Spec => []OneReservation
<1>1. Spec => []Reservations
  BY ReservationsInductive, PTL DEF Spec
<1>2. Reservations => OneReservation
  BY DEF Reservations
<1> QED
  BY <1>1, <1>2, PTL

-----------------------------------------------------------------------------
(***************************************************************************)
(* Sessions and settled checkouts.  Every session is the first create of   *)
(* its checkout, in the account the checkout is bound to.                  *)
(***************************************************************************)
SessionsTraced ==
    \A s \in Sessions : sessions[s] # "none" =>
        /\ s[3] = 1 /\ AccountOf(s) = collections[RefOf(s)].account
        /\ collections[RefOf(s)].submitted # "no"

(* A form is captured again and never expires, a Stripe session the other way. *)
ProviderKind ==
    \A s \in Sessions : IF Stripe THEN sessions[s] # "paidTwice" ELSE sessions[s] # "expired"

Creating(q) == q.pc = "call" /\ q.op = "resume" /\ q.session = None

(* A create that is out is of a checkout whose key the provider remembers; a *)
(* form is created while there is none.                                      *)
CreateTrue(q) ==
    Creating(q) =>
        /\ collections[q.ref].submitted = "fresh" /\ collections[q.ref].account = q.account
        /\ ~Stripe => \A s \in Sessions : RefOf(s) = q.ref => sessions[s] = "none"

(* What a handler knows of its session: a fate that is final is still true.  *)
AnswerTrue(q) ==
    /\ q.session # None => sessions[q.session] # "none"
    /\ q.n # 1 => q.session # None /\ Charged(<<q.session, q.n>>)
    /\ q.pc \in {"answered", "paid"} =>
           /\ q.seen = "expired" => sessions[q.session] = "expired"
           /\ Paid(q.seen) => Paid(sessions[q.session])

HandlerShaped(q) ==
    /\ q.op = "resume" => q.n = 1
    /\ q.op = "expireCall" => Stripe
    /\ q.pc = "paid" \/ q.op = "evidence" => RefOf(q.session) = q.ref
    /\ q.pc = "paid" => Paid(q.seen)
    /\ q.op = "evidence" => q.pc \in {"answered"}

HandlerTrue(q) == CreateTrue(q) /\ AnswerTrue(q) /\ HandlerShaped(q)

HandlersTrue == \A r \in Requests : HandlerTrue(requests[r])

OneCreate ==
    ~Stripe => \A r, q \in Requests :
        Creating(requests[r]) /\ Creating(requests[q]) /\ requests[r].ref = requests[q].ref => r = q

(* A checkout is closed exactly when it is settled, nobody holds it then, and *)
(* the provider and the books agree with how it was settled.                  *)
RowAgrees(a) ==
    /\ attempts[a].status = "unused" => collections[a].submitted = "no"
    /\ IF collections[a].closed
       THEN /\ collections[a].holder = None /\ collections[a].state = attempts[a].status
            /\ attempts[a].status \in {"expired", "paid"}
       ELSE attempts[a].status \in {"unused", "pending"}
    /\ attempts[a].status = "expired" =>
           \E s \in Sessions : RefOf(s) = a /\ sessions[s] = "expired"
    /\ attempts[a].status = "paid" =>
           /\ attempts[a].txn \in Transactions /\ RefOf(attempts[a].txn[1]) = a
           /\ Charged(attempts[a].txn) /\ posted[attempts[a].txn] = attempts[a].invoice
           /\ attempts[a].invoice # NoInvoice /\ receipts[attempts[a].txn].state # "none"
    /\ attempts[a].invoice # NoInvoice => attempts[a].invoice \in Converted
    /\ attempts[a].session # None =>
           RefOf(attempts[a].session) = a /\ sessions[attempts[a].session] # "none"

RowsAgree == \A a \in Attempts : RowAgrees(a)

(* Only money that was taken has a receipt, and only a settled checkout's is *)
(* on an invoice.                                                            *)
ReceiptTrue(t) ==
    /\ receipts[t].state # "none" => Charged(t)
    /\ posted[t] # NoInvoice => Charged(t) /\ attempts[RefOf(t[1])].status = "paid"
    /\ receipts[t].invoice # NoInvoice => receipts[t].invoice \in Converted
    /\ Settled(receipts[t]) => receipts[t].invoice # NoInvoice

ReceiptsTrue == \A t \in Transactions : ReceiptTrue(t)

Records == SessionsTraced /\ ProviderKind /\ RowsAgree /\ ReceiptsTrue /\ HeldEvidence

Certain == Records /\ HandlersTrue /\ OneCreate

IInv == Reservations /\ Certain

(* A session has three parts, and with them it is one.                       *)
LEMMA SessionParts ==
    ASSUME NEW s \in Sessions
    PROVE  /\ RefOf(s) \in Attempts /\ AccountOf(s) \in Accounts /\ s[3] \in {1, 2}
           /\ s = <<RefOf(s), AccountOf(s), s[3]>>
  BY DEF Sessions, RefOf, AccountOf

(* Of the sessions that exist, a checkout has one.                           *)
LEMMA OneOfRef ==
    ASSUME SessionsTraced, NEW s \in Sessions, NEW u \in Sessions, RefOf(s) = RefOf(u),
           sessions[s] # "none", sessions[u] # "none"
    PROVE  s = u
  BY SessionParts DEF SessionsTraced

(* A charge is of a session that exists, and lasts.                          *)
LEMMA ChargedFacts ==
    ASSUME NEW t \in Transactions, Charged(t)
    PROVE  /\ t[1] \in Sessions /\ RefOf(t[1]) \in Attempts
           /\ Paid(sessions[t[1]]) /\ sessions[t[1]] \notin {"none", "open", "expired"}
  BY Shapes DEF Charged, Paid

-----------------------------------------------------------------------------
(* What a step may do to the sessions, the rows and the receipts without     *)
(* settling a checkout                                                       *)

(* A fate that is final stays.                                               *)
Forward ==
    \A s \in Sessions :
        /\ sessions[s] # "none" => sessions'[s] # "none"
        /\ sessions[s] = "expired" => sessions'[s] = "expired"
        /\ Paid(sessions[s]) => Paid(sessions'[s])
        /\ sessions[s] = "paidTwice" => sessions'[s] = "paidTwice"

BooksKept ==
    /\ Converted \subseteq Converted'
    /\ \A t \in Transactions :
        /\ posted[t] # NoInvoice => posted'[t] = posted[t]
        /\ receipts[t].state # "none" => receipts'[t].state # "none"

Moved(c, d) ==
    /\ d.closed <=> c.closed
    /\ c.closed => d.state = c.state /\ d.holder = None
    /\ c.account = None \/ d.account = c.account
    /\ c.submitted # "no" => d.submitted # "no"

Carried(c, d) == Moved(c, d) /\ d.submitted = c.submitted

RowCalm(a) ==
    /\ attempts'[a].status = attempts[a].status /\ attempts'[a].txn = attempts[a].txn
    /\ attempts'[a].invoice = attempts[a].invoice
    /\ \/ attempts'[a].session \in {attempts[a].session, None}
       \/ RefOf(attempts'[a].session) = a /\ sessions'[attempts'[a].session] # "none"
    /\ Moved(collections[a], collections'[a])
    /\ attempts[a].status = "unused" => collections'[a].submitted = collections[a].submitted

(* Whose creates are out is not touched, but for those of R.                 *)
Undisturbed(R) ==
    /\ Forward
    /\ \A r \in Requests \ R : Creating(requests[r]) =>
           /\ collections'[requests[r].ref].submitted = collections[requests[r].ref].submitted
           /\ collections'[requests[r].ref].account = collections[requests[r].ref].account
           /\ ~Stripe => \A s \in Sessions :
                  RefOf(s) = requests[r].ref => sessions'[s] = sessions[s]

(* A charge lasts.                                                           *)
LEMMA ForwardCharged ==
    ASSUME Forward, NEW t \in Transactions, Charged(t)
    PROVE  Charged(t)'
  BY Shapes DEF Charged, Forward

(* Sessions stay traced when none is new and no row forgets.                 *)
LEMMA TracedKept ==
    ASSUME SessionsTraced, \A s \in Sessions : sessions'[s] # "none" => sessions[s] # "none",
           \A a \in Attempts : Moved(collections[a], collections'[a])
    PROVE  SessionsTraced'
<1> SUFFICES ASSUME NEW s \in Sessions, sessions'[s] # "none"
             PROVE  /\ s[3] = 1 /\ AccountOf(s) = collections'[RefOf(s)].account
                    /\ collections'[RefOf(s)].submitted # "no"
  BY DEF SessionsTraced
<1>1. RefOf(s) \in Attempts /\ AccountOf(s) # None
  BY SessionParts
<1> QED
  BY <1>1 DEF SessionsTraced, Moved

(* A row that is not settled in this step agrees as before.                  *)
LEMMA RowKeeps ==
    ASSUME TypeOK, NEW a \in Attempts, RowAgrees(a), Forward, BooksKept, RowCalm(a)
    PROVE  RowAgrees(a)'
<1>1. attempts[a].session \in Sessions \cup {None} /\ attempts[a].txn \in Transactions \cup {None}
  BY DEF TypeOK, Attempt
<1>2. (attempts[a].status = "paid" => Charged(attempts[a].txn))'
  <2> SUFFICES ASSUME attempts'[a].status = "paid"
               PROVE  Charged(attempts[a].txn)'
    OBVIOUS
  <2>1. PICK t \in Transactions : t = attempts[a].txn
    BY DEF RowAgrees, RowCalm
  <2>2. Charged(t)'
    BY <2>1, ForwardCharged DEF RowAgrees, RowCalm
  <2> QED
    BY <2>1, <2>2 DEF RowCalm
<1>3. attempts'[a].status = "expired" =>
        \E s \in Sessions : RefOf(s) = a /\ sessions'[s] = "expired"
  BY DEF RowAgrees, RowCalm, Forward
<1>4. attempts'[a].session # None =>
        RefOf(attempts'[a].session) = a /\ sessions'[attempts'[a].session] # "none"
  BY <1>1 DEF RowAgrees, RowCalm, Forward
<1>5. attempts'[a].status = "paid" =>
        /\ attempts'[a].txn \in Transactions /\ RefOf(attempts'[a].txn[1]) = a
        /\ posted'[attempts'[a].txn] = attempts'[a].invoice
        /\ attempts'[a].invoice # NoInvoice /\ receipts'[attempts'[a].txn].state # "none"
  BY DEF RowAgrees, RowCalm, BooksKept
<1>6. attempts'[a].invoice # NoInvoice => attempts'[a].invoice \in Converted'
  BY DEF RowAgrees, RowCalm, BooksKept
<1>7. /\ attempts'[a].status = "unused" => collections'[a].submitted = "no"
      /\ IF collections'[a].closed
         THEN /\ collections'[a].holder = None /\ collections'[a].state = attempts'[a].status
              /\ attempts'[a].status \in {"expired", "paid"}
         ELSE attempts'[a].status \in {"unused", "pending"}
  BY DEF RowAgrees, RowCalm, Moved
<1> QED
  BY <1>2, <1>3, <1>4, <1>5, <1>6, <1>7 DEF RowAgrees

(* A receipt that is not written, or settled once more on the same invoice,  *)
(* is as true as before.                                                     *)
LEMMA ReceiptKeeps ==
    ASSUME NEW t \in Transactions, ReceiptTrue(t), Forward, BooksKept,
           attempts[RefOf(t[1])].status = "paid" => attempts'[RefOf(t[1])].status = "paid",
           posted'[t] = posted[t],
           \/ receipts'[t] = receipts[t]
           \/ /\ receipts[t].state # "none" /\ receipts'[t].invoice = receipts[t].invoice
              /\ receipts[t].invoice # NoInvoice
    PROVE  ReceiptTrue(t)'
  BY ForwardCharged DEF ReceiptTrue, BooksKept, Settled

HeldTrue(t) ==
    receipts[t].state = "review" /\ ~Extra(RefOf(t[1]), t) =>
        \/ Unresolved(RefOf(t[1]))
        \/ /\ receipts[t].invoice # NoInvoice
           /\ invoices[receipts[t].invoice].review

(* Evidence stays held unless its receipt is written.                        *)
LEMMA HeldKeeps ==
    ASSUME NEW t \in Transactions, HeldTrue(t),
           receipts'[t].state = "review" => receipts'[t] = receipts[t],
           Extra(RefOf(t[1]), t) => Extra(RefOf(t[1]), t)',
           Unresolved(RefOf(t[1])) => Unresolved(RefOf(t[1]))' \/ Extra(RefOf(t[1]), t)',
           receipts[t].state = "review" /\ receipts[t].invoice # NoInvoice
               /\ invoices[receipts[t].invoice].review
               => invoices'[receipts[t].invoice].review
    PROVE  HeldTrue(t)'
  BY DEF HeldTrue

(* HeldEvidence, receipt by receipt.                                         *)
LEMMA HeldParts == HeldEvidence <=> \A t \in Transactions : HeldTrue(t)
  BY DEF HeldEvidence, HeldTrue

-----------------------------------------------------------------------------
(* Handlers that are not at work in a step                                   *)

(* A handler that waits knows afterwards what it knew.                       *)
LEMMA HandlerStays ==
    ASSUME NEW h \in Request, HandlerTrue(h), Forward,
           h.pc \in {"answered", "paid"} => h.session # None,
           Creating(h) =>
               /\ collections'[h.ref].submitted = collections[h.ref].submitted
               /\ collections'[h.ref].account = collections[h.ref].account
               /\ ~Stripe => \A s \in Sessions : RefOf(s) = h.ref => sessions'[s] = sessions[s]
    PROVE  HandlerTrue(h)'
<1>1. h.session \in Sessions \cup {None} /\ h.n \in Captures
  BY DEF Request
<1>2. CreateTrue(h)'
  BY DEF HandlerTrue, CreateTrue, Creating
<1>3. h.n # 1 => Charged(<<h.session, h.n>>)'
  <2> SUFFICES ASSUME h.n # 1 PROVE Charged(<<h.session, h.n>>)'
    OBVIOUS
  <2>1. <<h.session, h.n>> \in Transactions
    BY <1>1, Shapes DEF HandlerTrue, AnswerTrue
  <2> QED
    BY <2>1, ForwardCharged DEF HandlerTrue, AnswerTrue
<1>4. AnswerTrue(h)'
  BY <1>1, <1>3 DEF HandlerTrue, AnswerTrue, Forward
<1>5. HandlerShaped(h)
  BY DEF HandlerTrue
<1> QED
  BY <1>2, <1>4, <1>5 DEF HandlerTrue, HandlerShaped

(* An idle handler claims to know nothing.                                   *)
LEMMA IdleTrue == HandlerTrue(Idle) /\ HandlerTrue(Idle)' /\ ~Creating(Idle)
  BY DEF Idle, HandlerTrue, CreateTrue, AnswerTrue, HandlerShaped, Creating

(* A handler not in R knows what it knew, unless the step moves it.          *)
LEMMA OthersStay ==
    ASSUME TypeOK, HandlersKnow, HandlersTrue, NEW R, Undisturbed(R), NEW p \in Requests \ R
    PROVE  HandlerTrue(requests[p])'  \/ requests'[p] # requests[p]
<1> SUFFICES ASSUME requests'[p] = requests[p] PROVE HandlerTrue(requests[p])'
  OBVIOUS
<1>1. PICK h \in Request : h = requests[p]
  BY DEF TypeOK
<1>2. HandlerTrue(h) /\ Forward /\ (h.pc \in {"answered", "paid"} => h.session # None)
  BY <1>1 DEF HandlersTrue, HandlersKnow, Undisturbed
<1>3. Creating(h) =>
        /\ collections'[h.ref].submitted = collections[h.ref].submitted
        /\ collections'[h.ref].account = collections[h.ref].account
        /\ ~Stripe => \A s \in Sessions : RefOf(s) = h.ref => sessions'[s] = sessions[s]
  BY <1>1 DEF Undisturbed
<1>4. HandlerTrue(h)'
  BY <1>2, <1>3, HandlerStays
<1> QED
  BY <1>1, <1>4

(* One handler goes on, the others wait.                                     *)
LEMMA HandlersKeep ==
    ASSUME TypeOK, HandlersKnow, HandlersTrue, OneCreate, NEW r \in Requests, NEW q,
           requests' = [requests EXCEPT ![r] = q], HandlerTrue(q)', Undisturbed({r}),
           ~Stripe /\ Creating(q) =>
               \A p \in Requests \ {r} : ~(Creating(requests[p]) /\ requests[p].ref = q.ref)
    PROVE  HandlersTrue' /\ OneCreate'
<1>1. requests'[r] = q /\ \A p \in Requests \ {r} : requests'[p] = requests[p]
  BY DEF TypeOK
<1>2. HandlersTrue'
  BY <1>1, OthersStay DEF HandlersTrue
<1>3. OneCreate'
  BY <1>1 DEF OneCreate
<1> QED
  BY <1>2, <1>3

(* One handler ends, the others wait.                                        *)
LEMMA HandlerEnds ==
    ASSUME TypeOK, HandlersKnow, HandlersTrue, OneCreate, NEW r \in Requests,
           Done(r), Undisturbed({r})
    PROVE  HandlersTrue' /\ OneCreate'
  BY HandlersKeep, IdleTrue DEF Done

(* Every handler waits.                                                      *)
LEMMA HandlersRest ==
    ASSUME TypeOK, HandlersKnow, HandlersTrue, OneCreate, UNCHANGED requests, Undisturbed({})
    PROVE  HandlersTrue' /\ OneCreate'
<1>1. HandlersTrue'
  BY OthersStay DEF HandlersTrue
<1>2. OneCreate'
  BY DEF OneCreate
<1> QED
  BY <1>1, <1>2

(* A crash leaves no handler.                                                *)
LEMMA HandlersGone ==
    ASSUME requests' = [p \in Requests |-> Idle]
    PROVE  HandlersTrue' /\ OneCreate'
<1>1. \A p \in Requests : requests'[p] = Idle
  OBVIOUS
<1>2. HandlersTrue'
  BY <1>1, IdleTrue DEF HandlersTrue
<1>3. OneCreate'
  BY <1>1, IdleTrue DEF OneCreate
<1> QED
  BY <1>2, <1>3

-----------------------------------------------------------------------------
(* Writes of a row, and steps that settle nothing                            *)

(* Each write of a row that neither submits nor closes it carries it on.     *)
LEMMA WritesCarry ==
    ASSUME NEW c \in Collection, c.closed => c.holder = None, NEW r \in Requests,
           NEW account \in Accounts, NEW state, NEW error
    PROVE  /\ Carried(c, c) /\ Carried(c, Fail(c, r))
           /\ Carried(c, Release(c, r, state, error, FALSE))
           /\ Carried(c, Bind(c, account)) /\ Carried(c, Fail(Bind(c, account), r))
           /\ Carried(c, Release(Bind(c, account), r, state, error, FALSE))
           /\ ~c.closed => Carried(c, Claim(c, r)) /\ Carried(c, Claim([c EXCEPT !.fresh = TRUE], r))
           /\ c.closed /\ c.state = "paid" => Carried(c, Finish(c))
           /\ Carried(c, [c EXCEPT !.fresh = FALSE]) /\ Carried(c, [c EXCEPT !.wait = "free"])
           /\ Moved(c, Submit(Bind(c, account))) /\ Submit(Bind(c, account)).submitted # "no"
           /\ c.submitted \in {"no", "fresh"} => Submit(Bind(c, account)).submitted = "fresh"
           /\ Moved(c, [c EXCEPT !.submitted = "late"])
<1>1. Carried(c, c) /\ Carried(c, Bind(c, account))
  BY DEF Carried, Moved, Bind, Collection
<1>2. \A d \in Collection : Carried(c, d) /\ d.holder = c.holder =>
        Carried(c, Release(d, r, state, error, FALSE))
  BY DEF Carried, Moved, Release, Collection
<1>3. Bind(c, account) \in Collection /\ Bind(c, account).holder = c.holder
  BY BindType DEF Bind, Collection
<1>4. /\ Carried(c, Release(c, r, state, error, FALSE))
      /\ Carried(c, Release(Bind(c, account), r, state, error, FALSE))
  BY <1>1, <1>2, <1>3
<1>5. \A d \in Collection : Carried(c, d) /\ d.holder = c.holder => Carried(c, Fail(d, r))
  BY DEF Carried, Moved, Fail, Release, Collection
<1>6. Carried(c, Fail(c, r)) /\ Carried(c, Fail(Bind(c, account), r))
  BY <1>1, <1>3, <1>5
<1>7. /\ ~c.closed => Carried(c, Claim(c, r)) /\ Carried(c, Claim([c EXCEPT !.fresh = TRUE], r))
      /\ c.closed /\ c.state = "paid" => Carried(c, Finish(c))
      /\ Carried(c, [c EXCEPT !.fresh = FALSE]) /\ Carried(c, [c EXCEPT !.wait = "free"])
      /\ Moved(c, [c EXCEPT !.submitted = "late"])
  BY DEF Carried, Moved, Claim, Finish, Collection
<1>8. /\ Moved(c, Submit(Bind(c, account))) /\ Submit(Bind(c, account)).submitted # "no"
      /\ c.submitted \in {"no", "fresh"} => Submit(Bind(c, account)).submitted = "fresh"
  BY <1>1, <1>3 DEF Carried, Moved, Submit, Collection
<1> QED
  BY <1>1, <1>4, <1>6, <1>7, <1>8

(* A closed row has no holder, whichever it is.                              *)
LEMMA RowFacts ==
    ASSUME TypeOK, RowsAgree, NEW a \in Attempts
    PROVE  /\ collections[a] \in Collection /\ attempts[a] \in Attempt /\ RowAgrees(a)
           /\ collections[a].closed => collections[a].holder = None
  BY DEF TypeOK, RowsAgree, RowAgrees

AllCarried == \A a \in Attempts : Carried(collections[a], collections'[a])

(* The version triggers carry every row on.                                  *)
LEMMA StaleCarries ==
    ASSUME TypeOK, RowsAgree, NEW S, collections' = Stale(collections, S)
    PROVE  AllCarried
<1> SUFFICES ASSUME NEW a \in Attempts PROVE Carried(collections[a], collections'[a])
  BY DEF AllCarried
<1>1. collections'[a] \in {collections[a], [collections[a] EXCEPT !.fresh = FALSE]}
  BY DEF Stale
<1>2. Carried(collections[a], collections[a])
      /\ Carried(collections[a], [collections[a] EXCEPT !.fresh = FALSE])
  BY RowFacts DEF Carried, Moved, Collection
<1> QED
  BY <1>1, <1>2

(* So does the write of one row by one of those.                             *)
LEMMA WriteCarries ==
    ASSUME TypeOK, RowsAgree, NEW a \in Attempts, NEW d, Carried(collections[a], d),
           collections' = [collections EXCEPT ![a] = d]
    PROVE  AllCarried
<1> SUFFICES ASSUME NEW b \in Attempts PROVE Carried(collections[b], collections'[b])
  BY DEF AllCarried
<1>1. Carried(collections[b], collections[b])
  BY RowFacts DEF Carried, Moved
<1> QED
  BY <1>1 DEF TypeOK

(* Rows that nobody writes are carried on.                                   *)
LEMMA SameCarries ==
    ASSUME TypeOK, RowsAgree, UNCHANGED collections
    PROVE  AllCarried
  BY RowFacts DEF AllCarried, Carried, Moved

ClosedKept ==
    \A a \in Attempts : collections[a].closed =>
        collections'[a].closed /\ collections'[a].state = collections[a].state

ReceiptsCalm ==
    \A t \in Transactions :
        \/ receipts'[t] = receipts[t]
        \/ Settled(receipts[t]) /\ Settled(receipts'[t]) /\ receipts'[t].invoice = receipts[t].invoice

(* A review is lifted only where no receipt waits.                           *)
ReviewsKept ==
    \A i \in Invoices : invoices[i].review =>
        \/ invoices'[i].review
        \/ \A t \in Transactions : ~(receipts[t].invoice = i /\ receipts[t].state = "review")

(* What a checkout has come to does not change.                              *)
FatesSame(A) == \A a \in Attempts \ A : Fate(a)' = Fate(a)
ChargesSame == \A t \in Transactions : Charged(t)' <=> Charged(t)
BookingsSame == \A t \in Transactions : posted'[t] # NoInvoice <=> posted[t] # NoInvoice

(* When every row is calm, rows agree, stay closed and keep their fates.     *)
LEMMA CalmRows ==
    ASSUME TypeOK, RowsAgree, Forward, BooksKept, \A a \in Attempts : RowCalm(a)
    PROVE  RowsAgree' /\ ClosedKept /\ FatesSame({})
<1>1. RowsAgree'
  BY RowKeeps DEF RowsAgree
<1>2. ClosedKept
  BY DEF ClosedKept, RowCalm, Moved
<1>3. FatesSame({})
  BY DEF FatesSame, Fate, Unresolved, RowCalm, Moved
<1> QED
  BY <1>1, <1>2, <1>3

(* What is paid stays so, and what stops being reserved was not charged.     *)
PaidKept ==
    \A a \in Attempts :
        /\ attempts[a].status = "paid" =>
               attempts'[a].status = "paid" /\ attempts'[a].txn = attempts[a].txn
        /\ Unresolved(a) =>
               \/ Unresolved(a)'
               \/ \A t \in Transactions : RefOf(t[1]) = a => ~Charged(t)

(* Calm rows stay paid and reserved.                                         *)
LEMMA CalmPaid ==
    ASSUME \A a \in Attempts : RowCalm(a)
    PROVE  PaidKept
  BY DEF PaidKept, RowCalm, Moved, Unresolved

(* Receipts stay true and evidence held when receipts and reviews are calm.  *)
LEMMA CalmReceipts ==
    ASSUME TypeOK, ReceiptsTrue, HeldEvidence, Forward, BooksKept, PaidKept,
           posted' = posted, ReceiptsCalm, ReviewsKept
    PROVE  ReceiptsTrue' /\ HeldEvidence' /\ BookingsSame
<1>1. ReceiptsTrue'
  <2> SUFFICES ASSUME NEW t \in Transactions PROVE ReceiptTrue(t)'
    BY DEF ReceiptsTrue
  <2>1. ReceiptTrue(t) /\ RefOf(t[1]) \in Attempts
    BY Shapes DEF ReceiptsTrue
  <2>2. \/ receipts'[t] = receipts[t]
        \/ /\ receipts[t].state # "none" /\ receipts'[t].invoice = receipts[t].invoice
           /\ receipts[t].invoice # NoInvoice
    BY <2>1 DEF ReceiptsCalm, Settled, ReceiptTrue
  <2> QED
    BY <2>1, <2>2, ReceiptKeeps DEF PaidKept
<1>2. HeldEvidence'
  <2> SUFFICES ASSUME NEW t \in Transactions PROVE HeldTrue(t)'
    BY HeldParts DEF HeldEvidence, HeldTrue
  <2>1. HeldTrue(t) /\ RefOf(t[1]) \in Attempts /\ ReceiptTrue(t)
    BY HeldParts, Shapes DEF ReceiptsTrue
  <2>2. receipts'[t].state = "review" => receipts'[t] = receipts[t]
    BY DEF ReceiptsCalm, Settled
  <2>3. Extra(RefOf(t[1]), t) => Extra(RefOf(t[1]), t)'
    BY <2>1 DEF Extra, AlreadyPaid, PaidKept
  <2>4. receipts[t].state = "review" /\ receipts[t].invoice # NoInvoice
           /\ invoices[receipts[t].invoice].review
           => invoices'[receipts[t].invoice].review
    BY DEF ReviewsKept, TypeOK, Receipt, Invoices
  <2>5. receipts[t].state = "review" /\ Unresolved(RefOf(t[1])) => Unresolved(RefOf(t[1]))'
    BY <2>1 DEF PaidKept, ReceiptTrue
  <2> QED
    BY <2>1, <2>2, <2>3, <2>4, <2>5, HeldKeeps DEF HeldTrue
<1>3. BookingsSame
  BY DEF BookingsSame
<1> QED
  BY <1>1, <1>2, <1>3

Quiet == FatesSame({}) /\ ChargesSame /\ BookingsSame

(* What a step does to a row of its own that is not closed by it             *)
Calm == Records' /\ ClosedKept /\ Quiet

(* No session, no attempt and no receipt is written.                         *)
LEMMA CarriedCalm ==
    ASSUME TypeOK, Records, UNCHANGED <<sessions, attempts, posted>>, AllCarried,
           Converted \subseteq Converted', ReceiptsCalm, ReviewsKept
    PROVE  Calm
<1>1. Forward /\ BooksKept
  <2>1. Forward
    BY DEF Forward
  <2>2. \A t \in Transactions : receipts[t].state # "none" => receipts'[t].state # "none"
    BY DEF ReceiptsCalm, Settled
  <2> QED
    BY <2>1, <2>2 DEF BooksKept
<1>2. \A a \in Attempts : RowCalm(a) /\ Moved(collections[a], collections'[a])
  BY DEF RowCalm, AllCarried, Carried
<1>3. SessionsTraced' /\ ProviderKind' /\ ChargesSame
  BY <1>2, TracedKept DEF Records, ProviderKind, ChargesSame, Charged
<1>4. RowsAgree' /\ ClosedKept /\ FatesSame({})
  BY <1>1, <1>2, CalmRows DEF Records
<1>5. ReceiptsTrue' /\ HeldEvidence' /\ BookingsSame
  BY <1>1, <1>2, CalmPaid, CalmReceipts DEF Records
<1> QED
  BY <1>3, <1>4, <1>5 DEF Calm, Records, Quiet

(* Rows that are carried on leave the creates that are out alone.            *)
LEMMA CarriedUndisturbed ==
    ASSUME TypeOK, HandlersKnow, HandlersTrue, AllCarried, UNCHANGED sessions, NEW R
    PROVE  Undisturbed(R)
<1>1. Forward
  BY DEF Forward
<1> SUFFICES ASSUME NEW r \in Requests, Creating(requests[r])
             PROVE  /\ collections'[requests[r].ref].submitted = collections[requests[r].ref].submitted
                    /\ collections'[requests[r].ref].account = collections[requests[r].ref].account
  BY <1>1 DEF Undisturbed
<1>2. requests[r].ref \in Attempts /\ requests[r].account # None
  BY BoundType DEF Creating, HandlersKnow
<1>3. collections[requests[r].ref].account # None
  BY <1>2 DEF HandlersTrue, HandlerTrue, CreateTrue
<1> QED
  BY <1>2, <1>3 DEF AllCarried, Carried, Moved

(* Invoices and receipts that nobody writes are calm.                        *)
LEMMA InvoicesSame ==
    ASSUME UNCHANGED <<invoices, receipts>>
    PROVE  Converted \subseteq Converted' /\ ReceiptsCalm /\ ReviewsKept
  BY DEF Converted, ReceiptsCalm, ReviewsKept

(* What is shown of every step                                               *)
Steady == Certain' /\ ClosedKept

(* A step of handler r that is calm and leaves it with q.                    *)
LEMMA CalmHandler ==
    ASSUME Reservations, Certain, NEW r \in Requests, NEW q,
           requests' = [requests EXCEPT ![r] = q], HandlerTrue(q)', ~Creating(q),
           Calm, AllCarried, UNCHANGED sessions
    PROVE  Steady /\ Quiet
<1>1. Undisturbed({r})
  BY CarriedUndisturbed DEF Reservations, Certain
<1>2. HandlersTrue' /\ OneCreate'
  BY <1>1, HandlersKeep DEF Reservations, Certain
<1> QED
  BY <1>2 DEF Steady, Certain, Calm

(* One in which no handler moves.                                            *)
LEMMA CalmRest ==
    ASSUME Reservations, Certain, UNCHANGED <<requests, sessions>>, Calm, AllCarried
    PROVE  Steady /\ Quiet
<1>1. Undisturbed({})
  BY CarriedUndisturbed DEF Reservations, Certain
<1>2. HandlersTrue' /\ OneCreate'
  BY <1>1, HandlersRest DEF Reservations, Certain
<1> QED
  BY <1>2 DEF Steady, Certain, Calm

-----------------------------------------------------------------------------
(* Handlers before their answers                                             *)

(* A handler that gives up settles nothing.                                  *)
LEMMA GiveUpSteady ==
    ASSUME Reservations, Certain, NEW r \in Requests, requests[r].pc # "idle", GiveUp(r)
    PROVE  Steady /\ Quiet
<1> DEFINE a == requests[r].ref
<1>1. TypeOK /\ HandlersKnow /\ Records /\ RowsAgree /\ a \in Attempts
  BY BoundType DEF Reservations, Certain, Records
<1>2. PICK d : d = IF requests[r].op = "evidence" THEN collections[a] ELSE Fail(collections[a], r)
  OBVIOUS
<1>3. requests[r].account \in Accounts
  BY <1>1, BoundType
<1>4. Carried(collections[a], d)
  BY <1>1, <1>2, <1>3, RowFacts, WritesCarry
<1>5. AllCarried
  BY <1>1, <1>2, <1>4, WriteCarries DEF GiveUp, WriteCollection
<1>6. Calm
  BY <1>1, <1>5, CarriedCalm, InvoicesSame DEF GiveUp
<1>7. requests' = [requests EXCEPT ![r] = Idle] /\ UNCHANGED sessions
  BY DEF GiveUp, Done
<1> QED
  BY <1>5, <1>6, <1>7, IdleTrue, CalmHandler

(* A handler whose row is carried on and that ends, or goes on with q.       *)
LEMMA WriteSteady ==
    ASSUME Reservations, Certain, NEW r \in Requests, requests[r].pc # "idle",
           NEW d, Carried(collections[requests[r].ref], d), WriteCollection(r, d),
           UNCHANGED <<sessions, attempts, posted, invoices, receipts>>,
           NEW q, requests' = [requests EXCEPT ![r] = q], HandlerTrue(q)', ~Creating(q)
    PROVE  Steady /\ Quiet
<1>1. TypeOK /\ HandlersKnow /\ Records /\ RowsAgree /\ requests[r].ref \in Attempts
  BY BoundType DEF Reservations, Certain, Records
<1>2. AllCarried
  BY <1>1, WriteCarries DEF WriteCollection
<1>3. Calm
  BY <1>1, <1>2, CarriedCalm, InvoicesSame
<1> QED
  BY <1>2, <1>3, CalmHandler

(* One that writes nothing.                                                  *)
LEMMA IdleSteady ==
    ASSUME Reservations, Certain, NEW r \in Requests, UNCHANGED <<database, sessions>>,
           NEW q, requests' = [requests EXCEPT ![r] = q], HandlerTrue(q)', ~Creating(q)
    PROVE  Steady /\ Quiet
<1>1. TypeOK /\ Records /\ RowsAgree
  BY DEF Reservations, Certain, Records
<1>2. AllCarried
  BY <1>1, SameCarries DEF database
<1>3. Calm
  BY <1>1, <1>2, CarriedCalm, InvoicesSame DEF database
<1> QED
  BY <1>2, <1>3, CalmHandler

(* Nothing a handler knows is about what it writes of its row.               *)
LEMMA AnswerStays ==
    ASSUME NEW q, AnswerTrue(q), HandlerShaped(q), ~Creating(q), UNCHANGED sessions
    PROVE  HandlerTrue(q)'
  BY DEF AnswerTrue, HandlerShaped, CreateTrue, HandlerTrue, Charged

(* What is known of a handler at work and of its row.                        *)
LEMMA HandlerFacts ==
    ASSUME Reservations, Certain, NEW r \in Requests, requests[r].pc # "idle"
    PROVE  /\ TypeOK /\ HandlersKnow /\ Records /\ RowsAgree /\ requests[r] \in Request
           /\ requests[r].ref \in Attempts /\ requests[r].account \in Accounts
           /\ collections[requests[r].ref] \in Collection
           /\ attempts[requests[r].ref] \in Attempt /\ RowAgrees(requests[r].ref)
           /\ collections[requests[r].ref].closed => collections[requests[r].ref].holder = None
           /\ requests[r].session \in Sessions \cup {None}
           /\ CreateTrue(requests[r]) /\ AnswerTrue(requests[r]) /\ HandlerShaped(requests[r])
<1>1. TypeOK /\ HandlersKnow /\ Records /\ RowsAgree
  BY DEF Reservations, Certain, Records
<1>2. requests[r] \in Request /\ requests[r].session \in Sessions \cup {None}
  BY <1>1 DEF TypeOK, Request
<1>3. HandlerTrue(requests[r])
  BY DEF Certain, HandlersTrue
<1> QED
  BY <1>1, <1>2, <1>3, BoundType, RowFacts DEF HandlerTrue

(* A saved session is the checkout's own and exists.                         *)
LEMMA SessionKnown ==
    ASSUME NEW a \in Attempts, RowAgrees(a), attempts[a].session # None
    PROVE  RefOf(attempts[a].session) = a /\ sessions[attempts[a].session] # "none"
  BY DEF RowAgrees

(* Refusals, retrievals and requests to expire settle nothing.               *)
LEMMA ClaimedSteady ==
    ASSUME Reservations, Certain, NEW r \in Requests,
           \/ CallFails(r) \/ AccountRefused(r) \/ ResumeRefused(r) \/ ReopenForm(r)
           \/ SubmitRetrieve(r) \/ AnswerRefused(r) \/ SubmitExpire(r) \/ EvidenceRefused(r)
    PROVE  Steady /\ Quiet
<1> DEFINE a == requests[r].ref
           c == collections[a]
<1>1. requests[r].pc # "idle"
  BY DEF CallFails, AccountRefused, ResumeRefused, ReopenForm, SubmitRetrieve, AnswerRefused,
     SubmitExpire, EvidenceRefused, MayResume, Acceptable, Reconcilable
<1>2. CASE CallFails(r) \/ AccountRefused(r) \/ AnswerRefused(r)
  BY <1>1, <1>2, GiveUpSteady DEF CallFails, AccountRefused, AnswerRefused
<1>3. CASE ResumeRefused(r) \/ ReopenForm(r)
  <2>1. PICK d : /\ d = Fail(Bind(c, requests[r].account), r)
                    \/ d = Release(Bind(c, requests[r].account), r, "unresolved", FALSE, FALSE)
                 /\ WriteCollection(r, d)
    BY <1>3 DEF ResumeRefused, ReopenForm, Bound
  <2>2. Carried(c, d)
    <3>1. c \in Collection /\ (c.closed => c.holder = None) /\ requests[r].account \in Accounts
      BY <1>1, HandlerFacts
    <3>2. /\ Carried(c, Fail(Bind(c, requests[r].account), r))
          /\ Carried(c, Release(Bind(c, requests[r].account), r, "unresolved", FALSE, FALSE))
      BY <3>1, WritesCarry
    <3> QED
      BY <2>1, <3>2
  <2>3. /\ requests' = [requests EXCEPT ![r] = Idle]
        /\ UNCHANGED <<sessions, attempts, posted, invoices, receipts>>
    BY <1>3 DEF ResumeRefused, ReopenForm, Done
  <2> QED
    BY <1>1, <2>1, <2>2, <2>3, IdleTrue, WriteSteady
<1>4. CASE SubmitRetrieve(r)
  <2>1. PICK s : /\ Call(r, s)
                 /\ \/ requests[r].op \in {"recheck", "expire"} /\ s = requests[r].session
                    \/ requests[r].op = "resume" /\ s = attempts[a].session /\ s # None
    BY <1>4 DEF SubmitRetrieve, MayResume
  <2>2. PICK q : q = [requests[r] EXCEPT !.pc = "call", !.session = s]
    OBVIOUS
  <2>3. /\ q.pc = "call" /\ q.session = s /\ q.n = requests[r].n /\ q.op = requests[r].op
        /\ q.ref = a
    BY <1>1, <2>2, HandlerFacts DEF Request
  <2>0. AnswerTrue(requests[r]) /\ HandlerShaped(requests[r])
    BY <1>1, HandlerFacts
  <2>4. s # None => sessions[s] # "none"
    <3>1. CASE s = requests[r].session
      BY <2>0, <3>1 DEF AnswerTrue
    <3>2. CASE s = attempts[a].session
      BY <1>1, <3>2, HandlerFacts, SessionKnown
    <3> QED
      BY <2>1, <3>1, <3>2
  <2>5. AnswerTrue(q) /\ HandlerShaped(q) /\ ~Creating(q)
    BY <2>0, <2>1, <2>3, <2>4 DEF AnswerTrue, HandlerShaped, Creating
  <2>6. /\ requests' = [requests EXCEPT ![r] = q] /\ WriteCollection(r, Bound(r))
        /\ UNCHANGED <<sessions, attempts, posted, invoices, receipts>>
    BY <1>1, <1>4, <2>1, <2>2, HandlerFacts DEF SubmitRetrieve, Call, TypeOK
  <2>7. Carried(c, Bound(r))
    BY <1>1, HandlerFacts, WritesCarry DEF Bound
  <2>8. HandlerTrue(q)'
    BY <2>5, <2>6, AnswerStays
  <2> QED
    BY <1>1, <2>5, <2>6, <2>7, <2>8, WriteSteady
<1>5. CASE SubmitExpire(r)
  <2>1. PICK q : q = [requests[r] EXCEPT !.pc = "call", !.op = "expireCall",
                                         !.session = attempts[a].session]
    OBVIOUS
  <2>2. /\ q.pc = "call" /\ q.op = "expireCall" /\ q.session = attempts[a].session
        /\ q.n = requests[r].n /\ q.ref = a
    BY <1>1, <2>1, HandlerFacts DEF Request
  <2>3. Stripe /\ attempts[a].session # None
    BY <1>5 DEF SubmitExpire, Acceptable
  <2>4. q.n = 1
    BY <1>1, <2>2, <2>3, HandlerFacts DEF Request, Captures
  <2>0. sessions[attempts[a].session] # "none"
    BY <1>1, <2>3, HandlerFacts, SessionKnown
  <2>5. AnswerTrue(q) /\ HandlerShaped(q) /\ ~Creating(q)
    BY <2>0, <2>2, <2>3, <2>4 DEF AnswerTrue, HandlerShaped, Creating
  <2>6. requests' = [requests EXCEPT ![r] = q] /\ UNCHANGED <<database, sessions>>
    BY <1>1, <1>5, <2>1, HandlerFacts DEF SubmitExpire, TypeOK
  <2>7. HandlerTrue(q)'
    BY <2>5, <2>6, AnswerStays
  <2> QED
    BY <2>5, <2>6, <2>7, IdleSteady
<1>6. CASE EvidenceRefused(r)
  BY <1>6, IdleTrue, IdleSteady DEF EvidenceRefused, Done
<1> QED
  BY <1>2, <1>3, <1>4, <1>5, <1>6

-----------------------------------------------------------------------------
(* Handlers that begin                                                       *)

(* A handler that starts knows the session it was given, if any.             *)
LEMMA StartsTrue ==
    ASSUME NEW op \in {"resume", "recheck", "expire"}, NEW a, NEW account, NEW s, NEW n,
           s # None => sessions'[s] # "none",
           n # 1 => op # "resume" /\ s # None /\ Charged(<<s, n>>)',
           NEW q, q = [pc |-> "account", op |-> op, ref |-> a, account |-> account,
                       session |-> s, n |-> n, seen |-> "none"]
    PROVE  HandlerTrue(q)' /\ ~Creating(q)
<1>1. /\ q.pc = "account" /\ q.op = op /\ q.session = s /\ q.n = n
      /\ op # "evidence" /\ op # "expireCall"
  OBVIOUS
<1>2. ~Creating(q) /\ HandlerShaped(q)
  BY <1>1 DEF Creating, HandlerShaped
<1>3. CreateTrue(q)'
  BY <1>2 DEF CreateTrue
<1>4. AnswerTrue(q)'
  BY <1>1 DEF AnswerTrue
<1> QED
  BY <1>2, <1>3, <1>4 DEF HandlerTrue, HandlerShaped

(* A manager's action on a checkout settles nothing.                         *)
LEMMA ManageSteady ==
    ASSUME Reservations, Certain, NEW r \in Requests, NEW a \in Attempts,
           NEW op \in {"resume", "recheck", "expire"}, Manage(r, a, op)
    PROVE  Steady /\ Quiet
<1>1. TypeOK /\ Records /\ RowsAgree /\ settings.account \in Accounts
  BY DEF Reservations, Certain, Records, TypeOK
<1>2. PICK look \in Looks(a, op) : Start(r, op, a, look[1], look[2], "account")
  BY DEF Manage
<1>3. /\ look[1] # None => sessions[look[1]] # "none"
      /\ look[2] # 1 => op # "resume" /\ look[1] # None /\ Charged(<<look[1], look[2]>>)
  <2>1. CASE op # "resume" /\ ~Stripe /\ look \in Transactions /\ Charged(look)
    <3>1. look[1] \in Sessions /\ look = <<look[1], look[2]>> /\ sessions[look[1]] # "none"
      BY <2>1, ChargedFacts DEF Transactions
    <3> QED
      BY <2>1, <3>1, Shapes
  <2>2. CASE look[2] = 1 /\ look[1] = attempts[a].session
    BY <1>1, <2>2, RowFacts, SessionKnown
  <2>3. CASE look[2] = 1 /\ (look[1] = None \/ sessions[look[1]] # "none")
    BY <2>3
  <2> QED
    BY <1>2, <2>1, <2>2, <2>3 DEF Looks
<1>4. PICK q : q = [pc |-> "account", op |-> op, ref |-> a, account |-> settings.account,
                    session |-> look[1], n |-> look[2], seen |-> "none"]
  OBVIOUS
<1>5. UNCHANGED <<sessions, attempts, posted, invoices, receipts>>
  BY DEF Manage
<1>6. HandlerTrue(q)' /\ ~Creating(q)
  BY <1>3, <1>4, <1>5, StartsTrue DEF Charged
<1>7. requests' = [requests EXCEPT ![r] = q]
  BY <1>2, <1>4 DEF Start
<1>8. Carried(collections[a], Claim(collections[a], r))
  BY <1>1, RowFacts, WritesCarry DEF Manage, Claimable
<1>9. AllCarried
  BY <1>1, <1>8, WriteCarries DEF Manage
<1>10. Calm
  BY <1>1, <1>5, <1>9, CarriedCalm, InvoicesSame
<1> QED
  BY <1>5, <1>6, <1>7, <1>9, <1>10, CalmHandler

(* Evidence that comes in is only read.                                      *)
LEMMA EvidenceSteady ==
    ASSUME Reservations, Certain, NEW r \in Requests, NEW s \in Sessions, NEW n \in Captures,
           Evidence(r, s, n)
    PROVE  Steady /\ Quiet
<1>1. PICK q : q = [pc |-> "answered", op |-> "evidence", ref |-> RefOf(s),
                    account |-> settings.account, session |-> s, n |-> n, seen |-> sessions[s]]
  OBVIOUS
<1>2. /\ q.pc = "answered" /\ q.op = "evidence" /\ q.ref = RefOf(s) /\ q.session = s
      /\ q.n = n /\ q.seen = sessions[s]
  BY <1>1
<1>3. sessions[s] # "none" /\ (n # 1 => Charged(<<s, n>>)) /\ s # None
  BY Shapes DEF Evidence, Completed, Charged, Paid, Captures
<1>4. AnswerTrue(q) /\ HandlerShaped(q) /\ ~Creating(q)
  BY <1>2, <1>3 DEF AnswerTrue, HandlerShaped, Creating
<1>5. requests' = [requests EXCEPT ![r] = q] /\ UNCHANGED <<database, sessions>>
  BY <1>1 DEF Evidence
<1> QED
  BY <1>4, <1>5, AnswerStays, IdleSteady

Reserving(a) ==
    /\ Fate(a) = "unused" /\ Fate(a)' = "reserved"
    /\ \A b \in Attempts : Fate(b) # "reserved"
    /\ FatesSame({a}) /\ ChargesSame /\ BookingsSame

(* Rows that are not written are calm.                                       *)
LEMMA RowRests ==
    ASSUME TypeOK, Records, NEW b \in Attempts,
           attempts'[b] = attempts[b], Carried(collections[b], collections'[b])
    PROVE  RowCalm(b)
  BY DEF RowCalm, Carried

(* A reservation takes an unused reference while nothing is reserved.        *)
LEMMA ReserveSteady ==
    ASSUME Reservations, Certain, NEW r \in Requests, NEW a \in Attempts,
           NEW i \in 0..MaxInvoices, NEW amount, NEW kind, i # NoInvoice => i \in Converted,
           Reserve(r, a, i, amount, kind), Start(r, "resume", a, None, 1, "account"),
           UNCHANGED <<invoices, receipts, posted, sessions>>
    PROVE  Steady /\ Reserving(a)
<1>1. TypeOK /\ HandlersKnow /\ Records /\ RowsAgree /\ AttemptsPlaced /\ RowAgrees(a)
  BY RowFacts DEF Reservations, Certain, Records
<1>2. attempts[a].status = "unused" /\ ~collections[a].closed /\ collections[a].submitted = "no"
  BY <1>1 DEF Reserve, RowAgrees
<1>3. Carried(collections[a], Claim([collections[a] EXCEPT !.fresh = TRUE], r))
  <2>1. collections[a] \in Collection
    BY <1>1, RowFacts
  <2> QED
    BY <1>2, <2>1 DEF Carried, Moved, Claim, Collection
<1>4. AllCarried
  BY <1>1, <1>3, WriteCarries DEF Reserve
<1>5. /\ \A b \in Attempts \ {a} : attempts'[b] = attempts[b]
      /\ attempts'[a].status = "pending" /\ attempts'[a].invoice = i
      /\ attempts'[a].session = None
  BY <1>1 DEF Reserve, TypeOK
<1>6. ~collections'[a].closed
  BY <1>2, <1>4 DEF AllCarried, Carried, Moved
<1>7. Forward /\ BooksKept /\ ReceiptsCalm /\ ReviewsKept
  BY InvoicesSame DEF Forward, BooksKept
<1>8. RowsAgree' /\ ClosedKept
  <2>1. \A b \in Attempts \ {a} : RowCalm(b)
    BY <1>1, <1>4, <1>5, RowRests DEF AllCarried
  <2>2. \A b \in Attempts \ {a} : RowAgrees(b)'
    BY <1>1, <1>7, <2>1, RowKeeps DEF RowsAgree
  <2>3. RowAgrees(a)'
    BY <1>5, <1>6, <1>7 DEF RowAgrees, BooksKept
  <2>4. ClosedKept
    BY <1>4 DEF ClosedKept, AllCarried, Carried, Moved
  <2> QED
    BY <2>2, <2>3, <2>4 DEF RowsAgree
<1>9. PaidKept
  BY <1>2, <1>4, <1>5, <1>6 DEF PaidKept, Unresolved, AllCarried, Carried, Moved
<1>10. ReceiptsTrue' /\ HeldEvidence' /\ BookingsSame
  BY <1>1, <1>7, <1>9, CalmReceipts DEF Records
<1>11. SessionsTraced' /\ ProviderKind' /\ ChargesSame
  BY <1>1, <1>4, TracedKept DEF Records, AllCarried, Carried, ProviderKind, ChargesSame, Charged
<1>12. HandlersTrue' /\ OneCreate'
  <2>1. Undisturbed({r})
    BY <1>1, <1>4, CarriedUndisturbed DEF Certain
  <2>2. PICK q : q = [pc |-> "account", op |-> "resume", ref |-> a, account |-> settings.account,
                      session |-> None, n |-> 1, seen |-> "none"]
    OBVIOUS
  <2>3. HandlerTrue(q)' /\ ~Creating(q) /\ requests' = [requests EXCEPT ![r] = q]
    BY <2>2, StartsTrue DEF Start
  <2> QED
    BY <1>1, <2>1, <2>3, HandlersKeep DEF Certain
<1>13. /\ Fate(a) = "unused" /\ Fate(a)' = "reserved" /\ FatesSame({a})
       /\ \A b \in Attempts : Fate(b) # "reserved"
  <2>1. \A b \in Attempts : ~Unresolved(b)
    BY <1>1 DEF Reserve, RelatedPending, AttemptsPlaced, Unresolved
  <2>2. \A b \in Attempts : attempts[b].status # "reserved"
    BY <1>1 DEF TypeOK, Attempt
  <2>3. \A b \in Attempts \ {a} : Unresolved(b)' <=> Unresolved(b)
    BY <1>4, <1>5 DEF Unresolved, AllCarried, Carried, Moved
  <2>4. Unresolved(a)'
    BY <1>5, <1>6 DEF Unresolved
  <2> QED
    BY <1>2, <1>5, <2>1, <2>2, <2>3, <2>4 DEF Fate, FatesSame
<1> QED
  BY <1>8, <1>10, <1>11, <1>12, <1>13 DEF Steady, Certain, Records, Reserving

(* Opening a checkout reserves one or leaves everything as it was.           *)
LEMMA OpenSteady ==
    ASSUME Reservations, Certain, NEW r \in Requests, Open(r)
    PROVE  Steady /\ (Quiet \/ \E a \in Attempts : Reserving(a))
<1>1. ASSUME NEW a \in Attempts, PayEstimate(r, a)
      PROVE  Steady /\ Reserving(a)
  BY <1>1, ReserveSteady DEF PayEstimate
<1>2. ASSUME NEW a \in Attempts, NEW i \in Invoices, NEW kind \in Kinds, PayInvoice(r, a, i, kind)
      PROVE  Steady /\ (Quiet \/ Reserving(a))
  <2>1. CASE Reserve(r, a, i, Amount(i, kind), kind)
    <3>1. i \in 0..MaxInvoices /\ i \in Converted
      BY <1>2 DEF PayInvoice, Live, Converted, Invoices
    <3> QED
      BY <1>2, <2>1, <3>1, ReserveSteady DEF PayInvoice
  <2>2. CASE Reuse(r, a, i, Amount(i, kind), kind)
    <3>1. TypeOK /\ Records /\ RowsAgree
      BY DEF Reservations, Certain, Records
    <3>2. Carried(collections[a], Claim(collections[a], r))
      BY <2>2, <3>1, RowFacts, WritesCarry DEF Reuse, Claimable, Reservations
    <3>3. AllCarried
      BY <2>2, <3>1, <3>2, WriteCarries DEF Reuse
    <3>4. UNCHANGED <<sessions, attempts, posted, invoices, receipts>>
      BY <1>2, <2>2 DEF PayInvoice, Reuse
    <3>5. Calm
      BY <3>1, <3>3, <3>4, CarriedCalm, InvoicesSame
    <3>6. PICK q : q = [pc |-> "account", op |-> "resume", ref |-> a, account |-> settings.account,
                        session |-> None, n |-> 1, seen |-> "none"]
      OBVIOUS
    <3>7. HandlerTrue(q)' /\ ~Creating(q) /\ requests' = [requests EXCEPT ![r] = q]
      BY <1>2, <3>6, StartsTrue DEF Start, PayInvoice
    <3> QED
      BY <3>3, <3>4, <3>5, <3>7, CalmHandler
  <2> QED
    BY <1>2, <2>1, <2>2 DEF PayInvoice
<1> QED
  BY <1>1, <1>2, ManageSteady, EvidenceSteady DEF Open

-----------------------------------------------------------------------------
(* The provider's steps, the customer's, and the clocks                      *)

(* While only sessions move, and only forward, the records stay true.        *)
LEMMA SessionCalm ==
    ASSUME TypeOK, Records, UNCHANGED database, Forward, SessionsTraced', ProviderKind'
    PROVE  Records' /\ ClosedKept /\ FatesSame({}) /\ BookingsSame
<1>1. RowsAgree
  BY DEF Records
<1>2. AllCarried
  BY <1>1, SameCarries DEF database
<1>3. BooksKept /\ ReceiptsCalm /\ ReviewsKept
  BY InvoicesSame DEF BooksKept, database
<1>4. \A a \in Attempts : RowCalm(a)
  BY <1>2, RowRests DEF AllCarried, database
<1>5. RowsAgree' /\ ClosedKept /\ FatesSame({})
  BY <1>1, <1>3, <1>4, CalmRows
<1>6. ReceiptsTrue' /\ HeldEvidence' /\ BookingsSame
  BY <1>3, <1>4, CalmPaid, CalmReceipts DEF Records, database
<1> QED
  BY <1>5, <1>6 DEF Records

(* A session that exists comes to another state, for good if it is final.    *)
Becomes(s, to) ==
    /\ sessions[s] \in {"open", "processing", "paid"} /\ sessions' = [sessions EXCEPT ![s] = to]
    /\ to \in {"processing", "failed", "paid", "paidTwice", "expired"}
    /\ sessions[s] = "paid" => to = "paidTwice"
    /\ IF Stripe THEN to # "paidTwice" ELSE to # "expired"

(* A session that moves on disturbs no record and no create.                 *)
LEMMA BecomesSteady ==
    ASSUME Reservations, Certain, NEW s \in Sessions, NEW to, Becomes(s, to), UNCHANGED database
    PROVE  /\ Records' /\ ClosedKept /\ FatesSame({}) /\ BookingsSame
           /\ Forward /\ \A R : Undisturbed(R)
<1>1. TypeOK /\ HandlersKnow /\ Records
  BY DEF Reservations, Certain
<1>2. /\ sessions'[s] = to /\ \A u \in Sessions \ {s} : sessions'[u] = sessions[u]
      /\ \A u \in Sessions : sessions'[u] # "none" => sessions[u] # "none"
  BY <1>1 DEF Becomes, TypeOK
<1>3. Forward
  BY <1>2 DEF Forward, Becomes, Paid
<1>4. \A a \in Attempts : Moved(collections[a], collections'[a])
  BY <1>1, RowFacts DEF Records, database, Moved
<1>5. SessionsTraced' /\ ProviderKind'
  <2>1. SessionsTraced'
    BY <1>1, <1>2, <1>4, TracedKept DEF Records
  <2>2. ProviderKind'
    BY <1>1, <1>2 DEF Records, ProviderKind, Becomes
  <2> QED
    BY <2>1, <2>2
<1>6. ASSUME NEW R PROVE Undisturbed(R)
  <2>1. ASSUME NEW r \in Requests, Creating(requests[r]), ~Stripe, NEW u \in Sessions,
               RefOf(u) = requests[r].ref
        PROVE  sessions'[u] = sessions[u]
    <3>1. sessions[u] = "none"
      BY <2>1 DEF Certain, HandlersTrue, HandlerTrue, CreateTrue
    <3> QED
      BY <1>2, <3>1 DEF Becomes
  <2> QED
    BY <1>3, <2>1 DEF Undisturbed, database
<1> QED
  BY <1>1, <1>3, <1>5, <1>6, SessionCalm

Charging(s) ==
    /\ s \in Sessions /\ sessions[s] # "none" /\ ~Paid(sessions[s])
    /\ Fate(RefOf(s)) = "reserved"
    /\ FatesSame({}) /\ BookingsSame
    /\ \A t \in Transactions : Charged(t)' <=> (Charged(t) \/ t[1] = s)

(* Who can still be charged is reserved.                                     *)
LEMMA OpenIsReserved ==
    ASSUME Reservations, Certain, NEW s \in Sessions, sessions[s] \in {"open", "processing"}
    PROVE  Fate(RefOf(s)) = "reserved"
<1> DEFINE a == RefOf(s)
<1>1. TypeOK /\ Records /\ RowsAgree /\ SessionsTraced /\ a \in Attempts
  BY SessionParts DEF Reservations, Certain, Records
<1>2. RowAgrees(a) /\ collections[a].submitted # "no"
  BY <1>1, RowFacts DEF SessionsTraced
<1>3. attempts[a].status # "unused"
  BY <1>2 DEF RowAgrees
<1>4. attempts[a].status # "expired"
  BY <1>1, <1>2, OneOfRef DEF RowAgrees
<1>5. attempts[a].status # "paid"
  <2> SUFFICES ASSUME attempts[a].status = "paid" PROVE FALSE
    OBVIOUS
  <2>1. PICK t \in Transactions : RefOf(t[1]) = a /\ Charged(t)
    BY <1>2 DEF RowAgrees
  <2>2. t[1] \in Sessions /\ Paid(sessions[t[1]]) /\ sessions[t[1]] # "none"
    BY <2>1, ChargedFacts
  <2>3. t[1] = s
    BY <1>1, <2>1, <2>2, OneOfRef
  <2> QED
    BY <2>2, <2>3 DEF Paid
<1>6. ~collections[a].closed
  BY <1>2, <1>4, <1>5 DEF RowAgrees
<1> QED
  BY <1>3, <1>6 DEF Fate, Unresolved

(* The customer and the provider: for Stripe each step is a charge or quiet.  *)
LEMMA ProvidesSteady ==
    ASSUME Reservations, Certain, NEW s \in Sessions,
           \/ CustomerPays(s) \/ CustomerPaysLater(s) \/ PaymentSettles(s)
           \/ PaymentFails(s) \/ SessionExpires(s) \/ FormCapturedAgain(s)
    PROVE  Steady /\ (~Stripe \/ Quiet \/ Charging(s))
<1>1. PICK to : Becomes(s, to) /\ UNCHANGED <<database, requests>>
  BY DEF CustomerPays, CustomerPaysLater, PaymentSettles, PaymentFails, SessionExpires,
     FormCapturedAgain, Provides, Becomes
<1>2. /\ Records' /\ ClosedKept /\ FatesSame({}) /\ BookingsSame
      /\ Undisturbed({})
  BY <1>1, BecomesSteady
<1>3. HandlersTrue' /\ OneCreate'
  BY <1>1, <1>2, HandlersRest DEF Reservations, Certain
<1>4. Steady
  BY <1>2, <1>3 DEF Steady, Certain
<1>5. ASSUME Stripe PROVE Quiet \/ Charging(s)
  <2>0. /\ sessions[s] \in {"open", "processing"} /\ to # "paidTwice"
        /\ sessions'[s] = to /\ \A u \in Sessions \ {s} : sessions'[u] = sessions[u]
        /\ \A u \in Sessions : sessions[u] # "paidTwice"
    BY <1>1, <1>5 DEF Becomes, Reservations, TypeOK, Certain, Records, ProviderKind
  <2>1. CASE to = "paid"
    <3>1. \A t \in Transactions : Charged(t)' <=> (Charged(t) \/ t[1] = s)
      <4> SUFFICES ASSUME NEW t \in Transactions PROVE Charged(t)' <=> (Charged(t) \/ t[1] = s)
        OBVIOUS
      <4>1. t[1] \in Sessions /\ t[2] = 1
        BY <1>5, Shapes DEF Transactions, Captures
      <4> QED
        BY <2>0, <2>1, <4>1 DEF Charged, Paid
    <3>2. Fate(RefOf(s)) = "reserved" /\ ~Paid(sessions[s]) /\ sessions[s] # "none"
      BY <2>0, OpenIsReserved DEF Paid
    <3> QED
      BY <1>2, <3>1, <3>2 DEF Charging
  <2>2. CASE to # "paid"
    <3>1. ChargesSame
      <4> SUFFICES ASSUME NEW t \in Transactions PROVE Charged(t)' <=> Charged(t)
        BY DEF ChargesSame
      <4>1. t[1] \in Sessions
        BY Shapes
      <4> QED
        BY <2>0, <2>2, <4>1 DEF Charged, Paid
    <3> QED
      BY <1>2, <3>1 DEF Quiet
  <2> QED
    BY <2>1, <2>2
<1> QED
  BY <1>4, <1>5

-----------------------------------------------------------------------------
(* The provider answers                                                      *)

(* A handler that is answered knows what it is told.                         *)
LEMMA AnsweredTrue ==
    ASSUME NEW h, HandlerShaped(h), h.pc = "call",
           NEW s, NEW state, state \notin {"none"}, s # None,
           NEW q, q.pc = "answered", q.op = h.op, q.session = s, q.n = h.n, q.seen = state,
           sessions'[s] = state, h.n # 1 => Charged(<<s, h.n>>)'
    PROVE  HandlerTrue(q)' /\ ~Creating(q)
<1>1. ~Creating(q) /\ HandlerShaped(q)
  BY DEF HandlerShaped, Creating
<1>2. AnswerTrue(q)'
  BY DEF AnswerTrue
<1>3. CreateTrue(q)'
  BY DEF CreateTrue, Creating
<1> QED
  BY <1>1, <1>2, <1>3 DEF HandlerTrue, HandlerShaped

(* Its session is read.                                                      *)
LEMMA ReadsSteady ==
    ASSUME Reservations, Certain, NEW r \in Requests, ProviderReads(r)
    PROVE  Steady /\ Quiet
<1>1. PICK h, s : h = requests[r] /\ s = h.session
  OBVIOUS
<1>2. h.pc = "call" /\ s # None /\ UNCHANGED <<database, sessions>>
  BY <1>1 DEF ProviderReads
<1>3. h \in Request /\ s \in Sessions /\ HandlerShaped(h) /\ AnswerTrue(h) /\ TypeOK
  BY <1>1, <1>2, HandlerFacts
<1>4. PICK q, state : /\ q = [h EXCEPT !.pc = "answered", !.session = s, !.seen = state]
                      /\ state = sessions[s]
  OBVIOUS
<1>5. q.pc = "answered" /\ q.op = h.op /\ q.session = s /\ q.n = h.n /\ q.seen = state
  BY <1>3, <1>4 DEF Request
<1>6. state # "none" /\ sessions'[s] = state /\ (h.n # 1 => Charged(<<s, h.n>>)')
  BY <1>1, <1>2, <1>3, <1>4 DEF AnswerTrue, Charged
<1>7. HandlerTrue(q)' /\ ~Creating(q)
  BY <1>2, <1>3, <1>5, <1>6, AnsweredTrue
<1>8. requests' = [requests EXCEPT ![r] = q]
  BY <1>1, <1>3, <1>4 DEF ProviderReads, Answer, TypeOK
<1> QED
  BY <1>2, <1>7, <1>8, IdleSteady

(* Its session is ended if it was open.                                      *)
LEMMA ExpiresSteady ==
    ASSUME Reservations, Certain, NEW r \in Requests, ProviderExpires(r)
    PROVE  Steady /\ Quiet
<1>0. PICK h, s : h = requests[r] /\ s = h.session
  OBVIOUS
<1>1. h.pc = "call" /\ h.op = "expireCall" /\ UNCHANGED database
  BY <1>0 DEF ProviderExpires
<1>2. /\ h \in Request /\ s \in Sessions /\ HandlerShaped(h) /\ AnswerTrue(h)
      /\ TypeOK /\ HandlersKnow
  BY <1>0, <1>1, HandlerFacts DEF HandlersKnow
<1>3. Stripe /\ h.n = 1 /\ s # None /\ sessions[s] # "none"
  BY <1>0, <1>1, <1>2, Shapes DEF HandlerShaped, AnswerTrue, Request, Captures
<1>4. PICK after : after = IF sessions[s] = "open" THEN "expired" ELSE sessions[s]
  OBVIOUS
<1>5. PICK q : q = [h EXCEPT !.pc = "answered", !.session = s, !.seen = after]
  OBVIOUS
<1>6. q.pc = "answered" /\ q.op = h.op /\ q.session = s /\ q.n = h.n /\ q.seen = after
  BY <1>2, <1>5 DEF Request
<1>7. sessions' = [sessions EXCEPT ![s] = after] /\ requests' = [requests EXCEPT ![r] = q]
  BY <1>0, <1>2, <1>4, <1>5 DEF ProviderExpires, Answer, TypeOK
<1>8. sessions'[s] = after /\ after # "none"
  BY <1>2, <1>3, <1>4, <1>7 DEF TypeOK
<1>9. HandlerTrue(q)' /\ ~Creating(q)
  BY <1>1, <1>2, <1>3, <1>6, <1>8, AnsweredTrue
<1>10. CASE sessions[s] # "open"
  <2>1. UNCHANGED sessions
    BY <1>2, <1>4, <1>7, <1>10 DEF TypeOK
  <2> QED
    BY <1>1, <1>7, <1>9, <2>1, IdleSteady
<1>11. CASE sessions[s] = "open"
  <2>1. Becomes(s, "expired")
    BY <1>3, <1>4, <1>7, <1>11 DEF Becomes
  <2>2. /\ Records' /\ ClosedKept /\ FatesSame({}) /\ BookingsSame
        /\ Undisturbed({r})
    BY <1>1, <1>2, <2>1, BecomesSteady
  <2>3. HandlersTrue' /\ OneCreate'
    BY <1>2, <1>7, <1>9, <2>2, HandlersKeep DEF Certain
  <2>4. ChargesSame
    <3> SUFFICES ASSUME NEW t \in Transactions PROVE Charged(t)' <=> Charged(t)
      BY DEF ChargesSame
    <3>1. t[1] \in Sessions
      BY Shapes
    <3> QED
      BY <1>2, <1>4, <1>7, <1>11, <3>1 DEF Charged, Paid, TypeOK
  <2> QED
    BY <2>2, <2>3, <2>4 DEF Steady, Certain, Quiet
<1> QED
  BY <1>10, <1>11

(* A create names the first session of its checkout, in its bound account.   *)
LEMMA CreatedFirst ==
    ASSUME TypeOK, SessionsTraced, NEW h \in Request, CreateTrue(h), Creating(h),
           h.ref \in Attempts, h.account \in Accounts
    PROVE  Created(h.ref, h.account) = <<h.ref, h.account, 1>>
<1> DEFINE known == Existing(h.ref, h.account)
<1>1. known \subseteq {1}
  <2>1. PICK s \in Sessions : s = <<h.ref, h.account, 2>>
    BY Shapes
  <2>2. s[3] = 2
    BY <2>1
  <2>3. sessions[s] = "none"
    BY <2>2 DEF SessionsTraced
  <2> QED
    BY <2>1, <2>3 DEF Existing
<1>2. ~Stripe => known = {}
  BY Shapes DEF CreateTrue, Existing, RefOf
<1>3. collections[h.ref].submitted # "late"
  BY DEF CreateTrue
<1> QED
  BY <1>1, <1>2, <1>3 DEF Created

(* The create is answered, with a new session or the one it left before.     *)
LEMMA CreatesSteady ==
    ASSUME Reservations, Certain, NEW r \in Requests, ProviderCreates(r)
    PROVE  Steady /\ Quiet
<1>0. PICK h : h = requests[r]
  OBVIOUS
<1>1. h.pc = "call" /\ h.op = "resume" /\ h.session = None /\ UNCHANGED database
  BY <1>0 DEF ProviderCreates
<1>2. /\ h \in Request /\ HandlerShaped(h) /\ CreateTrue(h) /\ Creating(h)
      /\ TypeOK /\ HandlersKnow /\ Records /\ h.ref \in Attempts /\ h.account \in Accounts
  BY <1>0, <1>1, HandlerFacts DEF Creating
<1>3. PICK s \in Sessions : s = <<h.ref, h.account, 1>> /\ s = Created(h.ref, h.account)
  <2>1. Created(h.ref, h.account) = <<h.ref, h.account, 1>>
    BY <1>2, CreatedFirst DEF Records
  <2>2. <<h.ref, h.account, 1>> \in Sessions
    BY <1>2, Shapes
  <2> QED
    BY <2>1, <2>2
<1>4. RefOf(s) = h.ref /\ AccountOf(s) = h.account /\ s[3] = 1 /\ s # None
  BY <1>3, Shapes DEF RefOf, AccountOf
<1>5. PICK after : after = IF sessions[s] = "none" THEN "open" ELSE sessions[s]
  OBVIOUS
<1>6. PICK q : q = [h EXCEPT !.pc = "answered", !.session = s, !.seen = after]
  OBVIOUS
<1>7. q.pc = "answered" /\ q.op = h.op /\ q.session = s /\ q.n = h.n /\ q.seen = after
  BY <1>2, <1>6 DEF Request
<1>8. sessions' = [sessions EXCEPT ![s] = after] /\ requests' = [requests EXCEPT ![r] = q]
  BY <1>0, <1>2, <1>3, <1>5, <1>6 DEF ProviderCreates, Answer, TypeOK
<1>9. sessions'[s] = after /\ after # "none"
  BY <1>2, <1>5, <1>8 DEF TypeOK
<1>10. HandlerTrue(q)' /\ ~Creating(q)
  <2>1. h.n = 1
    BY <1>1, <1>2 DEF HandlerShaped
  <2> QED
    BY <1>1, <1>2, <1>4, <1>7, <1>9, <2>1, AnsweredTrue
<1>11. CASE sessions[s] # "none"
  <2>1. UNCHANGED sessions
    BY <1>2, <1>5, <1>8, <1>11 DEF TypeOK
  <2> QED
    BY <1>1, <1>8, <1>10, <2>1, IdleSteady
<1>12. CASE sessions[s] = "none"
  <2>1. /\ sessions'[s] = "open" /\ \A u \in Sessions \ {s} : sessions'[u] = sessions[u]
    BY <1>2, <1>5, <1>8, <1>12 DEF TypeOK
  <2>2. Forward
    BY <1>12, <2>1 DEF Forward, Paid
  <2>3. SessionsTraced'
    <3>1. AccountOf(s) = collections'[RefOf(s)].account /\ collections'[RefOf(s)].submitted # "no"
      BY <1>1, <1>2, <1>4 DEF CreateTrue, database
    <3> QED
      BY <1>1, <1>2, <1>4, <2>1, <3>1 DEF SessionsTraced, Records, database
  <2>4. ProviderKind'
    BY <1>2, <2>1 DEF ProviderKind, Records
  <2>5. Records' /\ ClosedKept /\ FatesSame({}) /\ BookingsSame
    BY <1>1, <1>2, <2>2, <2>3, <2>4, SessionCalm
  <2>6. Undisturbed({r})
    <3>1. ASSUME NEW p \in Requests \ {r}, Creating(requests[p]), ~Stripe, NEW u \in Sessions,
                 RefOf(u) = requests[p].ref
          PROVE  sessions'[u] = sessions[u]
      <4>1. requests[p].ref # h.ref
        BY <1>0, <1>2, <3>1 DEF Certain, OneCreate
      <4> QED
        BY <1>4, <2>1, <3>1, <4>1
    <3> QED
      BY <1>1, <2>2, <3>1 DEF Undisturbed, database
  <2>7. HandlersTrue' /\ OneCreate'
    BY <1>2, <1>8, <1>10, <2>6, HandlersKeep DEF Certain
  <2>8. ChargesSame
    <3> SUFFICES ASSUME NEW t \in Transactions PROVE Charged(t)' <=> Charged(t)
      BY DEF ChargesSame
    <3>1. t[1] \in Sessions
      BY Shapes
    <3> QED
      BY <1>12, <2>1, <3>1 DEF Charged, Paid
  <2> QED
    BY <2>5, <2>7, <2>8 DEF Steady, Certain, Quiet
<1> QED
  BY <1>11, <1>12

-----------------------------------------------------------------------------
(* Creates that leave, and what time does                                    *)

(* A reserved row moves on.                                                  *)
LEMMA MovedCalm ==
    ASSUME TypeOK, Records, NEW a \in Attempts, attempts[a].status # "unused",
           NEW d, Moved(collections[a], d), collections' = [collections EXCEPT ![a] = d],
           UNCHANGED <<attempts, sessions, posted, invoices, receipts>>
    PROVE  Calm
<1>1. Forward /\ BooksKept /\ ReceiptsCalm /\ ReviewsKept
  BY InvoicesSame DEF Forward, BooksKept
<1>2. ASSUME NEW b \in Attempts PROVE RowCalm(b) /\ Moved(collections[b], collections'[b])
  <2>1. CASE b = a
    <3>1. collections'[b] = d
      BY <2>1 DEF TypeOK
    <3> QED
      BY <2>1, <3>1 DEF RowCalm
  <2>2. CASE b # a
    <3>1. collections'[b] = collections[b]
      BY <2>2 DEF TypeOK
    <3>2. Carried(collections[b], collections'[b])
      BY <3>1, RowFacts DEF Records, Carried, Moved
    <3> QED
      BY <3>2, RowRests DEF Carried
  <2> QED
    BY <2>1, <2>2
<1>3. SessionsTraced' /\ ProviderKind' /\ ChargesSame
  BY <1>2, TracedKept DEF Records, ProviderKind, ChargesSame, Charged
<1>4. RowsAgree' /\ ClosedKept /\ FatesSame({})
  BY <1>1, <1>2, CalmRows DEF Records
<1>5. ReceiptsTrue' /\ HeldEvidence' /\ BookingsSame
  BY <1>1, <1>2, CalmPaid, CalmReceipts DEF Records
<1> QED
  BY <1>3, <1>4, <1>5 DEF Calm, Records, Quiet

(* Where nothing was submitted there is no session and no create out.        *)
LEMMA Unsubmitted ==
    ASSUME Certain, TypeOK, NEW a \in Attempts, collections[a].submitted = "no"
    PROVE  /\ \A s \in Sessions : RefOf(s) = a => sessions[s] = "none"
           /\ \A p \in Requests : Creating(requests[p]) => requests[p].ref # a
<1>1. \A s \in Sessions : RefOf(s) = a => sessions[s] = "none"
  BY DEF Certain, Records, SessionsTraced
<1>2. \A p \in Requests : Creating(requests[p]) => requests[p].ref # a
  BY DEF Certain, HandlersTrue, HandlerTrue, CreateTrue
<1> QED
  BY <1>1, <1>2

(* The create leaves.                                                        *)
LEMMA SubmitSteady ==
    ASSUME Reservations, Certain, NEW r \in Requests, SubmitCreate(r)
    PROVE  Steady /\ Quiet
<1>1. PICK h, a : h = requests[r] /\ a = h.ref
  OBVIOUS
<1>2. /\ h.pc = "account" /\ h.op = "resume" /\ collections[a].holder = r
      /\ collections[a].account \in {None, h.account}
      /\ collections[a].submitted \in IF Stripe THEN {"no", "fresh"} ELSE {"no"}
      /\ UNCHANGED <<attempts, sessions, posted, invoices, receipts>>
  BY <1>1 DEF SubmitCreate, MayResume, Owns, SameAccount, MayCreate
<1>3. /\ h \in Request /\ HandlerShaped(h) /\ TypeOK /\ HandlersKnow /\ Records
      /\ a \in Attempts /\ h.account \in Accounts /\ collections[a] \in Collection
      /\ collections[a].closed => collections[a].holder = None
  BY <1>1, <1>2, HandlerFacts
<1>4. attempts[a].status # "unused"
  BY <1>2, <1>3 DEF Reservations, ClaimsReserved
<1>5. PICK d : d = Submit(Bind(collections[a], h.account))
  OBVIOUS
<1>6. Moved(collections[a], d) /\ d.submitted = "fresh" /\ d.account = h.account
  <2>1. Moved(collections[a], d) /\ d.submitted = "fresh"
    BY <1>2, <1>3, <1>5, WritesCarry
  <2>2. d.account = h.account
    BY <1>2, <1>3, <1>5 DEF Submit, Bind, Collection
  <2> QED
    BY <2>1, <2>2
<1>7. collections' = [collections EXCEPT ![a] = d]
  BY <1>1, <1>5 DEF SubmitCreate, WriteCollection, Bound
<1>8. collections'[a] = d /\ \A b \in Attempts \ {a} : collections'[b] = collections[b]
  BY <1>3, <1>7 DEF TypeOK
<1>9. Calm
  BY <1>2, <1>3, <1>4, <1>6, <1>7, MovedCalm
<1>10. PICK q : q = [h EXCEPT !.pc = "call", !.session = None]
  OBVIOUS
<1>11. /\ q.pc = "call" /\ q.op = "resume" /\ q.session = None /\ q.n = h.n /\ q.ref = a
       /\ q.account = h.account
  BY <1>1, <1>2, <1>3, <1>10 DEF Request
<1>12. requests' = [requests EXCEPT ![r] = q]
  BY <1>1, <1>3, <1>10 DEF SubmitCreate, Call, TypeOK
<1>13. HandlerTrue(q)'
  <2>1. CreateTrue(q)'
    <3>1. ~Stripe => \A s \in Sessions : RefOf(s) = a => sessions'[s] = "none"
      BY <1>2, <1>3, Unsubmitted
    <3> QED
      BY <1>6, <1>8, <1>11, <3>1 DEF CreateTrue
  <2>2. AnswerTrue(q)' /\ HandlerShaped(q)'
    BY <1>2, <1>3, <1>11 DEF AnswerTrue, HandlerShaped
  <2> QED
    BY <2>1, <2>2 DEF HandlerTrue
<1>14. Undisturbed({r})
  <2>1. ASSUME NEW p \in Requests \ {r}, Creating(requests[p])
        PROVE  /\ collections'[requests[p].ref].submitted = collections[requests[p].ref].submitted
               /\ collections'[requests[p].ref].account = collections[requests[p].ref].account
    <3>1. /\ requests[p].ref \in Attempts /\ requests[p].account # None
          /\ collections[requests[p].ref].submitted = "fresh"
          /\ collections[requests[p].ref].account = requests[p].account
      BY <2>1, HandlerFacts DEF CreateTrue, Creating
    <3> QED
      BY <1>2, <1>6, <1>8, <3>1
  <2> QED
    BY <1>2, <2>1 DEF Undisturbed, Forward
<1>15. ~Stripe => \A p \in Requests \ {r} : ~(Creating(requests[p]) /\ requests[p].ref = q.ref)
  BY <1>2, <1>3, <1>11, Unsubmitted
<1>16. HandlersTrue' /\ OneCreate'
  BY <1>3, <1>12, <1>13, <1>14, <1>15, HandlersKeep DEF Certain
<1> QED
  BY <1>9, <1>16 DEF Calm, Steady, Certain

(* A wait ends, or the provider forgets the key of a create.                 *)
LEMMA ClockSteady ==
    ASSUME Reservations, Certain, NEW a \in Attempts, WaitEnds(a) \/ ReplayWindowEnds(a)
    PROVE  Steady /\ Quiet
<1>1. TypeOK /\ HandlersKnow /\ HandlersTrue /\ OneCreate /\ Records /\ RowsAgree
  BY DEF Reservations, Certain, Records
<1>2. /\ UNCHANGED <<requests, sessions, attempts, posted, invoices, receipts>>
      /\ collections[a] \in Collection
  BY <1>1, RowFacts DEF WaitEnds, ReplayWindowEnds
<1>3. CASE WaitEnds(a)
  <2>1. PICK d : /\ d = [collections[a] EXCEPT !.wait = "free"]
                 /\ collections' = [collections EXCEPT ![a] = d]
    BY <1>3 DEF WaitEnds
  <2>2. Carried(collections[a], d)
    BY <1>1, <1>2, <2>1, RowFacts DEF Carried, Moved, Collection
  <2>3. AllCarried
    BY <1>1, <2>1, <2>2, WriteCarries
  <2>4. Calm
    BY <1>1, <1>2, <2>3, CarriedCalm, InvoicesSame
  <2> QED
    BY <1>2, <2>3, <2>4, CalmRest
<1>4. CASE ReplayWindowEnds(a)
  <2>1. PICK d : /\ d = [collections[a] EXCEPT !.submitted = "late"]
                 /\ collections' = [collections EXCEPT ![a] = d]
    BY <1>4 DEF ReplayWindowEnds
  <2>2. Moved(collections[a], d)
    BY <1>1, <1>2, <2>1, RowFacts DEF Moved, Collection
  <2>3. Calm
    BY <1>1, <1>2, <1>4, <2>1, <2>2, MovedCalm DEF ReplayWindowEnds, Unresolved
  <2>4. \A p \in Requests : Creating(requests[p]) => requests[p].ref # a
    BY <1>4 DEF ReplayWindowEnds, Creating
  <2>5. \A b \in Attempts \ {a} : collections'[b] = collections[b]
    BY <1>1, <2>1 DEF TypeOK
  <2>6. \A p \in Requests : Creating(requests[p]) => requests[p].ref \in Attempts
    BY <1>1, BoundType DEF Creating
  <2>7. Undisturbed({})
    BY <1>2, <2>4, <2>5, <2>6 DEF Undisturbed, Forward
  <2>8. HandlersTrue' /\ OneCreate'
    BY <1>1, <1>2, <2>7, HandlersRest
  <2> QED
    BY <2>3, <2>8 DEF Calm, Steady, Certain
<1> QED
  BY <1>3, <1>4

-----------------------------------------------------------------------------
(* The shop's handlers                                                       *)

(* An invoice row under review stays so, whichever of its amounts changes.   *)
LEMMA ChangeKeepsReview ==
    ASSUME TypeOK, NEW i \in Invoices,
           \/ Void(i) \/ AddCredit(i) \/ CancelCredit(i) \/ ManualPayment(i) \/ DeletePayment(i)
    PROVE  /\ \A j \in Invoices : invoices[j].review => invoices'[j].review
           /\ collections' = Stale(collections, ReservedOn(i))
           /\ UNCHANGED <<receipts, requests, sessions, attempts, posted>>
<1>1. \A row \in Invoice :
        /\ \A c : [row EXCEPT !.credit = c, !.review = TRUE].review
        /\ row.review => \A n, h : MoveManual(row, n, h).review
        /\ row.review => [row EXCEPT !.status = "void"].review
  BY DEF Invoice, MoveManual
<1>2. invoices[i] \in Invoice
  BY DEF TypeOK
<1>3. PICK row : ChangeInvoice(i, row) /\ (invoices[i].review => row.review)
  <2>1. CASE Void(i)
    BY <1>1, <1>2, <2>1 DEF Void
  <2>2. CASE AddCredit(i) \/ CancelCredit(i)
    BY <1>1, <1>2, <2>2 DEF AddCredit, CancelCredit
  <2>3. CASE ManualPayment(i) \/ DeletePayment(i)
    BY <1>1, <1>2, <2>3 DEF ManualPayment, DeletePayment
  <2> QED
    BY <2>1, <2>2, <2>3
<1> QED
  BY <1>3 DEF ChangeInvoice, TypeOK

(* A review is cleared where nothing waits, and its receipts are reviewed.   *)
LEMMA ClearFacts ==
    ASSUME TypeOK, NEW i \in Invoices, ClearReview(i)
    PROVE  /\ ReceiptsCalm /\ ReviewsKept
           /\ \E S : collections' = Stale(collections, S) \/ UNCHANGED collections
           /\ UNCHANGED <<requests, sessions, attempts, posted>>
<1>1. ReceiptsCalm
  <2> SUFFICES ASSUME NEW t \in Transactions, receipts'[t] # receipts[t]
               PROVE  Settled(receipts[t]) /\ Settled(receipts'[t])
                      /\ receipts'[t].invoice = receipts[t].invoice
    BY DEF ReceiptsCalm
  <2>1. receipts[t] \in Receipt
    BY DEF TypeOK
  <2>2. /\ receipts[t] = [state |-> "applied_review", invoice |-> i]
        /\ receipts'[t] = [receipts[t] EXCEPT !.state = "reviewed"]
    BY DEF ClearReview
  <2> QED
    BY <2>1, <2>2 DEF Settled, Receipt
<1>2. ReviewsKept
  <2> SUFFICES ASSUME NEW j \in Invoices, invoices[j].review, ~invoices'[j].review
               PROVE  \A t \in Transactions :
                        ~(receipts[t].invoice = j /\ receipts[t].state = "review")
    BY DEF ReviewsKept
  <2>1. j = i
    BY DEF ClearReview, TypeOK
  <2> QED
    BY <2>1 DEF ClearReview, CollectionHold
<1> QED
  BY <1>1, <1>2 DEF ClearReview

(* No handler of the shop settles a checkout.                                *)
LEMMA ShopSteady ==
    ASSUME Reservations, Certain, ShopStep
    PROVE  Steady /\ Quiet
<1>1. TypeOK /\ Records /\ RowsAgree /\ ReceiptsTrue
  BY DEF Reservations, Certain, Records
<1>2. Converted \subseteq Converted'
  BY <1>1, ShopKept DEF Kept
<1>3. /\ ReceiptsCalm /\ ReviewsKept
      /\ \E S : collections' = Stale(collections, S) \/ UNCHANGED collections
      /\ UNCHANGED <<requests, sessions, attempts, posted>>
  <2>1. ASSUME NEW i \in Invoices, Convert(i) PROVE ReviewsKept
    <3>1. \A t \in Transactions : receipts[t].invoice # i
      BY <1>1, <2>1 DEF Convert, NextInvoice, ReceiptsTrue, ReceiptTrue, Invoices
    <3>2. \A j \in Invoices \ {i} : invoices'[j] = invoices[j]
      BY <1>1, <2>1 DEF Convert, TypeOK
    <3> QED
      BY <3>1, <3>2 DEF ReviewsKept
  <2>2. CASE ReviseEstimate \/ ChangeSettings \/ \E i \in Invoices : EditInvoice(i)
    BY <2>2, InvoicesSame DEF ReviseEstimate, ChangeSettings, EditInvoice
  <2>3. ASSUME NEW i \in Invoices, Convert(i)
        PROVE  /\ ReceiptsCalm /\ ReviewsKept /\ UNCHANGED collections
               /\ UNCHANGED <<requests, sessions, attempts, posted>>
    BY <2>1, <2>3 DEF Convert, ReceiptsCalm
  <2>4. ASSUME NEW i \in Invoices,
               \/ Void(i) \/ AddCredit(i) \/ CancelCredit(i) \/ ManualPayment(i) \/ DeletePayment(i)
        PROVE  /\ ReceiptsCalm /\ ReviewsKept /\ collections' = Stale(collections, ReservedOn(i))
               /\ UNCHANGED <<requests, sessions, attempts, posted>>
    BY <1>1, <2>4, ChangeKeepsReview DEF ReceiptsCalm, ReviewsKept
  <2> QED
    BY <1>1, <2>2, <2>3, <2>4, ClearFacts DEF ShopStep
<1>4. AllCarried
  BY <1>1, <1>3, StaleCarries, SameCarries
<1>5. Calm
  BY <1>1, <1>2, <1>3, <1>4, CarriedCalm
<1> QED
  BY <1>3, <1>4, <1>5, CalmRest

-----------------------------------------------------------------------------
(* An answer is accepted                                                     *)

(* Rows that are calm while nothing else is written.                         *)
LEMMA RowsCalm ==
    ASSUME TypeOK, Records, UNCHANGED <<sessions, posted, invoices, receipts>>, AllCarried,
           \A b \in Attempts : RowCalm(b)
    PROVE  Calm
<1>1. Forward /\ BooksKept /\ ReceiptsCalm /\ ReviewsKept
  BY InvoicesSame DEF Forward, BooksKept
<1>2. SessionsTraced' /\ ProviderKind' /\ ChargesSame
  BY TracedKept DEF Records, ProviderKind, ChargesSame, Charged, AllCarried, Carried
<1>3. RowsAgree' /\ ClosedKept /\ FatesSame({})
  BY <1>1, CalmRows DEF Records
<1>4. ReceiptsTrue' /\ HeldEvidence' /\ BookingsSame
  BY <1>1, CalmPaid, CalmReceipts DEF Records
<1> QED
  BY <1>2, <1>3, <1>4 DEF Calm, Records, Quiet

Expiring(a) ==
    /\ Fate(a) = "reserved" /\ Fate(a)' = "expired"
    /\ \A t \in Transactions : RefOf(t[1]) = a => ~Charged(t)
    /\ FatesSame({a}) /\ ChargesSame /\ BookingsSame

(* What is known of an answer that is accepted.                              *)
LEMMA AcceptFacts ==
    ASSUME Reservations, Certain, NEW r \in Requests, AcceptAnswer(r),
           NEW h, h = requests[r], NEW a, a = h.ref
    PROVE  /\ h.pc = "answered" /\ h.op # "evidence" /\ collections[a].holder = r
           /\ RefOf(h.session) = a /\ h.session \in Sessions /\ sessions[h.session] # "none"
           /\ attempts[a].status = "pending" /\ ~collections[a].closed
           /\ UNCHANGED <<sessions, posted, invoices, receipts>>
           /\ \A b \in Attempts \ {a} :
                  attempts'[b] = attempts[b] /\ collections'[b] = collections[b]
           /\ attempts'[a].txn = attempts[a].txn /\ attempts'[a].invoice = attempts[a].invoice
           /\ attempts'[a].session \in {h.session, attempts[a].session}
           /\ TypeOK /\ HandlersKnow /\ Records /\ h \in Request /\ a \in Attempts
           /\ collections[a] \in Collection
<1>1. /\ h.pc = "answered" /\ h.op # "evidence" /\ collections[a].holder = r
      /\ RefOf(h.session) = a /\ UNCHANGED <<sessions, posted, invoices, receipts>>
  BY DEF AcceptAnswer, Acceptable, Owns, Foreign
<1>2. /\ TypeOK /\ HandlersKnow /\ Records /\ h \in Request /\ a \in Attempts
      /\ collections[a] \in Collection /\ attempts[a] \in Attempt /\ RowAgrees(a)
      /\ AnswerTrue(h) /\ (collections[a].closed => collections[a].holder = None)
      /\ h.session \in Sessions
  <2>1. /\ TypeOK /\ HandlersKnow /\ Records /\ h \in Request /\ a \in Attempts
        /\ collections[a] \in Collection /\ attempts[a] \in Attempt /\ RowAgrees(a)
        /\ AnswerTrue(h) /\ (collections[a].closed => collections[a].holder = None)
        /\ h.session \in Sessions \cup {None}
    BY <1>1, HandlerFacts
  <2> QED
    BY <1>1, <2>1 DEF HandlersKnow
<1>3. sessions[h.session] # "none"
  BY <1>2, Shapes DEF AnswerTrue
<1>4. ~collections[a].closed
  BY <1>1, <1>2
<1>5. attempts[a].status = "pending"
  BY <1>1, <1>2, <1>4 DEF RowAgrees, Reservations, ClaimsReserved
<1>6. \A b \in Attempts \ {a} : attempts'[b] = attempts[b] /\ collections'[b] = collections[b]
  BY <1>2 DEF AcceptAnswer, WriteCollection, TypeOK
<1>7. /\ attempts'[a].txn = attempts[a].txn /\ attempts'[a].invoice = attempts[a].invoice
      /\ attempts'[a].session \in {h.session, attempts[a].session}
  <2>1. PICK s, st : /\ attempts' = [attempts EXCEPT ![a] =
                                       [attempts[a] EXCEPT !.session = s, !.status = st]]
                     /\ s \in {h.session, attempts[a].session}
    BY <1>2 DEF AcceptAnswer, Attempt
  <2>2. attempts'[a] = [attempts[a] EXCEPT !.session = s, !.status = st]
    BY <1>2, <2>1 DEF TypeOK
  <2> QED
    BY <1>2, <2>1, <2>2 DEF Attempt
<1> QED
  BY <1>1, <1>2, <1>3, <1>4, <1>5, <1>6, <1>7

(* It leaves the checkout reserved,                                          *)
LEMMA AcceptOpen ==
    ASSUME Reservations, Certain, NEW r \in Requests, AcceptAnswer(r),
           NEW a, a = requests[r].ref, attempts'[a].status = attempts[a].status,
           Carried(collections[a], collections'[a])
    PROVE  Steady /\ Quiet
<1>1. PICK h : h = requests[r] /\ a = h.ref
  OBVIOUS
<1>2. /\ h.pc = "answered" /\ RefOf(h.session) = a /\ h.session \in Sessions
      /\ sessions[h.session] # "none" /\ attempts[a].status = "pending"
      /\ UNCHANGED <<sessions, posted, invoices, receipts>>
      /\ \A b \in Attempts \ {a} :
             attempts'[b] = attempts[b] /\ collections'[b] = collections[b]
      /\ attempts'[a].txn = attempts[a].txn /\ attempts'[a].invoice = attempts[a].invoice
      /\ attempts'[a].session \in {h.session, attempts[a].session}
      /\ TypeOK /\ HandlersKnow /\ Records /\ h \in Request /\ a \in Attempts
  BY <1>1, AcceptFacts
<1>3. AllCarried
  <2>1. \A b \in Attempts \ {a} : Carried(collections[b], collections'[b])
    BY <1>2, RowFacts DEF Records, Carried, Moved
  <2> QED
    BY <1>2, <2>1 DEF AllCarried
<1>4. RowCalm(a)
  BY <1>2 DEF RowCalm, Carried
<1>5. \A b \in Attempts \ {a} : RowCalm(b)
  BY <1>2, <1>3, RowRests DEF AllCarried
<1>6. Calm
  BY <1>2, <1>3, <1>4, <1>5, RowsCalm
<1>7. PICK q : /\ requests' = [requests EXCEPT ![r] = q]
               /\ \/ q = Idle
                  \/ q = [h EXCEPT !.pc = "paid"] /\ Paid(h.seen)
  BY <1>1, <1>2 DEF AcceptAnswer, Done, TypeOK
<1>8. HandlerTrue(q)' /\ ~Creating(q)
  <2>1. CASE q = Idle
    BY <2>1, IdleTrue
  <2>2. CASE q = [h EXCEPT !.pc = "paid"] /\ Paid(h.seen)
    <3>1. /\ q.pc = "paid" /\ q.op = h.op /\ q.session = h.session /\ q.n = h.n
          /\ q.seen = h.seen /\ q.ref = h.ref
      BY <1>2, <2>2 DEF Request
    <3>2. AnswerTrue(h) /\ HandlerShaped(h)
      BY <1>1, <1>2, HandlerFacts
    <3>3. h.op # "evidence"
      BY <1>1 DEF AcceptAnswer, Acceptable
    <3>4. AnswerTrue(q) /\ HandlerShaped(q) /\ ~Creating(q)
      BY <1>1, <1>2, <2>2, <3>1, <3>2, <3>3 DEF AnswerTrue, HandlerShaped, Creating
    <3> QED
      BY <1>2, <3>4, AnswerStays
  <2> QED
    BY <1>7, <2>1, <2>2
<1> QED
  BY <1>2, <1>3, <1>6, <1>7, <1>8, CalmHandler

(* or closes it, the session having expired.                                 *)
LEMMA AcceptExpired ==
    ASSUME Reservations, Certain, NEW r \in Requests, AcceptAnswer(r),
           NEW a, a = requests[r].ref, requests[r].seen = "expired",
           attempts'[a].status = "expired",
           collections'[a] = Release(collections[a], r, "expired", FALSE, TRUE)
    PROVE  Steady /\ Stripe /\ Expiring(a)
<1>1. PICK h, s : h = requests[r] /\ a = h.ref /\ s = h.session
  OBVIOUS
<1>2. /\ h.pc = "answered" /\ RefOf(s) = a /\ s \in Sessions
      /\ sessions[s] # "none" /\ attempts[a].status = "pending" /\ ~collections[a].closed
      /\ UNCHANGED <<sessions, posted, invoices, receipts>>
      /\ \A b \in Attempts \ {a} :
             attempts'[b] = attempts[b] /\ collections'[b] = collections[b]
      /\ attempts'[a].txn = attempts[a].txn /\ attempts'[a].invoice = attempts[a].invoice
      /\ attempts'[a].session \in {s, attempts[a].session}
      /\ TypeOK /\ HandlersKnow /\ Records /\ a \in Attempts
      /\ collections[a] \in Collection /\ collections[a].holder = r
  BY <1>1, AcceptFacts
<1>3. sessions[s] = "expired" /\ Stripe
  <2>1. AnswerTrue(h)
    BY <1>1, <1>2, HandlerFacts
  <2>2. sessions[s] = "expired"
    BY <1>1, <1>2, <2>1 DEF AnswerTrue
  <2> QED
    BY <1>2, <2>2 DEF Records, ProviderKind
<1>4. /\ collections'[a].closed /\ collections'[a].state = "expired"
      /\ collections'[a].holder = None /\ collections'[a].account = collections[a].account
      /\ collections'[a].submitted = collections[a].submitted
  <2>1. PICK c \in Collection : c = collections[a] /\ c.holder = r
    BY <1>2
  <2>2. collections'[a] = [c EXCEPT !.state = "expired", !.holder = None,
                                    !.closed = c.closed \/ TRUE, !.wait = "free"]
    BY <2>1 DEF Release
  <2> QED
    BY <2>1, <2>2 DEF Collection
<1>5. \A t \in Transactions : RefOf(t[1]) = a => ~Charged(t)
  <2> SUFFICES ASSUME NEW t \in Transactions, RefOf(t[1]) = a, Charged(t) PROVE FALSE
    OBVIOUS
  <2>1. t[1] \in Sessions /\ sessions[t[1]] \notin {"none", "expired"}
    BY ChargedFacts
  <2> QED
    BY <1>2, <1>3, <2>1, OneOfRef DEF Records
<1>6. Forward /\ BooksKept /\ ReceiptsCalm /\ ReviewsKept
  BY <1>2, InvoicesSame DEF Forward, BooksKept
<1>7. RowsAgree' /\ ClosedKept
  <2>1. \A b \in Attempts \ {a} : Carried(collections[b], collections'[b])
    BY <1>2, RowFacts DEF Records, Carried, Moved
  <2>2. \A b \in Attempts \ {a} : RowCalm(b)
    BY <1>2, <2>1, RowRests
  <2>3. \A b \in Attempts \ {a} : RowAgrees(b)'
    BY <1>2, <1>6, <2>2, RowKeeps DEF RowsAgree, Records
  <2>4. RowAgrees(a)
    BY <1>2 DEF RowsAgree, Records
  <2>5. RowAgrees(a)'
    BY <1>2, <1>3, <1>4, <1>6, <2>4 DEF RowAgrees, BooksKept
  <2>6. ClosedKept
    BY <1>2, <2>1 DEF ClosedKept, Carried, Moved
  <2> QED
    BY <2>3, <2>5, <2>6 DEF RowsAgree
<1>8. PaidKept
  BY <1>2, <1>5 DEF PaidKept, Unresolved
<1>9. ReceiptsTrue' /\ HeldEvidence' /\ BookingsSame
  BY <1>2, <1>6, <1>8, CalmReceipts DEF Records
<1>10. SessionsTraced' /\ ProviderKind' /\ ChargesSame
  <2>1. SessionsTraced'
    <3>1. \A b \in Attempts : /\ collections'[b].submitted = collections[b].submitted
                              /\ collections'[b].account = collections[b].account
      BY <1>2, <1>4
    <3>2. \A u \in Sessions : RefOf(u) \in Attempts
      BY SessionParts
    <3> QED
      BY <1>2, <3>1, <3>2 DEF Records, SessionsTraced
  <2> QED
    BY <1>2, <2>1 DEF Records, ProviderKind, ChargesSame, Charged
<1>11. HandlersTrue' /\ OneCreate'
  <2>1. Undisturbed({r})
    <3>1. \A b \in Attempts : /\ collections'[b].submitted = collections[b].submitted
                              /\ collections'[b].account = collections[b].account
      BY <1>2, <1>4
    <3>2. \A p \in Requests : Creating(requests[p]) => requests[p].ref \in Attempts
      BY <1>2, BoundType DEF Creating
    <3> QED
      BY <1>2, <1>6, <3>1, <3>2 DEF Undisturbed
  <2>2. Done(r)
    BY DEF AcceptAnswer, Paid
  <2> QED
    BY <1>2, <2>1, <2>2, HandlerEnds DEF Certain
<1>12. Fate(a) = "reserved" /\ Fate(a)' = "expired" /\ FatesSame({a})
  BY <1>2, <1>4 DEF Fate, Unresolved, FatesSame
<1> QED
  BY <1>3, <1>5, <1>7, <1>9, <1>10, <1>11, <1>12 DEF Steady, Certain, Records, Expiring

(* Accepting an answer leaves the checkout reserved or expires it.           *)
LEMMA AcceptSteady ==
    ASSUME Reservations, Certain, NEW r \in Requests, AcceptAnswer(r)
    PROVE  Steady /\ (Quiet \/ (Stripe /\ \E a \in Attempts : Expiring(a)))
<1>1. PICK h, a : h = requests[r] /\ a = h.ref
  OBVIOUS
<1>2. /\ TypeOK /\ Records /\ a \in Attempts /\ collections[a] \in Collection
      /\ attempts[a] \in Attempt
      /\ collections[a].closed => collections[a].holder = None
  BY <1>1, HandlerFacts DEF AcceptAnswer, Acceptable
<1>3. PICK stale, ended \in BOOLEAN :
        /\ stale <=> h.op = "resume" /\ ~Paid(h.seen) /\ ~SnapshotSame(a)
        /\ ended <=> h.seen = "expired" /\ ~stale
  OBVIOUS
<1>4. /\ attempts'[a].status = IF ended THEN "expired" ELSE attempts[a].status
      /\ collections'[a] = IF stale THEN Fail(collections[a], r)
                           ELSE Release(collections[a], r,
                                  IF ended THEN "expired" ELSE "unresolved", FALSE, ended)
  <2>1. PICK s, st : /\ attempts' = [attempts EXCEPT ![a] =
                                       [attempts[a] EXCEPT !.session = s, !.status = st]]
                     /\ st = IF ended THEN "expired" ELSE attempts[a].status
    BY <1>1, <1>2, <1>3 DEF AcceptAnswer, Attempt
  <2>2. attempts'[a] = [attempts[a] EXCEPT !.session = s, !.status = st]
    BY <1>2, <2>1 DEF TypeOK
  <2>3. attempts'[a].status = st
    BY <1>2, <2>2 DEF Attempt
  <2>4. collections'[a] = IF stale THEN Fail(collections[a], r)
                          ELSE Release(collections[a], r,
                                 IF ended THEN "expired" ELSE "unresolved", FALSE, ended)
    BY <1>1, <1>2, <1>3 DEF AcceptAnswer, WriteCollection, TypeOK
  <2> QED
    BY <2>1, <2>3, <2>4
<1>5. CASE ended
  <2>1. collections'[a] = Release(collections[a], r, "expired", FALSE, TRUE)
    BY <1>3, <1>4, <1>5 DEF Release
  <2> QED
    BY <1>1, <1>2, <1>3, <1>4, <1>5, <2>1, AcceptExpired
<1>6. CASE ~ended
  <2>1. Carried(collections[a], collections'[a])
    <3>1. h.account \in Accounts
      BY <1>1, HandlerFacts DEF AcceptAnswer, Acceptable
    <3>2. /\ Carried(collections[a], Fail(collections[a], r))
          /\ Carried(collections[a], Release(collections[a], r, "unresolved", FALSE, FALSE))
      BY <1>2, <3>1, WritesCarry
    <3>3. \/ collections'[a] = Fail(collections[a], r)
          \/ collections'[a] = Release(collections[a], r, "unresolved", FALSE, FALSE)
      BY <1>4, <1>6 DEF Release
    <3> QED
      BY <3>2, <3>3
  <2> QED
    BY <1>1, <1>4, <1>6, <2>1, AcceptOpen
<1> QED
  BY <1>5, <1>6

-----------------------------------------------------------------------------
(* Evidence is reconciled                                                    *)

(* Money that was taken is of a checkout that is reserved or paid.           *)
LEMMA ChargedRow ==
    ASSUME TypeOK, Records, NEW t \in Transactions, Charged(t), NEW a, a = RefOf(t[1])
    PROVE  /\ a \in Attempts /\ RowAgrees(a) /\ attempts[a].status \in {"pending", "paid"}
           /\ attempts[a].status = "pending" <=> Unresolved(a)
           /\ attempts[a].status = "paid" => collections[a].closed /\ collections[a].state = "paid"
<1>1. /\ t[1] \in Sessions /\ a \in Attempts /\ sessions[t[1]] \notin {"none", "expired"}
      /\ RowAgrees(a) /\ attempts[a] \in Attempt
  BY ChargedFacts, RowFacts DEF Records
<1>2. attempts[a].status # "unused"
  BY <1>1 DEF Records, SessionsTraced, RowAgrees
<1>3. attempts[a].status # "expired"
  BY <1>1, OneOfRef DEF Records, RowAgrees
<1>4. attempts[a].status \in {"pending", "paid"}
  BY <1>1, <1>2, <1>3 DEF Attempt
<1> QED
  BY <1>1, <1>4 DEF RowAgrees, Unresolved

(* What is reconciled was charged, and is of the handler's checkout.         *)
LEMMA EvidenceFacts ==
    ASSUME Reservations, Certain, NEW r \in Requests, Reconcilable(r),
           NEW h, h = requests[r], NEW a, a = h.ref, NEW t, t = Txn(r)
    PROVE  /\ t \in Transactions /\ t[1] = h.session /\ RefOf(t[1]) = a /\ Charged(t)
           /\ TypeOK /\ HandlersKnow /\ Records /\ RowsAgree /\ ReceiptsTrue
           /\ a \in Attempts /\ h.pc # "idle"
<1>1. h.pc \in {"answered", "paid"} /\ (h.pc = "paid" \/ (h.op = "evidence" /\ Paid(h.seen)))
  BY DEF Reconcilable
<1>2. /\ TypeOK /\ HandlersKnow /\ Records /\ RowsAgree /\ ReceiptsTrue /\ a \in Attempts
      /\ AnswerTrue(h) /\ HandlerShaped(h) /\ h \in Request /\ t \in Transactions
  BY <1>1, HandlerFacts, ReconcilableType DEF Records
<1>3. t[1] = h.session /\ t[2] = h.n /\ t = <<h.session, h.n>>
  BY DEF Txn
<1>4. RefOf(t[1]) = a /\ Paid(h.seen)
  BY <1>1, <1>2, <1>3 DEF HandlerShaped
<1>5. Charged(t)
  <2>1. CASE h.n = 1
    BY <1>1, <1>2, <1>3, <1>4, <2>1 DEF AnswerTrue, Charged
  <2>2. CASE h.n # 1
    BY <1>2, <1>3, <2>2 DEF AnswerTrue
  <2> QED
    BY <2>1, <2>2
<1> QED
  BY <1>1, <1>2, <1>3, <1>4, <1>5

(* One receipt is written, on rows that are carried on.                      *)
LEMMA ReceiptCalm ==
    ASSUME TypeOK, Records, UNCHANGED <<sessions, posted, attempts>>, AllCarried,
           Converted \subseteq Converted', NEW t \in Transactions,
           \A i \in Invoices : invoices[i].review => invoices'[i].review,
           \A u \in Transactions \ {t} : receipts'[u] = receipts[u],
           receipts'[t].state # "none", ReceiptTrue(t)', HeldTrue(t)'
    PROVE  Calm
<1>1. Forward /\ BooksKept
  BY DEF Forward, BooksKept
<1>2. \A b \in Attempts : RowCalm(b) /\ Moved(collections[b], collections'[b])
  BY DEF RowCalm, AllCarried, Carried
<1>3. SessionsTraced' /\ ProviderKind' /\ ChargesSame
  BY <1>2, TracedKept DEF Records, ProviderKind, ChargesSame, Charged
<1>4. RowsAgree' /\ ClosedKept /\ FatesSame({})
  BY <1>1, <1>2, CalmRows DEF Records
<1>5. ReceiptsTrue'
  <2>1. \A u \in Transactions \ {t} : ReceiptTrue(u)'
    BY <1>1, ReceiptKeeps DEF Records, ReceiptsTrue
  <2> QED
    BY <2>1 DEF ReceiptsTrue
<1>6. HeldEvidence'
  <2>1. ASSUME NEW u \in Transactions \ {t} PROVE HeldTrue(u)'
    <3>1. HeldTrue(u) /\ RefOf(u[1]) \in Attempts /\ receipts'[u] = receipts[u]
          /\ receipts[u].invoice \in 0..MaxInvoices
      BY HeldParts, Shapes DEF Records, TypeOK, Receipt
    <3>2. Extra(RefOf(u[1]), u) => Extra(RefOf(u[1]), u)'
      BY DEF Extra, AlreadyPaid
    <3>3. Unresolved(RefOf(u[1])) => Unresolved(RefOf(u[1]))'
      BY <1>2, <3>1 DEF Unresolved, Moved
    <3>4. receipts[u].invoice # NoInvoice /\ invoices[receipts[u].invoice].review
            => invoices'[receipts[u].invoice].review
      BY <3>1 DEF Invoices
    <3> QED
      BY <3>1, <3>2, <3>3, <3>4, HeldKeeps
  <2> QED
    BY <2>1 DEF HeldEvidence, HeldTrue
<1> QED
  BY <1>3, <1>4, <1>5, <1>6 DEF Calm, Records, Quiet, BookingsSame

(* The invoice of a receipt that is received exists.                         *)
LEMMA ReceivedFacts ==
    ASSUME TypeOK, Records, NEW t \in Transactions, Charged(t), NEW i, i = Received(t).invoice
    PROVE  /\ i \in 0..MaxInvoices /\ (i # NoInvoice => i \in Converted)
           /\ receipts[t].state # "none" => Received(t) = receipts[t]
           /\ receipts[t].state = "none" =>
                  Received(t) = [state |-> "review", invoice |-> attempts[RefOf(t[1])].invoice]
           /\ ReceiptTrue(t)
<1>1. /\ RefOf(t[1]) \in Attempts /\ RowAgrees(RefOf(t[1]))
      /\ attempts[RefOf(t[1])].invoice \in 0..MaxInvoices
      /\ ReceiptTrue(t) /\ receipts[t] \in Receipt
  BY ChargedRow DEF TypeOK, Attempt, Records, ReceiptsTrue
<1> QED
  BY <1>1 DEF Received, RowAgrees, ReceiptTrue, Receipt

(* Evidence on no invoice, received or not, is of a checkout still reserved  *)
(* or a second capture.                                                      *)
LEMMA UnplacedHeld ==
    ASSUME TypeOK, Records, NEW t \in Transactions, Charged(t), NEW a, a = RefOf(t[1]),
           receipts[t].state = "none" \/ receipts[t].invoice = NoInvoice
    PROVE  Unresolved(a) \/ Extra(a, t)
<1>1. /\ a \in Attempts /\ RowAgrees(a) /\ attempts[a].status \in {"pending", "paid"}
      /\ attempts[a].status = "pending" <=> Unresolved(a)
  BY ChargedRow
<1>2. ReceiptTrue(t) /\ HeldTrue(t) /\ receipts[t] \in Receipt
  BY HeldParts DEF Records, ReceiptsTrue, TypeOK
<1>3. CASE receipts[t].state = "none"
  BY <1>1, <1>3 DEF RowAgrees, Extra, AlreadyPaid
<1>4. CASE receipts[t].state # "none" /\ receipts[t].invoice = NoInvoice
  BY <1>2, <1>4 DEF ReceiptTrue, HeldTrue, Settled, Receipt
<1> QED
  BY <1>3, <1>4

(* Holding a receipt leaves its evidence held.                               *)
LEMMA HoldSteady ==
    ASSUME Reservations, Certain, NEW r \in Requests, HoldReceipt(r)
    PROVE  Steady /\ Quiet
<1>1. PICK h, a, t, i : h = requests[r] /\ a = h.ref /\ t = Txn(r) /\ i = Received(t).invoice
  OBVIOUS
<1>2. /\ t \in Transactions /\ RefOf(t[1]) = a /\ Charged(t)
      /\ TypeOK /\ HandlersKnow /\ Records /\ RowsAgree /\ a \in Attempts
  BY <1>1, EvidenceFacts DEF HoldReceipt
<1>3. i \in 0..MaxInvoices /\ (i # NoInvoice => i \in Converted) /\ ReceiptTrue(t)
  BY <1>1, <1>2, ReceivedFacts
<1>4. /\ receipts' = [receipts EXCEPT ![t] = [state |-> "review", invoice |-> i]]
      /\ invoices' = [j \in Invoices |-> IF j = i THEN Held(invoices[j]) ELSE invoices[j]]
      /\ UNCHANGED <<attempts, posted, sessions>>
      /\ requests' = [requests EXCEPT ![r] = Idle]
  BY <1>1 DEF HoldReceipt, Done
<1>5. /\ receipts'[t].state = "review" /\ receipts'[t].invoice = i
      /\ \A u \in Transactions \ {t} : receipts'[u] = receipts[u]
  BY <1>2, <1>4 DEF TypeOK
<1>6. AllCarried
  BY <1>2, StaleCarries DEF HoldReceipt
<1>7. Converted \subseteq Converted'
  BY <1>2, ReconcileKept DEF Kept
<1>8. /\ \A j \in Invoices : invoices[j].review => invoices'[j].review
      /\ i # NoInvoice => invoices'[i].review
  <2>1. \A row \in Invoice : Held(row).review
    BY DEF Held, Invoice
  <2> QED
    BY <1>2, <1>3, <1>4, <2>1 DEF TypeOK, Invoices
<1>9. ReceiptTrue(t)'
  <2>1. Charged(t)' /\ (posted[t] # NoInvoice => attempts[RefOf(t[1])].status = "paid")
    BY <1>2, <1>3, <1>4 DEF Charged, ReceiptTrue
  <2> QED
    BY <1>3, <1>4, <1>5, <1>7, <2>1 DEF ReceiptTrue, Settled
<1>10. HeldTrue(t)'
  <2>1. CASE i = NoInvoice
    <3>1. receipts[t].state = "none" \/ receipts[t].invoice = NoInvoice
      BY <1>1, <1>2, <2>1, ReceivedFacts
    <3>2. Unresolved(a) \/ Extra(a, t)
      BY <1>2, <3>1, UnplacedHeld
    <3>3. Unresolved(a)' \/ Extra(a, t)'
      BY <1>2, <1>4, <1>6, <3>2 DEF Unresolved, Extra, AlreadyPaid, AllCarried, Carried, Moved
    <3> QED
      BY <1>2, <3>3 DEF HeldTrue
  <2>2. CASE i # NoInvoice
    BY <1>5, <1>8, <2>2 DEF HeldTrue
  <2> QED
    BY <2>1, <2>2
<1>11. Calm
  BY <1>2, <1>4, <1>5, <1>6, <1>7, <1>8, <1>9, <1>10, ReceiptCalm
<1> QED
  BY <1>4, <1>6, <1>11, IdleTrue, CalmHandler

(* A crash, also between receipt and payment, leaves its evidence held.      *)
LEMMA CrashSteady ==
    ASSUME Reservations, Certain, Crash \/ \E r \in Requests : CrashAfterReceipt(r)
    PROVE  Steady /\ Quiet
<1>1. TypeOK /\ HandlersKnow /\ Records /\ RowsAgree
  BY DEF Reservations, Certain, Records
<1>2. HandlersTrue' /\ OneCreate'
  BY HandlersGone DEF Crash, CrashAfterReceipt
<1>3. AllCarried
  BY <1>1, SameCarries DEF Crash, CrashAfterReceipt, database
<1>4. CASE Crash
  <2>1. Calm
    BY <1>1, <1>3, <1>4, CarriedCalm, InvoicesSame DEF Crash, database
  <2> QED
    BY <1>2, <2>1 DEF Calm, Steady, Certain
<1>5. ASSUME NEW r \in Requests, CrashAfterReceipt(r) PROVE Calm
  <2>1. PICK h, a, t : h = requests[r] /\ a = h.ref /\ t = Txn(r)
    OBVIOUS
  <2>2. /\ t \in Transactions /\ RefOf(t[1]) = a /\ Charged(t) /\ a \in Attempts
    BY <1>5, <2>1, EvidenceFacts DEF CrashAfterReceipt
  <2>3. PICK i : i = Received(t).invoice
    OBVIOUS
  <2>4. /\ receipts' = [receipts EXCEPT ![t] = Received(t)]
        /\ UNCHANGED <<attempts, posted, sessions, invoices, collections>>
    BY <1>5, <2>1 DEF CrashAfterReceipt
  <2>5. receipts'[t] = Received(t) /\ \A u \in Transactions \ {t} : receipts'[u] = receipts[u]
    BY <1>1, <2>2, <2>4 DEF TypeOK
  <2>6. CASE receipts[t].state # "none"
    <3>1. \A u \in Transactions : receipts'[u] = receipts[u]
      BY <1>1, <2>2, <2>5, <2>6, ReceivedFacts
    <3>2. ReceiptsCalm /\ ReviewsKept /\ Converted \subseteq Converted'
      BY <2>4, <3>1 DEF ReceiptsCalm, ReviewsKept, Converted
    <3> QED
      BY <1>1, <1>3, <2>4, <3>2, CarriedCalm
  <2>7. CASE receipts[t].state = "none"
    <3>1. /\ receipts'[t].state = "review" /\ receipts'[t].invoice = i
          /\ (i # NoInvoice => i \in Converted) /\ ReceiptTrue(t)
      BY <1>1, <2>2, <2>3, <2>5, <2>7, ReceivedFacts
    <3>2. ReceiptTrue(t)'
      <4>1. Charged(t)' /\ (posted[t] # NoInvoice => attempts[RefOf(t[1])].status = "paid")
        BY <2>2, <2>4, <3>1 DEF Charged, ReceiptTrue
      <4> QED
        BY <2>4, <3>1, <4>1 DEF ReceiptTrue, Settled, Converted
    <3>3. HeldTrue(t)'
      <4>1. Unresolved(a) \/ Extra(a, t)
        BY <1>1, <2>2, <2>7, UnplacedHeld
      <4>2. Unresolved(a)' \/ Extra(a, t)'
        BY <2>4, <4>1 DEF Unresolved, Extra, AlreadyPaid
      <4> QED
        BY <2>2, <4>2 DEF HeldTrue
    <3>4. /\ Converted \subseteq Converted'
          /\ \A j \in Invoices : invoices[j].review => invoices'[j].review
      BY <2>4 DEF Converted
    <3> QED
      BY <1>1, <1>3, <2>2, <2>4, <2>5, <3>1, <3>2, <3>3, <3>4, ReceiptCalm
  <2> QED
    BY <2>6, <2>7
<1> QED
  BY <1>2, <1>4, <1>5 DEF Calm, Steady, Certain

(* Evidence delivered again settles nothing.                                 *)
LEMMA RepeatSteady ==
    ASSUME Reservations, Certain, NEW r \in Requests, RepeatedEvidence(r)
    PROVE  Steady /\ Quiet
<1>1. PICK h, a, t : h = requests[r] /\ a = h.ref /\ t = Txn(r)
  OBVIOUS
<1>2. /\ t \in Transactions /\ RefOf(t[1]) = a /\ Charged(t) /\ h.pc # "idle"
      /\ TypeOK /\ HandlersKnow /\ Records /\ RowsAgree /\ a \in Attempts
  BY <1>1, EvidenceFacts DEF RepeatedEvidence
<1>3. /\ UNCHANGED <<invoices, attempts, posted, sessions>>
      /\ requests' = [requests EXCEPT ![r] = Idle]
  BY DEF RepeatedEvidence, Done
<1>4. CASE UNCHANGED <<receipts, collections>>
  <2>1. AllCarried
    BY <1>2, <1>4, SameCarries
  <2>2. Calm
    BY <1>2, <1>3, <1>4, <2>1, CarriedCalm, InvoicesSame
  <2> QED
    BY <1>3, <2>1, <2>2, IdleTrue, CalmHandler
<1>5. CASE ~Settled(Received(t))
  <2>1. PICK i : i = attempts[a].invoice
    OBVIOUS
  <2>2. /\ attempts[a].status = "paid" /\ attempts[a].txn = t
        /\ receipts' = [receipts EXCEPT ![t] = [state |-> "applied", invoice |-> i]]
        /\ collections' = [collections EXCEPT ![a] = Finish(collections[a])]
    BY <1>1, <1>5, <2>1 DEF RepeatedEvidence, Duplicate, AlreadyPaid, WriteCollection
  <2>3. /\ RowAgrees(a) /\ collections[a].closed /\ collections[a].state = "paid"
        /\ collections[a] \in Collection /\ collections[a].holder = None
    BY <1>2, <2>2, ChargedRow, RowFacts
  <2>4. i # NoInvoice /\ i \in Converted
    BY <2>1, <2>2, <2>3 DEF RowAgrees
  <2>5. Carried(collections[a], Finish(collections[a]))
    BY <2>3 DEF Carried, Moved, Finish, Collection
  <2>6. AllCarried
    BY <1>2, <2>2, <2>5, WriteCarries
  <2>7. /\ receipts'[t].state = "applied" /\ receipts'[t].invoice = i
        /\ \A u \in Transactions \ {t} : receipts'[u] = receipts[u]
    BY <1>2, <2>2 DEF TypeOK
  <2>8. Charged(t)'
    BY <1>2, <1>3 DEF Charged
  <2>9. ReceiptTrue(t)' /\ HeldTrue(t)'
    BY <1>2, <1>3, <2>2, <2>4, <2>7, <2>8 DEF ReceiptTrue, HeldTrue, Converted
  <2>10. Converted \subseteq Converted'
    BY <1>3 DEF Converted
  <2>11. Calm
    BY <1>2, <1>3, <2>6, <2>7, <2>9, <2>10, ReceiptCalm
  <2> QED
    BY <1>3, <2>6, <2>11, IdleTrue, CalmHandler
<1> QED
  BY <1>1, <1>4, <1>5 DEF RepeatedEvidence

-----------------------------------------------------------------------------
(* A payment is applied                                                      *)

(* Its invoice exists from then on, and stays under review if it was.        *)
LEMMA ApplyInvoice ==
    ASSUME TypeOK, HandlersKnow, NEW r \in Requests, ApplyPayment(r),
           NEW i, i = InvoiceFor(requests[r].ref)
    PROVE  /\ i \in Invoices /\ i \in Converted' /\ Converted \subseteq Converted'
           /\ \A j \in Converted : invoices[j].review => invoices'[j].review
<1> DEFINE row == RowFor(i)
<1>1. requests[r].ref \in Attempts /\ i \in Invoices
  BY ReconcilableType, InvoiceForType DEF ApplyPayment
<1>2. row \in Invoice /\ row.status # "none"
  <2>1. invoices[i] \in Invoice /\ estimate.total \in Totals
    BY <1>1 DEF TypeOK, Estimate
  <2>2. estimate.total \in Nat
    BY <2>1
  <2>3. NewInvoice(estimate.total) \in Invoice /\ NewInvoice(estimate.total).status = "live"
    BY <2>2 DEF NewInvoice, Invoice
  <2> QED
    BY <2>1, <2>3 DEF RowFor, Converted
<1>3. PICK p, h : /\ invoices' = [invoices EXCEPT ![i] = [row EXCEPT !.paid = p, !.review = h]]
                  /\ row.review => h
  BY <1>2 DEF ApplyPayment, Invoice
<1>4. /\ invoices'[i].status = row.status /\ (row.review => invoices'[i].review)
      /\ \A j \in Invoices \ {i} : invoices'[j] = invoices[j]
  BY <1>1, <1>2, <1>3 DEF Invoice, TypeOK
<1>5. i \in Converted' /\ Converted \subseteq Converted'
  BY <1>1, <1>2, <1>4 DEF Converted
<1>6. \A j \in Converted : invoices[j].review => invoices'[j].review
  BY <1>4 DEF Converted, RowFor
<1> QED
  BY <1>1, <1>5, <1>6

(* What it writes.                                                           *)
LEMMA ApplyFacts ==
    ASSUME Reservations, Certain, NEW r \in Requests, ApplyPayment(r),
           NEW a, a = requests[r].ref, NEW t, t = Txn(r), NEW i, i = InvoiceFor(a)
    PROVE  /\ t \in Transactions /\ RefOf(t[1]) = a /\ Charged(t) /\ a \in Attempts
           /\ TypeOK /\ HandlersKnow /\ Records /\ RowsAgree /\ RowAgrees(a)
           /\ i \in Invoices /\ i \in Converted' /\ Converted \subseteq Converted'
           /\ \A j \in Converted : invoices[j].review => invoices'[j].review
           /\ posted' = [posted EXCEPT ![t] = i] /\ posted[t] \in {NoInvoice, i}
           /\ receipts'[t].state \in {"applied", "applied_review"} /\ receipts'[t].invoice = i
           /\ \A u \in Transactions \ {t} : receipts'[u] = receipts[u]
           /\ UNCHANGED sessions /\ Done(r)
           /\ \/ Unresolved(a) /\ attempts[a].status = "pending"
              \/ Extra(a, t) /\ collections[a].closed /\ collections[a].state = "paid"
           /\ collections[a] \in Collection
<1>1. Reconcilable(r) /\ ~Rejected(a, t) /\ ~Settled(Received(t)) /\ ~Duplicate(a, t)
  BY DEF ApplyPayment
<1>2. /\ t \in Transactions /\ RefOf(t[1]) = a /\ Charged(t) /\ a \in Attempts
      /\ TypeOK /\ HandlersKnow /\ Records /\ RowsAgree
  BY <1>1, EvidenceFacts
<1>3. /\ i \in Invoices /\ i \in Converted' /\ Converted \subseteq Converted'
      /\ \A j \in Converted : invoices[j].review => invoices'[j].review
  BY <1>2, ApplyInvoice
<1>4. /\ posted' = [posted EXCEPT ![t] = i] /\ posted[t] \in {NoInvoice, i}
      /\ UNCHANGED sessions /\ Done(r)
  BY <1>1 DEF ApplyPayment, Rejected
<1>5. /\ receipts'[t].state \in {"applied", "applied_review"} /\ receipts'[t].invoice = i
      /\ \A u \in Transactions \ {t} : receipts'[u] = receipts[u]
  BY <1>2 DEF ApplyPayment, TypeOK
<1>6. /\ RowAgrees(a) /\ collections[a] \in Collection
      /\ \/ Unresolved(a) /\ attempts[a].status = "pending"
         \/ Extra(a, t) /\ collections[a].closed /\ collections[a].state = "paid"
  <2>1. /\ RowAgrees(a) /\ attempts[a].status \in {"pending", "paid"}
        /\ attempts[a].status = "pending" <=> Unresolved(a)
        /\ attempts[a].status = "paid" => collections[a].closed /\ collections[a].state = "paid"
    BY <1>2, ChargedRow
  <2>2. collections[a] \in Collection
    BY <1>2, RowFacts
  <2> QED
    BY <1>1, <2>1, <2>2 DEF Duplicate, Extra, AlreadyPaid
<1> QED
  BY <1>2, <1>3, <1>4, <1>5, <1>6

Finished(c, d) ==
    /\ d.state = "paid" /\ d.closed /\ d.holder = None
    /\ d.account = c.account /\ d.submitted = c.submitted

(* The row it settles, and the others.                                       *)
LEMMA ApplyRows ==
    ASSUME Reservations, Certain, NEW r \in Requests, ApplyPayment(r),
           NEW a, a = requests[r].ref
    PROVE  /\ Finished(collections[a], collections'[a])
           /\ \A b \in Attempts \ {a} : Carried(collections[b], collections'[b])
<1>1. TypeOK /\ RowsAgree /\ a \in Attempts
  BY ApplyFacts DEF Records
<1>2. PICK S : collections' = [Stale(collections, S) EXCEPT ![a] = Finish(@)]
  BY DEF ApplyPayment
<1>3. \A b \in Attempts : /\ Stale(collections, S)[b] \in Collection
                          /\ Carried(collections[b], Stale(collections, S)[b])
  <2> SUFFICES ASSUME NEW b \in Attempts
               PROVE  /\ Stale(collections, S)[b] \in Collection
                      /\ Carried(collections[b], Stale(collections, S)[b])
    OBVIOUS
  <2>1. collections[b] \in Collection /\ (collections[b].closed => collections[b].holder = None)
    BY <1>1, RowFacts
  <2>2. Stale(collections, S)[b] \in {collections[b], [collections[b] EXCEPT !.fresh = FALSE]}
    BY DEF Stale
  <2>3. PICK c \in Collection : c = collections[b] /\ (c.closed => c.holder = None)
    BY <2>1
  <2>4. c \in Collection /\ Carried(c, c)
    BY <2>3 DEF Carried, Moved
  <2>5. [c EXCEPT !.fresh = FALSE] \in Collection /\ Carried(c, [c EXCEPT !.fresh = FALSE])
    BY <2>3 DEF Carried, Moved, Collection
  <2> QED
    BY <2>2, <2>3, <2>4, <2>5
<1>4. /\ collections'[a] = Finish(Stale(collections, S)[a])
      /\ \A b \in Attempts \ {a} : collections'[b] = Stale(collections, S)[b]
  BY <1>1, <1>2 DEF Stale
<1>5. Finished(collections[a], collections'[a])
  <2>1. PICK c : c = Stale(collections, S)[a]
    OBVIOUS
  <2>2. /\ c \in Collection /\ c.submitted = collections[a].submitted
        /\ collections'[a] = Finish(c)
    BY <1>1, <1>3, <1>4, <2>1 DEF Carried
  <2>3. c.account = collections[a].account
    BY <1>1, <2>1 DEF Stale, TypeOK, Collection
  <2> QED
    BY <2>2, <2>3 DEF Finished, Finish, Collection
<1> QED
  BY <1>3, <1>4, <1>5

(* Both leave the creates that are out alone.                                *)
LEMMA ApplyHandlers ==
    ASSUME Reservations, Certain, NEW r \in Requests, ApplyPayment(r)
    PROVE  Undisturbed({r}) /\ HandlersTrue' /\ OneCreate'
<1>1. PICK a : a = requests[r].ref
  OBVIOUS
<1>2. TypeOK /\ HandlersKnow /\ UNCHANGED sessions /\ Done(r)
  BY <1>1, ApplyFacts
<1>3. /\ Finished(collections[a], collections'[a])
      /\ \A b \in Attempts \ {a} : Carried(collections[b], collections'[b])
  BY <1>1, ApplyRows
<1>4. ASSUME NEW p \in Requests, Creating(requests[p])
      PROVE  /\ collections'[requests[p].ref].submitted = collections[requests[p].ref].submitted
             /\ collections'[requests[p].ref].account = collections[requests[p].ref].account
  <2>1. requests[p].ref \in Attempts /\ collections[requests[p].ref].account # None
    BY <1>4, HandlerFacts DEF CreateTrue, Creating
  <2> QED
    BY <1>3, <2>1 DEF Finished, Carried, Moved
<1>5. Undisturbed({r})
  BY <1>2, <1>4 DEF Undisturbed, Forward
<1>6. HandlersTrue' /\ OneCreate'
  BY <1>2, <1>5, HandlerEnds DEF Certain
<1> QED
  BY <1>5, <1>6

Booking(a, t) ==
    /\ t \in Transactions /\ RefOf(t[1]) = a /\ Charged(t)
    /\ Fate(a) = "reserved" /\ Fate(a)' = "paid" /\ FatesSame({a}) /\ ChargesSame
    /\ \A u \in Transactions : RefOf(u[1]) = a => posted[u] = NoInvoice
    /\ \A u \in Transactions : posted'[u] # NoInvoice <=> (posted[u] # NoInvoice \/ u = t)

(* What both ways of applying a payment leave true.                          *)
LEMMA ApplySteady ==
    ASSUME Reservations, Certain, NEW r \in Requests, ApplyPayment(r),
           NEW a, a = requests[r].ref, NEW t, t = Txn(r),
           RowAgrees(a)', \A b \in Attempts \ {a} : RowCalm(b),
           attempts'[a].status = "paid",
           attempts[a].status = "paid" => attempts'[a] = attempts[a],
           Unresolved(a) => attempts'[a].txn = t
    PROVE  Steady /\ ChargesSame
<1>1. PICK i : i = InvoiceFor(a)
  OBVIOUS
<1>2. /\ t \in Transactions /\ RefOf(t[1]) = a /\ Charged(t) /\ a \in Attempts
      /\ TypeOK /\ Records /\ RowsAgree
      /\ i \in Invoices /\ i \in Converted' /\ Converted \subseteq Converted'
      /\ \A j \in Converted : invoices[j].review => invoices'[j].review
      /\ receipts'[t].state \in {"applied", "applied_review"} /\ receipts'[t].invoice = i
      /\ \A u \in Transactions \ {t} : receipts'[u] = receipts[u]
      /\ UNCHANGED sessions
  BY <1>1, ApplyFacts
<1>3. \A u \in Transactions : /\ posted'[u] = IF u = t THEN i ELSE posted[u]
                              /\ posted[u] # NoInvoice => posted'[u] = posted[u]
  <2>1. posted' = [posted EXCEPT ![t] = i] /\ posted[t] \in {NoInvoice, i}
    BY <1>1, ApplyFacts
  <2> QED
    BY <1>2, <2>1 DEF TypeOK
<1>4. Forward /\ BooksKept
  <2>1. \A u \in Transactions : receipts[u].state # "none" => receipts'[u].state # "none"
    BY <1>2
  <2> QED
    BY <1>2, <1>3, <2>1 DEF Forward, BooksKept
<1>5. RowsAgree'
  <2>1. \A b \in Attempts \ {a} : RowAgrees(b)'
    BY <1>2, <1>4, RowKeeps DEF RowsAgree
  <2> QED
    BY <2>1 DEF RowsAgree
<1>6. /\ Finished(collections[a], collections'[a])
      /\ \A b \in Attempts \ {a} : Carried(collections[b], collections'[b])
  BY ApplyRows
<1>7. ClosedKept
  <2>1. collections[a].closed => collections[a].state = "paid"
    BY <1>2, ChargedRow DEF Unresolved, RowAgrees, RowsAgree
  <2> QED
    BY <1>6, <2>1 DEF ClosedKept, Finished, Carried, Moved
<1>8. ReceiptsTrue'
  <2>1. \A b \in Attempts : attempts[b].status = "paid" => attempts'[b].status = "paid"
    BY DEF RowCalm
  <2>2. ASSUME NEW u \in Transactions \ {t} PROVE ReceiptTrue(u)'
    <3>1. ReceiptTrue(u) /\ RefOf(u[1]) \in Attempts
      BY <1>2, Shapes DEF Records, ReceiptsTrue
    <3>2. receipts'[u] = receipts[u] /\ posted'[u] = posted[u]
      BY <1>2, <1>3
    <3> QED
      BY <1>4, <2>1, <3>1, <3>2, ReceiptKeeps
  <2>3. ReceiptTrue(t)'
    <3>1. Charged(t)' /\ i # NoInvoice
      BY <1>2 DEF Charged, Invoices
    <3> QED
      BY <1>2, <3>1 DEF ReceiptTrue
  <2> QED
    BY <2>2, <2>3 DEF ReceiptsTrue
<1>9. HeldEvidence'
  <2>1. HeldTrue(t)'
    BY <1>2 DEF HeldTrue
  <2>2. ASSUME NEW u \in Transactions \ {t} PROVE HeldTrue(u)'
    <3>1. /\ HeldTrue(u) /\ ReceiptTrue(u) /\ RefOf(u[1]) \in Attempts
          /\ receipts'[u] = receipts[u]
      BY <1>2, HeldParts, Shapes DEF Records, ReceiptsTrue
    <3>2. Extra(RefOf(u[1]), u) => Extra(RefOf(u[1]), u)'
      BY <3>1 DEF Extra, AlreadyPaid, RowCalm
    <3>3. Unresolved(RefOf(u[1])) => Unresolved(RefOf(u[1]))' \/ Extra(RefOf(u[1]), u)'
      BY <3>1 DEF Extra, AlreadyPaid, RowCalm, Unresolved, Moved
    <3>4. receipts[u].invoice # NoInvoice /\ invoices[receipts[u].invoice].review
            => invoices'[receipts[u].invoice].review
      BY <1>2, <3>1 DEF ReceiptTrue
    <3> QED
      BY <3>1, <3>2, <3>3, <3>4, HeldKeeps
  <2> QED
    BY <2>1, <2>2 DEF HeldEvidence, HeldTrue
<1>10. SessionsTraced' /\ ProviderKind' /\ ChargesSame
  <2>1. \A s \in Sessions : RefOf(s) \in Attempts /\ AccountOf(s) # None
    BY SessionParts
  <2>2. SessionsTraced'
    BY <1>2, <1>6, <2>1 DEF Records, SessionsTraced, Finished, Carried, Moved
  <2> QED
    BY <1>2, <2>2 DEF Records, ProviderKind, ChargesSame, Charged
<1> QED
  BY <1>5, <1>7, <1>8, <1>9, <1>10, ApplyHandlers DEF Steady, Certain, Records

(* Applying a payment closes its checkout; for Stripe it is the first booking.  *)
LEMMA PaysSteady ==
    ASSUME Reservations, Certain, NEW r \in Requests, ApplyPayment(r)
    PROVE  Steady /\ (~Stripe \/ \E a \in Attempts, t \in Transactions : Booking(a, t))
<1>1. PICK a, t, i : a = requests[r].ref /\ t = Txn(r) /\ i = InvoiceFor(a)
  OBVIOUS
<1>2. /\ t \in Transactions /\ RefOf(t[1]) = a /\ Charged(t) /\ a \in Attempts
      /\ TypeOK /\ Records /\ RowsAgree /\ RowAgrees(a)
      /\ i \in Invoices /\ i \in Converted' /\ Converted \subseteq Converted'
      /\ posted' = [posted EXCEPT ![t] = i] /\ posted[t] \in {NoInvoice, i}
      /\ receipts'[t].state \in {"applied", "applied_review"}
      /\ \A u \in Transactions \ {t} : receipts'[u] = receipts[u]
      /\ UNCHANGED sessions
      /\ \/ Unresolved(a) /\ attempts[a].status = "pending"
         \/ Extra(a, t) /\ collections[a].closed /\ collections[a].state = "paid"
      /\ collections[a] \in Collection
  BY <1>1, ApplyFacts
<1>3. /\ Finished(collections[a], collections'[a])
      /\ \A b \in Attempts \ {a} : Carried(collections[b], collections'[b])
  BY <1>1, ApplyRows
<1>4. \A u \in Transactions : posted'[u] = IF u = t THEN i ELSE posted[u]
  BY <1>2 DEF TypeOK
<1>5. i # NoInvoice /\ Charged(t)'
  BY <1>2 DEF Invoices, Charged
<1>6. CASE Extra(a, t)
  <2>1. attempts' = attempts /\ attempts[a].status = "paid"
    BY <1>1, <1>6 DEF ApplyPayment, Extra, AlreadyPaid
  <2>2. \A b \in Attempts \ {a} : RowCalm(b)
    BY <1>2, <1>3, <2>1, RowRests
  <2>3. RowCalm(a)
    BY <1>2, <1>3, <2>1, ChargedRow DEF RowCalm, Finished, Moved
  <2>4. Forward /\ BooksKept
    <3>1. \A u \in Transactions : receipts[u].state # "none" => receipts'[u].state # "none"
      BY <1>2
    <3> QED
      BY <1>2, <1>4, <3>1 DEF Forward, BooksKept
  <2>5. RowAgrees(a)'
    BY <1>2, <2>3, <2>4, RowKeeps
  <2>6. ~Unresolved(a)
    BY <1>2, <2>1, ChargedRow
  <2>7. Steady
    BY <1>1, <2>1, <2>2, <2>5, <2>6, ApplySteady
  <2>8. ~Stripe
    <3> SUFFICES ASSUME Stripe PROVE FALSE
      OBVIOUS
    <3>1. PICK u \in Transactions : u = attempts[a].txn /\ RefOf(u[1]) = a /\ Charged(u) /\ u # t
      BY <1>2, <1>6, <2>1 DEF RowAgrees, Extra
    <3>2. u[1] = t[1]
      BY <1>2, <3>1, ChargedFacts, OneOfRef DEF Records
    <3> QED
      BY <1>2, <3>1, <3>2 DEF Transactions, Captures
  <2> QED
    BY <2>7, <2>8
<1>7. CASE Unresolved(a) /\ attempts[a].status = "pending"
  <2>1. PICK s : /\ attempts' = [attempts EXCEPT ![a] =
                       [attempts[a] EXCEPT !.status = "paid", !.txn = t, !.invoice = i, !.session = s]]
                 /\ s \in {t[1], None}
    BY <1>1, <1>7 DEF ApplyPayment, Extra, AlreadyPaid
  <2>2. /\ attempts'[a].status = "paid" /\ attempts'[a].txn = t /\ attempts'[a].invoice = i
        /\ attempts'[a].session \in {t[1], None}
        /\ \A b \in Attempts \ {a} : attempts'[b] = attempts[b]
    BY <1>2, <2>1 DEF TypeOK, Attempt
  <2>3. \A b \in Attempts \ {a} : RowCalm(b)
    BY <1>2, <1>3, <2>2, RowRests
  <2>4. RowAgrees(a)'
    <3>1. sessions'[t[1]] # "none"
      BY <1>2, ChargedFacts
    <3> QED
      BY <1>2, <1>3, <1>4, <1>5, <2>2, <3>1 DEF RowAgrees, Finished
  <2>5. Steady /\ ChargesSame
    BY <1>1, <1>7, <2>2, <2>3, <2>4, ApplySteady
  <2>6. /\ Fate(a) = "reserved" /\ Fate(a)' = "paid" /\ FatesSame({a})
    BY <1>3, <1>7, <2>2, <2>3 DEF Fate, Unresolved, FatesSame, Finished, RowCalm, Moved
  <2>7. \A u \in Transactions : RefOf(u[1]) = a => posted[u] = NoInvoice
    BY <1>2, <1>7 DEF Records, ReceiptsTrue, ReceiptTrue
  <2>8. Booking(a, t)
    BY <1>2, <1>4, <1>5, <2>5, <2>6, <2>7 DEF Booking
  <2> QED
    BY <1>2, <2>5, <2>8
<1> QED
  BY <1>2, <1>6, <1>7

-----------------------------------------------------------------------------
(* Every step keeps what is certain, and is quiet or one of the promise's.   *)
Promised ==
    \/ Quiet \/ \E a \in Attempts : Reserving(a) \/ Expiring(a)
    \/ \E s \in Sessions : Charging(s)
    \/ \E a \in Attempts, t \in Transactions : Booking(a, t)

(* No step breaks what is certain, and each is quiet or one of the promise's.  *)
LEMMA StepSteady ==
    ASSUME Reservations, Certain, [Next]_vars
    PROVE  Steady /\ (Stripe => Promised)
<1>1. ASSUME NEW r \in Requests, RequestStep(r) PROVE Steady /\ (Stripe => Promised)
  <2>1. CASE \/ CallFails(r) \/ AccountRefused(r) \/ ResumeRefused(r) \/ ReopenForm(r)
             \/ SubmitRetrieve(r) \/ AnswerRefused(r) \/ SubmitExpire(r) \/ EvidenceRefused(r)
    BY <2>1, ClaimedSteady DEF Promised
  <2>2. CASE SubmitCreate(r)
    BY <2>2, SubmitSteady DEF Promised
  <2>3. CASE AcceptAnswer(r)
    BY <2>3, AcceptSteady DEF Promised
  <2>4. CASE HoldReceipt(r)
    BY <2>4, HoldSteady DEF Promised
  <2>5. CASE RepeatedEvidence(r)
    BY <2>5, RepeatSteady DEF Promised
  <2>6. CASE ApplyPayment(r)
    BY <2>6, PaysSteady DEF Promised
  <2> QED
    BY <1>1, <2>1, <2>2, <2>3, <2>4, <2>5, <2>6 DEF RequestStep
<1>2. ASSUME NEW r \in Requests, ProviderStep(r) PROVE Steady /\ (Stripe => Promised)
  BY <1>2, ReadsSteady, ExpiresSteady, CreatesSteady DEF ProviderStep, Promised
<1>3. ASSUME NEW r \in Requests, Open(r) PROVE Steady /\ (Stripe => Promised)
  BY <1>3, OpenSteady DEF Promised
<1>4. CASE Crash \/ \E r \in Requests : CrashAfterReceipt(r)
  BY <1>4, CrashSteady DEF Promised
<1>5. CASE ShopStep
  BY <1>5, ShopSteady DEF Promised
<1>6. CASE World
  <2>1. ASSUME NEW s \in Sessions,
               \/ CustomerPays(s) \/ CustomerPaysLater(s) \/ PaymentSettles(s)
               \/ PaymentFails(s) \/ SessionExpires(s) \/ FormCapturedAgain(s)
        PROVE  Steady /\ (Stripe => Promised)
    BY <2>1, ProvidesSteady DEF Promised
  <2>2. ASSUME NEW a \in Attempts, WaitEnds(a) \/ ReplayWindowEnds(a)
        PROVE  Steady /\ (Stripe => Promised)
    BY <2>2, ClockSteady DEF Promised
  <2> QED
    BY <1>6, <2>1, <2>2 DEF World
<1>7. CASE UNCHANGED vars
  <2>1. TypeOK /\ HandlersKnow /\ Records /\ RowsAgree
    BY DEF Reservations, Certain, Records
  <2>2. AllCarried /\ UNCHANGED <<requests, sessions, attempts, posted, invoices, receipts>>
    BY <1>7, <2>1, SameCarries DEF vars
  <2>3. Calm
    BY <2>1, <2>2, CarriedCalm, InvoicesSame
  <2> QED
    BY <2>2, <2>3, CalmRest DEF Promised
<1> QED
  BY <1>1, <1>2, <1>3, <1>4, <1>5, <1>6, <1>7 DEF Next

(* Before any checkout nothing is claimed to be known.                       *)
LEMMA InitCertain == Init => Certain
<1> SUFFICES ASSUME Init PROVE Certain
  OBVIOUS
<1>1. SessionsTraced /\ ProviderKind
  BY DEF Init, SessionsTraced, ProviderKind
<1>2. RowsAgree
  BY DEF Init, RowsAgree, RowAgrees
<1>3. ReceiptsTrue /\ HeldEvidence
  BY DEF Init, ReceiptsTrue, ReceiptTrue, HeldEvidence, Settled
<1>4. HandlersTrue /\ OneCreate
  BY IdleTrue DEF Init, HandlersTrue, OneCreate
<1> QED
  BY <1>1, <1>2, <1>3, <1>4 DEF Certain, Records

(* IInv holds initially and every step keeps it.                             *)
LEMMA IInvInductive ==
    /\ Init => IInv
    /\ IInv /\ [Next]_vars => IInv'
  BY InitCertain, ReservationsInductive, StepSteady DEF IInv, Steady

(* IInv holds in every reachable state.                                      *)
LEMMA Invariant == Spec => []IInv
  BY IInvInductive, PTL DEF Spec

(***************************************************************************)
(* A settled checkout is never reopened or relabelled, for every number of *)
(* handlers, attempts, accounts and invoices: the claim's token guards     *)
(* every write that is not the settlement itself (release,                 *)
(* finishCollection).                                                      *)
(***************************************************************************)
THEOREM ClosedStaysHolds == Spec => ClosedStays
<1>1. IInv /\ [Next]_vars =>
        [\A a \in Attempts :
            collections[a].closed =>
                collections'[a].closed /\ collections'[a].state = collections[a].state]_vars
  BY StepSteady DEF IInv, Steady, ClosedKept
<1> QED
  BY <1>1, Invariant, PTL DEF Spec, ClosedStays

(***************************************************************************)
(* A checkout never has two sessions at the provider, whatever answers are *)
(* lost and whichever accounts are connected: the account is bound before  *)
(* the create leaves, and a create is repeated only under its key          *)
(* (bindAccount, submitted_at).                                            *)
(***************************************************************************)
THEOREM OneSessionHolds == Spec => []OneSession
<1>1. IInv => OneSession
  BY OneOfRef DEF IInv, Certain, Records, OneSession
<1> QED
  BY <1>1, Invariant, PTL

(***************************************************************************)
(* A checkout closed as expired can never be charged any more, and one     *)
(* closed as paid has its payment on its invoice (checkCollection,         *)
(* finishCollection).                                                      *)
(***************************************************************************)
THEOREM ClosedIsCertainHolds == Spec => []ClosedIsCertain
<1>1. IInv => ClosedIsCertain
  <2> SUFFICES ASSUME IInv, NEW a \in Attempts, collections[a].closed
               PROVE  \/ /\ collections[a].state = "expired" /\ attempts[a].status = "expired"
                         /\ \A s \in Sessions : RefOf(s) = a => sessions[s] \in {"none", "expired"}
                      \/ /\ collections[a].state = "paid" /\ attempts[a].status = "paid"
                         /\ posted[attempts[a].txn] = attempts[a].invoice
    BY DEF ClosedIsCertain
  <2>1. SessionsTraced /\ RowAgrees(a)
    BY DEF IInv, Certain, Records, RowsAgree
  <2>2. attempts[a].status = "expired" =>
          \A s \in Sessions : RefOf(s) = a => sessions[s] \in {"none", "expired"}
    BY <2>1, OneOfRef DEF RowAgrees
  <2> QED
    BY <2>1, <2>2 DEF RowAgrees
<1> QED
  BY <1>1, Invariant, PTL

(***************************************************************************)
(* Evidence that was not applied always has something that pauses          *)
(* collection: its checkout is reserved or its invoice is under review,    *)
(* through crashes between receipt and payment (holdCollectionReceipt,     *)
(* clear review).                                                          *)
(***************************************************************************)
THEOREM HeldEvidenceHolds == Spec => []HeldEvidence
<1>1. IInv => HeldEvidence
  BY DEF IInv, Certain, Records
<1> QED
  BY <1>1, Invariant, PTL

-----------------------------------------------------------------------------
(* The promise                                                               *)

(* A Stripe checkout is charged at most once.                                *)
LEMMA OneCharge ==
    ASSUME Stripe, Records, NEW t \in Transactions, NEW u \in Transactions,
           RefOf(t[1]) = RefOf(u[1]), Charged(t), Charged(u)
    PROVE  t = u
<1>1. t[1] = u[1]
  BY ChargedFacts, OneOfRef DEF Records
<1> QED
  BY <1>1 DEF Transactions, Captures

ChargedOf(a) == {t \in Transactions : RefOf(t[1]) = a /\ Charged(t)}
BookedOf(a) == {t \in Transactions : RefOf(t[1]) = a /\ posted[t] # NoInvoice}

(* What is counted the same is as many.                                      *)
LEMMA CountsSame ==
    /\ ChargesSame => \A a \in Attempts : ChargesOf(a)' = ChargesOf(a)
    /\ BookingsSame => \A a \in Attempts : BookingsOf(a)' = BookingsOf(a)
<1>1. ASSUME ChargesSame, NEW a \in Attempts PROVE ChargesOf(a)' = ChargesOf(a)
  <2>1. ChargedOf(a)' = ChargedOf(a)
    BY <1>1 DEF ChargesSame, ChargedOf
  <2> QED
    BY <2>1 DEF ChargesOf, ChargedOf
<1>2. ASSUME BookingsSame, NEW a \in Attempts PROVE BookingsOf(a)' = BookingsOf(a)
  <2>1. BookedOf(a)' = BookedOf(a)
    BY <1>2 DEF BookingsSame, BookedOf
  <2> QED
    BY <2>1 DEF BookingsOf, BookedOf
<1> QED
  BY <1>1, <1>2

(* A quiet step is a stutter of the promise.                                 *)
LEMMA QuietPromise ==
    ASSUME Quiet
    PROVE  [Promise!Next]_(Promise!money)
<1>1. \A a \in Attempts : Fate(a)' = Fate(a)
  BY DEF Quiet, FatesSame
<1>2. \A a \in Attempts : ChargesOf(a)' = ChargesOf(a) /\ BookingsOf(a)' = BookingsOf(a)
  BY CountsSame DEF Quiet
<1> QED
  BY <1>1, <1>2 DEF Promise!money

(* A reservation is the promise's.                                           *)
LEMMA ReservePromise ==
    ASSUME NEW a \in Attempts, Reserving(a)
    PROVE  Promise!Next
<1>1. \A b \in Attempts \ {a} : Fate(b)' = Fate(b)
  BY DEF Reserving, FatesSame
<1>2. \A b \in Attempts : ChargesOf(b)' = ChargesOf(b) /\ BookingsOf(b)' = BookingsOf(b)
  BY CountsSame DEF Reserving
<1>3. Promise!Reserve(a)
  BY <1>1, <1>2 DEF Promise!Reserve, Reserving
<1> QED
  BY <1>3 DEF Promise!Next

(* An expiry is the promise's: nothing was charged.                          *)
LEMMA ExpirePromise ==
    ASSUME NEW a \in Attempts, Expiring(a)
    PROVE  Promise!Next
<1>1. \A b \in Attempts \ {a} : Fate(b)' = Fate(b)
  BY DEF Expiring, FatesSame
<1>2. \A b \in Attempts : ChargesOf(b)' = ChargesOf(b) /\ BookingsOf(b)' = BookingsOf(b)
  BY CountsSame DEF Expiring
<1>3. ChargesOf(a) = 0
  <2>1. ChargedOf(a) = {}
    BY DEF Expiring, ChargedOf
  <2> QED
    BY <2>1, FS_EmptySet DEF ChargesOf, ChargedOf
<1>4. Promise!Expire(a)
  BY <1>1, <1>2, <1>3 DEF Promise!Expire, Expiring
<1> QED
  BY <1>4 DEF Promise!Next

(* A charge is the promise's: it is the checkout's first.                    *)
LEMMA ChargePromise ==
    ASSUME Stripe, Records, NEW s \in Sessions, Charging(s)
    PROVE  Promise!Next
<1>1. PICK a \in Attempts : a = RefOf(s)
  BY Shapes
<1>2. \A b \in Attempts : Fate(b)' = Fate(b) /\ BookingsOf(b)' = BookingsOf(b)
  BY CountsSame DEF Charging, FatesSame
<1>3. \A b \in Attempts \ {a} : ChargesOf(b)' = ChargesOf(b)
  <2> SUFFICES ASSUME NEW b \in Attempts \ {a} PROVE ChargesOf(b)' = ChargesOf(b)
    OBVIOUS
  <2>1. ChargedOf(b)' = ChargedOf(b)
    BY <1>1 DEF ChargedOf, Charging
  <2> QED
    BY <2>1 DEF ChargesOf, ChargedOf
<1>0. \A t \in Transactions : RefOf(t[1]) = a => ~Charged(t)
  <2> SUFFICES ASSUME NEW t \in Transactions, RefOf(t[1]) = a, Charged(t) PROVE FALSE
    OBVIOUS
  <2>1. t[1] = s
    BY <1>1, ChargedFacts, OneOfRef DEF Records, Charging
  <2> QED
    BY <2>1, ChargedFacts DEF Charging
<1>4. ChargesOf(a) = 0
  <2>1. ChargedOf(a) = {}
    BY <1>0 DEF ChargedOf
  <2> QED
    BY <2>1, FS_EmptySet DEF ChargesOf, ChargedOf
<1>5. ChargesOf(a)' = 1
  <2>1. ChargedOf(a)' = {<<s, 1>>}
    <3>1. <<s, 1>> \in Transactions /\ RefOf(<<s, 1>>[1]) = a
      BY <1>1, Shapes
    <3>2. \A t \in Transactions : t[1] = s => t = <<s, 1>>
      BY DEF Transactions, Captures
    <3>3. \A t \in Transactions : RefOf(t[1]) = a => (Charged(t)' <=> t[1] = s)
      BY <1>0 DEF Charging
    <3> QED
      BY <3>1, <3>2, <3>3 DEF ChargedOf
  <2> QED
    BY <2>1, FS_Singleton DEF ChargesOf, ChargedOf
<1>6. Promise!Charge(a)
  BY <1>1, <1>2, <1>3, <1>4, <1>5 DEF Promise!Charge, Charging
<1> QED
  BY <1>6 DEF Promise!Next

(* A booking is the promise's: one charge, not booked before.                *)
LEMMA BookPromise ==
    ASSUME Stripe, Records, NEW a \in Attempts, NEW t \in Transactions, Booking(a, t)
    PROVE  Promise!Next
<1>1. \A b \in Attempts \ {a} : Fate(b)' = Fate(b)
  BY DEF Booking, FatesSame
<1>2. \A b \in Attempts : ChargesOf(b)' = ChargesOf(b)
  BY CountsSame DEF Booking
<1>3. \A b \in Attempts \ {a} : BookingsOf(b)' = BookingsOf(b)
  <2> SUFFICES ASSUME NEW b \in Attempts \ {a} PROVE BookingsOf(b)' = BookingsOf(b)
    OBVIOUS
  <2>1. BookedOf(b)' = BookedOf(b)
    BY DEF BookedOf, Booking
  <2> QED
    BY <2>1 DEF BookingsOf, BookedOf
<1>4. ChargesOf(a) = 1
  <2>1. ChargedOf(a) = {t}
    BY OneCharge DEF ChargedOf, Booking
  <2> QED
    BY <2>1, FS_Singleton DEF ChargesOf, ChargedOf
<1>5. BookingsOf(a)' = 1
  <2>1. BookedOf(a)' = {t}
    BY DEF BookedOf, Booking
  <2> QED
    BY <2>1, FS_Singleton DEF BookingsOf, BookedOf
<1>6. Promise!Book(a)
  BY <1>1, <1>2, <1>3, <1>4, <1>5 DEF Promise!Book, Booking
<1> QED
  BY <1>6 DEF Promise!Next

(* The order before any checkout is the promise's initial state.             *)
LEMMA InitPromise == Init => Promise!Init
<1> SUFFICES ASSUME Init PROVE Promise!Init
  OBVIOUS
<1>1. \A a \in Attempts : Fate(a) = "unused" /\ ChargedOf(a) = {} /\ BookedOf(a) = {}
  BY Shapes DEF Init, Fate, Unresolved, ChargedOf, BookedOf, Charged, Paid
<1>2. \A a \in Attempts : ChargesOf(a) = 0 /\ BookingsOf(a) = 0
  BY <1>1, FS_EmptySet DEF ChargesOf, BookingsOf, ChargedOf, BookedOf
<1> QED
  BY <1>1, <1>2 DEF Promise!Init

(***************************************************************************)
(* Collection through Stripe implements OrderMoney: a customer is charged  *)
(* at most once per checkout, only while it is reserved, and the money is  *)
(* booked once, in the step that closes it.                                *)
(***************************************************************************)
THEOREM StripeKeepsPromise == Provider = "stripe" => (Spec => KeepsPromise)
<1> SUFFICES ASSUME Provider = "stripe" PROVE Spec => KeepsPromise
  OBVIOUS
<1>1. IInv /\ [Next]_vars => [Promise!Next]_(Promise!money)
  <2> SUFFICES ASSUME Stripe, Reservations, Certain, [Next]_vars
               PROVE  [Promise!Next]_(Promise!money)
    BY DEF IInv, Stripe
  <2>1. Promised /\ Records
    BY StepSteady DEF Certain
  <2> QED
    BY <2>1, QuietPromise, ReservePromise, ExpirePromise, ChargePromise, BookPromise DEF Promised
<1> QED
  BY <1>1, InitPromise, Invariant, PTL DEF Spec, KeepsPromise, Promise!Spec

-----------------------------------------------------------------------------
(***************************************************************************)
(* Overpayments.  The receipt that overpaid an invoice is marked, or was   *)
(* reviewed.                                                               *)
(***************************************************************************)
Over(i) == invoices[i].paid > (IF Live(i) THEN invoices[i].base ELSE 0)

OverSeen(i) ==
    \E t \in Transactions :
        /\ receipts[t].invoice = i
        /\ receipts[t].state = "reviewed" \/ (receipts[t].state = "applied_review" /\ invoices[i].review)

OverReviewed == \A i \in Invoices : Over(i) => OverSeen(i)

(* A receipt that is marked stays so.                                        *)
MarksKept ==
    \A t \in Transactions :
        receipts[t].state \in {"applied_review", "reviewed"} => receipts'[t] = receipts[t]

(* An invoice is overpaid only by a receipt that is marked, and what marks   *)
(* one is kept.                                                              *)
LEMMA OverStep ==
    ASSUME OverReviewed, MarksKept,
           \A i \in Invoices : Over(i)' =>
               OverSeen(i)' \/ (Over(i) /\ (invoices[i].review => invoices'[i].review))
    PROVE  OverReviewed'
<1> SUFFICES ASSUME NEW i \in Invoices, Over(i)', ~OverSeen(i)' PROVE FALSE
  BY DEF OverReviewed
<1>1. OverSeen(i) /\ (invoices[i].review => invoices'[i].review)
  BY DEF OverReviewed
<1> QED
  BY <1>1 DEF OverSeen, MarksKept

(* Invoices and marked receipts are not touched.                             *)
LEMMA OverRests ==
    ASSUME OverReviewed, MarksKept,
           \A i \in Invoices : /\ invoices'[i].paid = invoices[i].paid
                               /\ invoices'[i].base = invoices[i].base
                               /\ invoices'[i].status = invoices[i].status
                               /\ invoices[i].review => invoices'[i].review
    PROVE  OverReviewed'
<1>1. \A i \in Invoices : Over(i)' => Over(i)
  BY DEF Over, Live
<1> QED
  BY <1>1, OverStep

(* What the shop's edits of an invoice do to an overpayment.                 *)
LEMMA ShopOver ==
    ASSUME TypeOK, OverReviewed, ShopStep
    PROVE  OverReviewed'
<1>0. \A i \in Invoices :
        /\ invoices[i] \in Invoice /\ invoices[i].paid \in Int /\ invoices[i].base \in Nat
        /\ invoices[i].credit \in Nat
  BY DEF TypeOK, Invoice
<1>1. CASE ReviseEstimate \/ ChangeSettings \/ \E i \in Invoices : EditInvoice(i)
  <2>1. UNCHANGED <<invoices, receipts>>
    BY <1>1 DEF ReviseEstimate, ChangeSettings, EditInvoice
  <2> QED
    BY <2>1, OverRests DEF MarksKept
<1>2. ASSUME NEW i \in Invoices, Convert(i) PROVE OverReviewed'
  <2>1. /\ invoices'[i] = NewInvoice(estimate.total) /\ UNCHANGED receipts
        /\ \A j \in Invoices \ {i} : invoices'[j] = invoices[j]
    BY <1>2 DEF Convert, TypeOK
  <2>2. ~Over(i)'
    <3>1. estimate.total \in Totals
      BY DEF TypeOK, Estimate
    <3> QED
      BY <2>1, <3>1 DEF Over, Live, NewInvoice
  <2>3. \A j \in Invoices \ {i} : Over(j)' => Over(j) /\ (invoices[j].review => invoices'[j].review)
    BY <2>1 DEF Over, Live
  <2> QED
    BY <2>1, <2>2, <2>3, OverStep DEF MarksKept
<1>3. ASSUME NEW i \in Invoices,
             \/ Void(i) \/ AddCredit(i) \/ CancelCredit(i) \/ ManualPayment(i) \/ DeletePayment(i)
      PROVE  OverReviewed'
  <2>1. /\ \A j \in Invoices : invoices[j].review => invoices'[j].review
        /\ UNCHANGED receipts
    BY <1>3, ChangeKeepsReview
  <2>2. PICK row : row = invoices[i]
    OBVIOUS
  <2>3. row \in Invoice /\ row.paid \in Int /\ row.base \in Nat /\ row.credit \in Nat
    BY <1>0, <2>2
  <2>4. \A j \in Invoices \ {i} : invoices'[j] = invoices[j]
    BY <1>3 DEF Void, AddCredit, CancelCredit, ManualPayment, DeletePayment, ChangeInvoice, TypeOK
  <2>5. Over(i)' => Over(i)
    <3>1. CASE Void(i)
      <4>1. invoices'[i] = [row EXCEPT !.status = "void"] /\ row.paid <= 0
        BY <2>2, <3>1 DEF Void, ChangeInvoice, TypeOK
      <4> QED
        BY <2>3, <4>1 DEF Over, Live, Invoice
    <3>2. CASE AddCredit(i) \/ CancelCredit(i)
      <4>1. PICK c : invoices'[i] = [row EXCEPT !.credit = c, !.review = TRUE]
        BY <2>2, <3>2 DEF AddCredit, CancelCredit, ChangeInvoice, TypeOK
      <4>2. /\ invoices'[i].paid = row.paid /\ invoices'[i].base = row.base
            /\ invoices'[i].status = row.status
        BY <2>3, <4>1 DEF Invoice
      <4> QED
        BY <2>2, <4>2 DEF Over, Live
    <3>3. CASE ManualPayment(i)
      <4>1. PICK n \in Int, held \in BOOLEAN :
              /\ invoices'[i] = MoveManual(row, n, held) /\ n <= row.base - row.credit - row.paid
              /\ row.status = "live"
        <5>1. Balance(i) = row.base - row.credit - row.paid /\ Balance(i) \in Int
          BY <2>2, <2>3 DEF Balance, Due
        <5>2. PICK amount \in ManualAmounts :
                ChangeInvoice(i, MoveManual(invoices[i],
                    IF amount < Balance(i) THEN amount ELSE Balance(i), MoneyDuringCheckout(i)))
          BY <3>3 DEF ManualPayment
        <5>3. PICK n : n = IF amount < Balance(i) THEN amount ELSE Balance(i)
          OBVIOUS
        <5>4. n \in Int /\ n <= Balance(i)
          BY <5>1, <5>2, <5>3
        <5>5. PICK held \in BOOLEAN : held <=> MoneyDuringCheckout(i)
          OBVIOUS
        <5>6. MoneyDuringCheckout(i) = held
          BY <5>5 DEF MoneyDuringCheckout
        <5>7. invoices'[i] = MoveManual(row, n, held)
          BY <2>2, <5>2, <5>3, <5>6 DEF ChangeInvoice, TypeOK
        <5> QED
          BY <2>2, <3>3, <5>1, <5>4, <5>7 DEF ManualPayment, Live
      <4>2. /\ invoices'[i].paid = row.paid + n /\ invoices'[i].base = row.base
            /\ invoices'[i].status = row.status
        BY <2>3, <4>1 DEF MoveManual, Invoice
      <4> QED
        BY <2>3, <4>1, <4>2 DEF Over, Live
    <3>4. CASE DeletePayment(i)
      <4>1. PICK n, held : n \in ManualAmounts /\ invoices'[i] = MoveManual(row, -n, held)
        BY <2>2, <3>4 DEF DeletePayment, ChangeInvoice, TypeOK
      <4>2. /\ invoices'[i].paid = row.paid + (-n) /\ invoices'[i].base = row.base
            /\ invoices'[i].status = row.status
        BY <2>3, <4>1 DEF MoveManual, Invoice
      <4> QED
        BY <2>2, <2>3, <4>1, <4>2 DEF Over, Live
    <3> QED
      BY <1>3, <3>1, <3>2, <3>3, <3>4
  <2>6. \A j \in Invoices \ {i} : Over(j)' => Over(j)
    BY <2>4 DEF Over, Live
  <2> QED
    BY <2>1, <2>5, <2>6, OverStep DEF MarksKept
<1>4. ASSUME NEW i \in Invoices, ClearReview(i) PROVE OverReviewed'
  <2>1. /\ invoices' = [invoices EXCEPT ![i].review = FALSE]
        /\ receipts' = [t \in Transactions |->
              IF receipts[t] = [state |-> "applied_review", invoice |-> i]
              THEN [receipts[t] EXCEPT !.state = "reviewed"] ELSE receipts[t]]
    BY <1>4 DEF ClearReview
  <2>2. \A j \in Invoices : /\ invoices'[j].paid = invoices[j].paid
                            /\ invoices'[j].base = invoices[j].base
                            /\ invoices'[j].status = invoices[j].status
                            /\ j # i => invoices'[j].review = invoices[j].review
    BY <1>0, <2>1 DEF TypeOK, Invoice
  <2>3. \A j \in Invoices : Over(j)' => Over(j)
    BY <2>2 DEF Over, Live
  <2>4. ASSUME NEW t \in Transactions, receipts[t].state \in {"applied_review", "reviewed"}
        PROVE  /\ receipts'[t].invoice = receipts[t].invoice
               /\ \/ receipts'[t].state = "reviewed"
                  \/ receipts'[t].state = receipts[t].state /\ receipts[t].invoice # i
    <3>1. receipts[t] \in Receipt
      BY DEF TypeOK
    <3> QED
      BY <2>1, <2>4, <3>1 DEF Receipt
  <2>5. ASSUME NEW j \in Invoices, OverSeen(j) PROVE OverSeen(j)'
    BY <2>2, <2>4, <2>5 DEF OverSeen
  <2> QED
    BY <2>3, <2>5 DEF OverReviewed
<1> QED
  BY <1>1, <1>2, <1>3, <1>4 DEF ShopStep

(* Every checkout is in the shop's currency, until the shop changes it.      *)
CurrencySame == \A a \in Attempts : attempts[a].currency = settings.currency

(* No step but a change of the shop's currency parts a checkout from it.     *)
LEMMA CurrencyStep ==
    ASSUME TypeOK, HandlersKnow, CurrencySame, [Next]_vars, UNCHANGED settings.currency
    PROVE  CurrencySame'
<1> SUFFICES ASSUME NEW b \in Attempts
             PROVE  attempts'[b].currency \in {attempts[b].currency, settings.currency}
  BY DEF CurrencySame
<1>1. CASE UNCHANGED attempts
  BY <1>1
<1>2. ASSUME NEW r \in Requests, NEW a \in Attempts, NEW i, NEW amount, NEW kind,
             Reserve(r, a, i, amount, kind)
      PROVE  attempts'[b].currency \in {attempts[b].currency, settings.currency}
  BY <1>2 DEF Reserve, TypeOK
<1>3. ASSUME NEW r \in Requests, AcceptAnswer(r)
      PROVE  attempts'[b].currency = attempts[b].currency
  <2>1. requests[r].ref \in Attempts
    BY <1>3, BoundType DEF AcceptAnswer, Acceptable
  <2>2. PICK s, st : attempts' = [attempts EXCEPT ![requests[r].ref] =
                       [attempts[requests[r].ref] EXCEPT !.session = s, !.status = st]]
    BY <1>3 DEF AcceptAnswer
  <2> QED
    BY <2>1, <2>2 DEF TypeOK, Attempt
<1>4. ASSUME NEW r \in Requests, ApplyPayment(r)
      PROVE  attempts'[b].currency = attempts[b].currency
  <2>1. requests[r].ref \in Attempts
    BY <1>4, ReconcilableType DEF ApplyPayment
  <2>2. CASE attempts' = attempts
    BY <2>2
  <2>3. CASE attempts' # attempts
    <3>1. PICK t, i, s : attempts' = [attempts EXCEPT ![requests[r].ref] =
              [attempts[requests[r].ref] EXCEPT !.status = "paid", !.txn = t, !.invoice = i,
                                                !.session = s]]
      BY <1>4, <2>3 DEF ApplyPayment
    <3>2. \A row \in Attempt :
            [row EXCEPT !.status = "paid", !.txn = t, !.invoice = i, !.session = s].currency
                = row.currency
      BY DEF Attempt
    <3> QED
      BY <2>1, <3>1, <3>2 DEF TypeOK
  <2> QED
    BY <2>2, <2>3
<1>5. ASSUME NEW r \in Requests, RequestStep(r), ~UNCHANGED attempts
      PROVE  AcceptAnswer(r) \/ ApplyPayment(r)
  BY <1>5 DEF RequestStep, CallFails, AccountRefused, ResumeRefused, ReopenForm, SubmitRetrieve,
     AnswerRefused, SubmitExpire, EvidenceRefused, SubmitCreate, HoldReceipt, RepeatedEvidence,
     GiveUp, database
<1>6. ASSUME NEW r \in Requests, Open(r)
      PROVE  attempts'[b].currency \in {attempts[b].currency, settings.currency}
  BY <1>1, <1>2, <1>6 DEF Open, PayEstimate, PayInvoice, Reuse, Manage, Evidence, database
<1>7. ASSUME NEW r \in Requests, ProviderStep(r) \/ CrashAfterReceipt(r) PROVE UNCHANGED attempts
  BY <1>7 DEF ProviderStep, ProviderCreates, ProviderReads, ProviderExpires, CrashAfterReceipt,
     database
<1>8. CASE Crash \/ ShopStep \/ World \/ UNCHANGED vars
  BY <1>1, <1>8 DEF Crash, ShopStep, World, ReviseEstimate, ChangeSettings, Convert, EditInvoice,
     Void, AddCredit, CancelCredit, ManualPayment, DeletePayment, ClearReview, ChangeInvoice,
     CustomerPays, CustomerPaysLater, PaymentSettles, PaymentFails, SessionExpires,
     FormCapturedAgain, Provides, WaitEnds, ReplayWindowEnds, database, vars
<1> QED
  BY <1>1, <1>3, <1>4, <1>5, <1>6, <1>7, <1>8 DEF Next

(* While the currency stays, evidence is refused only before its receipt is  *)
(* settled.                                                                  *)
LEMMA RejectedUnsettled ==
    ASSUME Reservations, Certain, CurrencySame, NEW r \in Requests,
           Reconcilable(r), NEW a, a = requests[r].ref, NEW t, t = Txn(r), Rejected(a, t)
    PROVE  ~Settled(receipts[t])
<1>1. /\ t \in Transactions /\ RefOf(t[1]) = a /\ Charged(t) /\ a \in Attempts
      /\ TypeOK /\ Records /\ RowsAgree
  BY EvidenceFacts
<1>2. ~WrongCurrency(a)
  BY <1>1 DEF WrongCurrency, CurrencySame
<1>3. ~WrongSession(a, t)
  <2> SUFFICES ASSUME WrongSession(a, t) PROVE FALSE
    OBVIOUS
  <2>1. PICK s : s = attempts[a].session
    OBVIOUS
  <2>2. s \in Sessions /\ s # t[1] /\ RefOf(s) = a /\ sessions[s] # "none"
    BY <1>1, <2>1 DEF WrongSession, TypeOK, Attempt, RowsAgree, RowAgrees
  <2> QED
    BY <1>1, <2>2, ChargedFacts, OneOfRef DEF Records
<1>4. ~Settled(Received(t))
  BY <1>2, <1>3 DEF Rejected
<1> QED
  BY <1>4 DEF Received, Settled

(* What evidence does to an overpayment.                                     *)
LEMMA EvidenceOver ==
    ASSUME Reservations, Certain, OverReviewed, CurrencySame,
           NEW r \in Requests, HoldReceipt(r) \/ RepeatedEvidence(r) \/ CrashAfterReceipt(r)
    PROVE  OverReviewed'
<1>1. PICK a, t : a = requests[r].ref /\ t = Txn(r)
  OBVIOUS
<1>2. Reconcilable(r)
  BY DEF HoldReceipt, RepeatedEvidence, CrashAfterReceipt
<1>3. t \in Transactions /\ TypeOK
  BY <1>1, <1>2, EvidenceFacts
<1>4. \A i \in Invoices : /\ invoices'[i].paid = invoices[i].paid
                          /\ invoices'[i].base = invoices[i].base
                          /\ invoices'[i].status = invoices[i].status
                          /\ invoices[i].review => invoices'[i].review
  <2>1. \A row \in Invoice : /\ Held(row).paid = row.paid /\ Held(row).base = row.base
                             /\ Held(row).status = row.status /\ Held(row).review
    BY DEF Held, Invoice
  <2> QED
    BY <1>3, <2>1 DEF HoldReceipt, RepeatedEvidence, CrashAfterReceipt, TypeOK
<1>5. MarksKept
  <2>1. \A u \in Transactions \ {t} : receipts'[u] = receipts[u]
    BY <1>1, <1>3 DEF HoldReceipt, RepeatedEvidence, CrashAfterReceipt, TypeOK
  <2>2. receipts'[t] = receipts[t] \/ ~Settled(receipts[t])
    <3>1. CASE HoldReceipt(r)
      BY <1>1, <1>2, <3>1, RejectedUnsettled DEF HoldReceipt
    <3>2. CASE RepeatedEvidence(r)
      BY <1>1, <1>3, <3>2 DEF RepeatedEvidence, Received, Settled
    <3>3. CASE CrashAfterReceipt(r)
      BY <1>1, <1>3, <3>3 DEF CrashAfterReceipt, Received, Settled, TypeOK
    <3> QED
      BY <3>1, <3>2, <3>3
  <2> QED
    BY <2>1, <2>2 DEF MarksKept, Settled
<1> QED
  BY <1>4, <1>5, OverRests

(* A payment that overpays is marked.                                        *)
LEMMA ApplyOver ==
    ASSUME Reservations, Certain, OverReviewed, NEW r \in Requests, ApplyPayment(r)
    PROVE  OverReviewed'
<1>1. PICK a, t, i : a = requests[r].ref /\ t = Txn(r) /\ i = InvoiceFor(a)
  OBVIOUS
<1>2. PICK row, review, moved, others :
        /\ row = RowFor(i) /\ review = Unexpected(a, t, row) /\ moved = Arriving(a, t)
        /\ others = \E b \in Attempts \ {a} : attempts[b].invoice = i /\ Unresolved(b)
  OBVIOUS
<1>3. /\ t \in Transactions /\ TypeOK /\ i \in Invoices /\ a \in Attempts
      /\ \A u \in Transactions \ {t} : receipts'[u] = receipts[u]
  BY <1>1, ApplyFacts
<1>4. /\ invoices' = [invoices EXCEPT ![i] =
            [row EXCEPT !.paid = @ + moved, !.review = @ \/ review \/ (moved # 0 /\ others)]]
      /\ receipts' = [receipts EXCEPT ![t] =
            [state |-> IF review THEN "applied_review" ELSE "applied", invoice |-> i]]
      /\ ~Settled(receipts[t])
  BY <1>1, <1>2 DEF ApplyPayment, Received, Settled
<1>5. MarksKept
  BY <1>3, <1>4 DEF MarksKept, Settled
<1>6. \A j \in Invoices \ {i} : Over(j)' => Over(j) /\ (invoices[j].review => invoices'[j].review)
  BY <1>3, <1>4 DEF Over, Live, TypeOK
<1>7. /\ row \in Invoice /\ row.paid \in Int /\ row.base \in Nat /\ row.credit \in Nat
      /\ row.status \in {"live", "void"}
      /\ attempts[a].amount \in Nat /\ moved \in {0, attempts[a].amount}
  <2>1. estimate.total \in Nat /\ invoices[i] \in Invoice /\ attempts[a].amount \in Nat
    BY <1>3 DEF TypeOK, Estimate, Attempt
  <2>2. NewInvoice(estimate.total) \in Invoice /\ NewInvoice(estimate.total).status = "live"
    BY <2>1 DEF NewInvoice, Invoice
  <2>3. row \in Invoice /\ row.status \in {"live", "void"}
    BY <1>2, <1>3, <2>1, <2>2 DEF RowFor, Converted, Invoice
  <2>4. moved \in {0, attempts[a].amount}
    BY <1>2 DEF Arriving
  <2> QED
    BY <2>1, <2>3, <2>4 DEF Invoice
<1>8. CASE ~review
  <2>1. row.status = "live" /\ attempts[a].amount <= row.base - row.credit - row.paid
    BY <1>2, <1>7, <1>8 DEF Unexpected
  <2>2. /\ invoices'[i].paid = row.paid + moved /\ invoices'[i].base = row.base
    BY <1>3, <1>4, <1>7 DEF TypeOK, Invoice
  <2>3. ~Over(i)'
    <3>1. row.paid + moved <= row.base
      BY <1>7, <2>1
    <3>2. invoices'[i].status = "live"
      BY <1>3, <1>4, <1>7, <2>1 DEF TypeOK, Invoice
    <3> QED
      BY <1>7, <2>2, <3>1, <3>2 DEF Over, Live
  <2> QED
    BY <1>5, <1>6, <2>3, OverStep
<1>9. CASE review
  <2>1. invoices'[i].review
    <3>1. PICK p, h : /\ invoices' = [invoices EXCEPT ![i] = [row EXCEPT !.paid = p, !.review = h]]
                      /\ h
      BY <1>4, <1>7, <1>9 DEF Invoice
    <3> QED
      BY <1>3, <1>7, <3>1 DEF TypeOK, Invoice
  <2>2. receipts'[t].state = "applied_review" /\ receipts'[t].invoice = i
    BY <1>3, <1>4, <1>9 DEF TypeOK
  <2>3. OverSeen(i)'
    BY <1>3, <2>1, <2>2 DEF OverSeen
  <2> QED
    BY <1>5, <1>6, <2>3, OverStep
<1> QED
  BY <1>8, <1>9

(* OverReviewed holds initially, and every step that keeps the currency keeps it.  *)
LEMMA OverInductive ==
    /\ Init => OverReviewed /\ CurrencySame
    /\ IInv /\ OverReviewed /\ CurrencySame /\ [Next]_vars /\ UNCHANGED settings.currency
         => OverReviewed' /\ CurrencySame'
<1>1. Init => OverReviewed /\ CurrencySame
  BY DEF Init, OverReviewed, Over, Live, CurrencySame
<1>2. ASSUME Reservations, Certain, OverReviewed, CurrencySame, [Next]_vars PROVE OverReviewed'
  <2>1. ASSUME UNCHANGED <<invoices, receipts>> PROVE OverReviewed'
    BY <1>2, <2>1, OverRests DEF MarksKept
  <2>2. ASSUME NEW r \in Requests, RequestStep(r) PROVE OverReviewed'
    <3>1. CASE \/ CallFails(r) \/ AccountRefused(r) \/ ResumeRefused(r) \/ ReopenForm(r)
               \/ SubmitRetrieve(r) \/ AnswerRefused(r) \/ SubmitExpire(r) \/ EvidenceRefused(r)
               \/ SubmitCreate(r) \/ AcceptAnswer(r)
      BY <2>1, <3>1 DEF CallFails, AccountRefused, ResumeRefused, ReopenForm, SubmitRetrieve,
         AnswerRefused, SubmitExpire, EvidenceRefused, SubmitCreate, AcceptAnswer, GiveUp, database
    <3>2. CASE HoldReceipt(r) \/ RepeatedEvidence(r)
      BY <1>2, <3>2, EvidenceOver
    <3>3. CASE ApplyPayment(r)
      BY <1>2, <3>3, ApplyOver
    <3> QED
      BY <2>2, <3>1, <3>2, <3>3 DEF RequestStep
  <2>3. ASSUME NEW r \in Requests, ProviderStep(r) \/ Open(r) PROVE OverReviewed'
    BY <2>1, <2>3 DEF ProviderStep, ProviderCreates, ProviderReads, ProviderExpires, Open,
       PayEstimate, PayInvoice, Manage, Evidence, database
  <2>4. ASSUME NEW r \in Requests, CrashAfterReceipt(r) PROVE OverReviewed'
    BY <1>2, <2>4, EvidenceOver
  <2>5. CASE ShopStep
    BY <1>2, <2>5, ShopOver DEF Reservations
  <2>6. CASE Crash \/ World \/ UNCHANGED vars
    BY <2>1, <2>6 DEF Crash, World, CustomerPays, CustomerPaysLater, PaymentSettles, PaymentFails,
       SessionExpires, FormCapturedAgain, Provides, WaitEnds, ReplayWindowEnds, database, vars
  <2> QED
    BY <1>2, <2>2, <2>3, <2>4, <2>5, <2>6 DEF Next
<1>3. ASSUME Reservations, CurrencySame, [Next]_vars, UNCHANGED settings.currency
      PROVE  CurrencySame'
  BY <1>3, CurrencyStep DEF Reservations
<1> QED
  BY <1>1, <1>2, <1>3 DEF IInv

(***************************************************************************)
(* As long as the shop does not change its currency, an invoice that holds *)
(* more than it was issued for is under review or has a receipt a manager  *)
(* reviewed.  The condition is needed: evidence delivered in the other     *)
(* currency overwrites the mark of a receipt that overpaid.                *)
(***************************************************************************)
THEOREM OverpaymentKnownHolds ==
    Spec /\ [][UNCHANGED settings.currency]_vars => []OverpaymentKnown
<1>1. IInv /\ OverReviewed => OverpaymentKnown
  <2> SUFFICES ASSUME TypeOK, OverReviewed, NEW i \in Invoices, Over(i)
               PROVE  \/ invoices[i].review
                      \/ \E t \in Transactions : receipts[t] = [state |-> "reviewed", invoice |-> i]
    BY DEF IInv, Reservations, OverpaymentKnown, Over
  <2>1. \A t \in Transactions : receipts[t] \in Receipt
    BY DEF TypeOK
  <2> QED
    BY <2>1 DEF OverReviewed, OverSeen, Receipt
<1> DEFINE OInv == IInv /\ OverReviewed /\ CurrencySame
<1>2. Init => OInv
  BY IInvInductive, OverInductive
<1>3. OInv /\ [Next /\ UNCHANGED settings.currency]_vars => OInv'
  <2> SUFFICES ASSUME OInv, [Next /\ UNCHANGED settings.currency]_vars PROVE OInv'
    OBVIOUS
  <2>1. [Next]_vars /\ UNCHANGED settings.currency
    BY DEF vars
  <2> QED
    BY <2>1, IInvInductive, OverInductive
<1>4. OInv => OverpaymentKnown
  BY <1>1
<1>5. [Next]_vars /\ [UNCHANGED settings.currency]_vars => [Next /\ UNCHANGED settings.currency]_vars
  OBVIOUS
<1> HIDE DEF OInv
<1> QED
  BY <1>2, <1>3, <1>4, <1>5, PTL DEF Spec
-----------------------------------------------------------------------------
(***************************************************************************)
(* The invoices' books: each is what was recorded by hand and the sum of   *)
(* the amounts of the transactions posted on it.  Only finitely many are,  *)
(* and only on invoices that exist: a new invoice starts with nothing.     *)
(***************************************************************************)
Worth(rows) == [t \in Transactions |-> rows[RefOf(t[1])].amount]
On(post, i) == {t \in Transactions : post[t] = i}

Balanced(i) == invoices[i].paid = invoices[i].manual + SumOf(Worth(attempts), On(posted, i))

Ledger ==
    /\ \A i \in Invoices : Balanced(i)
    /\ \A t \in Transactions : posted[t] # NoInvoice => posted[t] \in Converted
    /\ IsFiniteSet({t \in Transactions : posted[t] # NoInvoice})

(* What was collected is that sum. *)
LEMMA CollectedIsSum ==
    ASSUME NEW i
    PROVE  Collected(i) = SumOf(Worth(attempts), On(posted, i))
<1> DEFINE here == {t \in Transactions : posted[t] = i}
<1>1. \A g :
          g = [s \in SUBSET here |-> IF s = {} THEN 0
                  ELSE attempts[RefOf(FirstOf(s)[1])].amount + g[RestOf(s)]]
      <=> Accumulates(g, Worth(attempts), here)
  <2>1. \A s \in SUBSET here :
            s # {} => attempts[RefOf(FirstOf(s)[1])].amount = Worth(attempts)[FirstOf(s)]
    BY FirstAndRest DEF Worth
  <2> QED
    BY <2>1 DEF Accumulates
<1>2. Collected(i) =
          (CHOOSE g : g = [s \in SUBSET here |-> IF s = {} THEN 0
                  ELSE attempts[RefOf(FirstOf(s)[1])].amount + g[RestOf(s)]])[here]
  BY DEF Collected, MapThenSumSet, MapThenFoldSet, FirstOf, RestOf
<1>3. Collected(i) = (CHOOSE g : Accumulates(g, Worth(attempts), here))[here]
  BY <1>1, <1>2
<1> QED
  BY <1>3, SumUnfolds DEF Accumulated, On

(* The posted transactions of an invoice, and what they are worth. *)
LEMMA OnFacts ==
    ASSUME TypeOK, Ledger, NEW i \in Invoices
    PROVE  /\ IsFiniteSet(On(posted, i))
           /\ \A t \in Transactions : Worth(attempts)[t] \in Int
           /\ SumOf(Worth(attempts), On(posted, i)) \in Int
           /\ i \notin Converted => SumOf(Worth(attempts), On(posted, i)) = 0
<1>1. \A t \in Transactions : Worth(attempts)[t] \in Int
  BY Shapes DEF Worth, TypeOK, Attempt
<1>2. IsFiniteSet(On(posted, i)) /\ On(posted, i) \subseteq Transactions
  <2>1. On(posted, i) \subseteq {t \in Transactions : posted[t] # NoInvoice}
    BY DEF On, Invoices
  <2> QED
    BY <2>1, FS_Subset DEF Ledger, On
<1>3. PICK v, T : v = Worth(attempts) /\ T = On(posted, i)
  OBVIOUS
<1>4. SumOf(v, T) \in Int
  BY <1>1, <1>2, <1>3, SumType
<1>5. i \notin Converted => T = {}
  BY <1>3 DEF On, Ledger, Invoices
<1>6. T = {} => SumOf(v, T) = 0
  BY <1>2, <1>3, SumStep
<1> QED
  BY <1>1, <1>2, <1>3, <1>4, <1>5, <1>6

LEMMA LedgerInit == Init => Ledger
<1> SUFFICES ASSUME Init PROVE Ledger
  OBVIOUS
<1>1. \A t \in Transactions : posted[t] = NoInvoice
  BY DEF Init
<1>2. {t \in Transactions : posted[t] # NoInvoice} = {}
  BY <1>1
<1>3. IsFiniteSet({t \in Transactions : posted[t] # NoInvoice})
  BY <1>2, FS_EmptySet
<1>4. ASSUME NEW i \in Invoices PROVE Balanced(i)
  <2>1. PICK v, T : v = Worth(attempts) /\ T = On(posted, i)
    OBVIOUS
  <2>2. T = {}
    BY <1>1, <2>1 DEF On, Invoices
  <2>3. SumOf(v, T) = 0
    BY <2>2, FS_EmptySet, SumStep
  <2> QED
    BY <2>1, <2>3 DEF Init, Balanced
<1> QED
  BY <1>1, <1>3, <1>4 DEF Ledger

(* A reserved checkout keeps its amount. *)
AmountsKept ==
    \A a \in Attempts : attempts[a].status # "unused" => attempts'[a].amount = attempts[a].amount

(* What was collected from it, and with it what is left to record by hand.   *)
LEMMA LedgerRests ==
    ASSUME TypeOK, ReceiptsTrue, Ledger, AmountsKept, UNCHANGED posted,
           Converted \subseteq Converted', NEW i \in Invoices,
           invoices'[i].paid \in Int, invoices'[i].manual \in Int,
           invoices'[i].paid - invoices'[i].manual = invoices[i].paid - invoices[i].manual
    PROVE  Balanced(i)'
<1>1. PICK v, w, T : v = Worth(attempts) /\ w = Worth(attempts') /\ T = On(posted, i)
  OBVIOUS
<1>2. IsFiniteSet(T) /\ SumOf(v, T) \in Int
  BY <1>1, OnFacts
<1>3. \A t \in T : v[t] = w[t]
  BY <1>1, Shapes DEF Worth, On, ReceiptsTrue, ReceiptTrue, AmountsKept, Invoices
<1>4. SumOf(w, T) = SumOf(v, T)
  BY <1>2, <1>3, SumSame
<1>5. invoices[i].paid = invoices[i].manual + SumOf(v, T)
  BY <1>1 DEF Ledger, Balanced
<1>6. invoices[i].manual \in Int
  BY DEF TypeOK, Invoice
<1>7. invoices'[i].paid = invoices'[i].manual + SumOf(w, T)
  BY <1>2, <1>4, <1>5, <1>6
<1>8. posted' = posted
  OBVIOUS
<1> QED
  BY <1>1, <1>7, <1>8 DEF Balanced

(* The whole of it, when no transaction is posted. *)
LEMMA LedgerStays ==
    ASSUME TypeOK, ReceiptsTrue, Ledger, AmountsKept, UNCHANGED posted,
           \A i \in Converted : invoices'[i].status # "none",
           \A i \in Invoices : /\ invoices'[i].paid \in Int /\ invoices'[i].manual \in Int
                               /\ invoices'[i].paid - invoices'[i].manual
                                    = invoices[i].paid - invoices[i].manual
    PROVE  Ledger'
<1>1. Converted \subseteq Converted'
  BY DEF Converted
<1>2. \A i \in Invoices : Balanced(i)'
  BY <1>1, LedgerRests
<1>3. posted' = posted
  OBVIOUS
<1> QED
  BY <1>1, <1>2, <1>3 DEF Ledger

(* The shop's edits move recorded money and paid amount together. *)
LEMMA ShopLedger ==
    ASSUME TypeOK, ReceiptsTrue, Ledger, ShopStep
    PROVE  Ledger'
<1>0. /\ \A i \in Invoices :
            invoices[i] \in Invoice /\ invoices[i].paid \in Int /\ invoices[i].manual \in Nat
      /\ Totals \subseteq Nat /\ ManualAmounts \subseteq Nat /\ estimate.total \in Nat
  <2>1. estimate.total \in Totals
    BY DEF TypeOK, Estimate
  <2> QED
    BY <2>1 DEF TypeOK, Invoice
<1>1. AmountsKept /\ UNCHANGED posted
  BY DEF AmountsKept, ShopStep, ReviseEstimate, ChangeSettings, Convert, EditInvoice, Void, AddCredit,
     CancelCredit, ManualPayment, DeletePayment, ClearReview, ChangeInvoice
<1>2. ASSUME NEW i \in Invoices, NEW row, invoices' = [invoices EXCEPT ![i] = row],
             invoices[i].status # "none" => row.status # "none",
             row.paid \in Int, row.manual \in Int,
             row.paid - row.manual = invoices[i].paid - invoices[i].manual
      PROVE  Ledger'
  <2>1. invoices'[i] = row /\ \A j \in Invoices \ {i} : invoices'[j] = invoices[j]
    BY <1>2 DEF TypeOK
  <2> QED
    BY <1>0, <1>1, <1>2, <2>1, LedgerStays DEF Converted
<1>3. CASE ReviseEstimate \/ ChangeSettings \/ \E i \in Invoices : EditInvoice(i)
  <2>1. UNCHANGED invoices
    BY <1>3 DEF ReviseEstimate, ChangeSettings, EditInvoice
  <2> QED
    BY <1>0, <1>1, <2>1, LedgerStays DEF Converted
<1>4. ASSUME NEW i \in Invoices, Convert(i) PROVE Ledger'
  <2>1. i \notin Converted /\ invoices' = [invoices EXCEPT ![i] = NewInvoice(estimate.total)]
    BY <1>4 DEF Convert, NextInvoice
  <2>2. invoices[i].paid = invoices[i].manual
    BY <1>0, <2>1, OnFacts DEF Ledger, Balanced
  <2>3. PICK row : row = NewInvoice(estimate.total)
    OBVIOUS
  <2>4. row.paid = 0 /\ row.manual = 0 /\ row.status = "live"
    BY <2>3 DEF NewInvoice
  <2> QED
    <3>1. /\ row.paid \in Int /\ row.manual \in Int
          /\ row.paid - row.manual = invoices[i].paid - invoices[i].manual
      BY <1>0, <2>2, <2>4
    <3>2. invoices' = [invoices EXCEPT ![i] = row] /\ row.status # "none"
      BY <2>1, <2>3, <2>4
    <3> QED
      BY <1>2, <3>1, <3>2
<1>5. ASSUME NEW i \in Invoices, Void(i) \/ AddCredit(i) \/ CancelCredit(i) PROVE Ledger'
  <2>1. PICK row : /\ invoices' = [invoices EXCEPT ![i] = row]
                   /\ \/ row = [invoices[i] EXCEPT !.status = "void"]
                      \/ \E n \in CreditAmounts :
                            \/ row = [invoices[i] EXCEPT !.credit = @ + n, !.review = TRUE]
                            \/ row = [invoices[i] EXCEPT !.credit = @ - n, !.review = TRUE]
    BY <1>5 DEF Void, AddCredit, CancelCredit, ChangeInvoice
  <2>2. /\ row.paid = invoices[i].paid /\ row.manual = invoices[i].manual
        /\ invoices[i].status # "none" => row.status # "none"
    BY <1>0, <2>1 DEF Invoice
  <2>3. /\ row.paid \in Int /\ row.manual \in Int
        /\ row.paid - row.manual = invoices[i].paid - invoices[i].manual
    BY <1>0, <2>2
  <2> QED
    BY <1>2, <2>1, <2>2, <2>3
<1>6. ASSUME NEW i \in Invoices, ManualPayment(i) \/ DeletePayment(i) PROVE Ledger'
  <2>1. PICK n, held : /\ n \in Int
                       /\ invoices' = [invoices EXCEPT ![i] = MoveManual(invoices[i], n, held)]
    <3>1. CASE ManualPayment(i)
      <4>1. PICK amount, held :
              /\ amount \in ManualAmounts
              /\ invoices' = [invoices EXCEPT ![i] = MoveManual(invoices[i],
                    IF amount < Balance(i) THEN amount ELSE Balance(i), held)]
        BY <3>1 DEF ManualPayment, ChangeInvoice
      <4>2. Balance(i) \in Int
        BY <1>0 DEF Balance, Due, Invoice
      <4>3. (IF amount < Balance(i) THEN amount ELSE Balance(i)) \in Int
        BY <1>0, <4>1, <4>2
      <4> QED
        BY <4>1, <4>3
    <3>2. CASE DeletePayment(i)
      <4>1. PICK n, held : /\ n \in ManualAmounts
                           /\ invoices' = [invoices EXCEPT ![i] = MoveManual(invoices[i], -n, held)]
        BY <3>2 DEF DeletePayment, ChangeInvoice
      <4>2. -n \in Int
        BY <1>0, <4>1
      <4> QED
        BY <4>1, <4>2
    <3> QED
      BY <1>6, <3>1, <3>2
  <2>2. PICK row : row = MoveManual(invoices[i], n, held)
    OBVIOUS
  <2>3. /\ row.paid = invoices[i].paid + n /\ row.manual = invoices[i].manual + n
        /\ row.status = invoices[i].status
    BY <1>0, <2>2 DEF MoveManual, Invoice
  <2>4. /\ row.paid \in Int /\ row.manual \in Int
        /\ row.paid - row.manual = invoices[i].paid - invoices[i].manual
    BY <1>0, <2>1, <2>3
  <2> QED
    BY <1>2, <2>1, <2>2, <2>3, <2>4
<1>7. ASSUME NEW i \in Invoices, ClearReview(i) PROVE Ledger'
  <2>1. invoices' = [invoices EXCEPT ![i].review = FALSE]
    BY <1>7 DEF ClearReview
  <2>2. PICK row : row = [invoices[i] EXCEPT !.review = FALSE]
    OBVIOUS
  <2>3. /\ invoices' = [invoices EXCEPT ![i] = row]
        /\ row.paid = invoices[i].paid /\ row.manual = invoices[i].manual
        /\ row.status = invoices[i].status
    BY <1>0, <2>1, <2>2 DEF Invoice
  <2>4. /\ row.paid \in Int /\ row.manual \in Int
        /\ row.paid - row.manual = invoices[i].paid - invoices[i].manual
    BY <1>0, <2>3
  <2> QED
    BY <1>2, <2>3, <2>4
<1> QED
  BY <1>3, <1>4, <1>5, <1>6, <1>7 DEF ShopStep

(* A payment arrives once. *)
LEMMA ApplyLedger ==
    ASSUME Reservations, Certain, Ledger, NEW r \in Requests, ApplyPayment(r)
    PROVE  Ledger'
<1>1. PICK a, t, i : a = requests[r].ref /\ t = Txn(r) /\ i = InvoiceFor(a)
  OBVIOUS
<1>2. PICK row, moved : row = RowFor(i) /\ moved = Arriving(a, t)
  OBVIOUS
<1>3. /\ t \in Transactions /\ TypeOK /\ i \in Invoices /\ a \in Attempts /\ RefOf(t[1]) = a
      /\ posted' = [posted EXCEPT ![t] = i] /\ posted[t] \in {NoInvoice, i}
      /\ i \in Converted' /\ Converted \subseteq Converted'
  BY <1>1, ApplyFacts
<1>4. PICK h : invoices' = [invoices EXCEPT ![i] = [row EXCEPT !.paid = @ + moved, !.review = h]]
  BY <1>1, <1>2 DEF ApplyPayment
<1>5. PICK v, w : v = Worth(attempts) /\ w = Worth(attempts')
  OBVIOUS
<1>6. w = v
  <2>1. \A b \in Attempts : attempts'[b].amount = attempts[b].amount
    <3>1. CASE attempts' = attempts
      BY <3>1
    <3>2. CASE attempts' # attempts
      <4>1. PICK s : attempts' = [attempts EXCEPT ![a] =
                [attempts[a] EXCEPT !.status = "paid", !.txn = t, !.invoice = i, !.session = s]]
        BY <1>1, <3>2 DEF ApplyPayment
      <4>2. \A x \in Attempt :
              [x EXCEPT !.status = "paid", !.txn = t, !.invoice = i, !.session = s].amount = x.amount
        BY DEF Attempt
      <4> QED
        BY <1>3, <4>1, <4>2 DEF TypeOK
    <3> QED
      BY <3>1, <3>2
  <2> QED
    BY <1>5, <2>1, Shapes DEF Worth
<1>7. /\ row \in Invoice /\ row.paid \in Int /\ row.manual \in Int
      /\ i \in Converted => row = invoices[i]
      /\ i \notin Converted => row.paid = 0 /\ row.manual = 0
  <2>1. estimate.total \in Nat /\ invoices[i] \in Invoice
    BY <1>3 DEF TypeOK, Estimate
  <2>2. /\ NewInvoice(estimate.total) \in Invoice
        /\ NewInvoice(estimate.total).paid = 0 /\ NewInvoice(estimate.total).manual = 0
    BY <2>1 DEF NewInvoice, Invoice
  <2>3. row = IF i \in Converted THEN invoices[i] ELSE NewInvoice(estimate.total)
    BY <1>2 DEF RowFor
  <2>4. row \in Invoice
    BY <2>1, <2>2, <2>3
  <2> QED
    BY <2>2, <2>3, <2>4 DEF Invoice
<1>8. /\ invoices'[i].paid = row.paid + moved /\ invoices'[i].manual = row.manual
      /\ \A j \in Invoices \ {i} : invoices'[j] = invoices[j]
  BY <1>3, <1>4, <1>7 DEF TypeOK, Invoice
<1>9. ASSUME NEW j \in Invoices \ {i} PROVE Balanced(j)'
  <2>1. On(posted', j) = On(posted, j)
    BY <1>3 DEF On, TypeOK, Invoices
  <2> QED
    BY <1>5, <1>6, <1>8, <2>1 DEF Ledger, Balanced
<1>10. PICK T, U : T = On(posted, i) /\ U = On(posted', i)
  OBVIOUS
<1>11. /\ IsFiniteSet(T) /\ (\A x \in Transactions : v[x] \in Int) /\ SumOf(v, T) \in Int
       /\ i \notin Converted => SumOf(v, T) = 0
  BY <1>3, <1>5, <1>10, OnFacts
<1>12. U = T \cup {t} /\ (t \in T <=> posted[t] = i) /\ U \subseteq Transactions
  BY <1>3, <1>10 DEF On, TypeOK
<1>13. row.paid = row.manual + SumOf(v, T)
  BY <1>3, <1>5, <1>7, <1>10, <1>11 DEF Ledger, Balanced
<1>14. SumOf(v, U) = SumOf(v, T) + moved /\ moved \in Int
  <2>1. CASE posted[t] = i
    <3>1. moved = 0
      BY <1>2, <1>3, <2>1 DEF Arriving, Invoices
    <3>2. U = T
      BY <1>12, <2>1
    <3> QED
      BY <1>11, <3>1, <3>2
  <2>2. CASE posted[t] = NoInvoice
    <3>1. moved = v[t] /\ v[t] \in Int
      BY <1>2, <1>3, <1>5, <1>11, <2>2 DEF Arriving, Worth
    <3>2. t \notin T /\ U \ {t} = T /\ t \in U
      BY <1>3, <1>12, <2>2 DEF Invoices
    <3>3. IsFiniteSet(U) /\ \A x \in U : v[x] \in Int
      BY <1>11, <1>12, FS_AddElement
    <3>4. SumOf(v, U) = v[t] + SumOf(v, U \ {t})
      BY <3>2, <3>3, SumAdd
    <3>5. SumOf(v, U) = v[t] + SumOf(v, T)
      BY <3>2, <3>4
    <3> QED
      BY <1>11, <3>1, <3>5
  <2> QED
    BY <1>3, <2>1, <2>2
<1>15. Balanced(i)'
  <2>1. invoices'[i].paid = invoices'[i].manual + SumOf(w, U)
    BY <1>6, <1>7, <1>8, <1>11, <1>13, <1>14
  <2> QED
    BY <1>5, <1>10, <2>1 DEF Balanced
<1>16. /\ \A x \in Transactions : posted'[x] # NoInvoice => posted'[x] \in Converted'
       /\ {x \in Transactions : posted'[x] # NoInvoice}
            = {x \in Transactions : posted[x] # NoInvoice} \cup {t}
  BY <1>3 DEF Ledger, TypeOK, Invoices
<1>17. IsFiniteSet({x \in Transactions : posted'[x] # NoInvoice})
  BY <1>16, FS_AddElement DEF Ledger
<1> QED
  BY <1>9, <1>15, <1>16, <1>17 DEF Ledger

(* Ledger holds initially and every step keeps it. *)
LEMMA LedgerInductive ==
    ASSUME IInv, Ledger, [Next]_vars
    PROVE  Ledger'
<1>1. Reservations /\ Certain /\ TypeOK /\ HandlersKnow /\ ReceiptsTrue
  BY DEF IInv, Reservations, Certain, Records
<1>0. \A i \in Invoices :
        invoices[i] \in Invoice /\ invoices[i].paid \in Int /\ invoices[i].manual \in Int
  BY <1>1 DEF TypeOK, Invoice
<1>2. ASSUME AmountsKept, UNCHANGED <<invoices, posted>> PROVE Ledger'
  BY <1>0, <1>1, <1>2, LedgerStays DEF Converted
<1>3. ASSUME UNCHANGED <<attempts, invoices, posted>> PROVE Ledger'
  BY <1>2, <1>3 DEF AmountsKept
<1>4. ASSUME NEW r \in Requests, AcceptAnswer(r) PROVE Ledger'
  <2>1. requests[r].ref \in Attempts
    BY <1>1, <1>4, BoundType DEF AcceptAnswer, Acceptable
  <2>2. PICK s, st : attempts' = [attempts EXCEPT ![requests[r].ref] =
                       [attempts[requests[r].ref] EXCEPT !.session = s, !.status = st]]
    BY <1>4 DEF AcceptAnswer
  <2>3. \A x \in Attempt : [x EXCEPT !.session = s, !.status = st].amount = x.amount
    BY DEF Attempt
  <2>4. AmountsKept
    BY <1>1, <2>1, <2>2, <2>3 DEF AmountsKept, TypeOK
  <2> QED
    BY <1>2, <1>4, <2>4 DEF AcceptAnswer
<1>5. ASSUME NEW r \in Requests, HoldReceipt(r) PROVE Ledger'
  <2>1. \A row \in Invoice : /\ Held(row).paid = row.paid /\ Held(row).manual = row.manual
                             /\ Held(row).status = row.status
    BY DEF Held, Invoice
  <2>2. AmountsKept /\ UNCHANGED posted
    BY <1>5 DEF HoldReceipt, AmountsKept
  <2>3. \A i \in Invoices : invoices'[i] \in {invoices[i], Held(invoices[i])}
    BY <1>5 DEF HoldReceipt
  <2>4. \A i \in Invoices : /\ invoices'[i].paid = invoices[i].paid
                            /\ invoices'[i].manual = invoices[i].manual
                            /\ invoices'[i].status = invoices[i].status
    BY <1>0, <2>1, <2>3
  <2> QED
    BY <1>0, <1>1, <2>2, <2>4, LedgerStays DEF Converted
<1>6. ASSUME NEW r \in Requests, RequestStep(r) PROVE Ledger'
  <2>1. CASE \/ CallFails(r) \/ AccountRefused(r) \/ ResumeRefused(r) \/ ReopenForm(r)
             \/ SubmitRetrieve(r) \/ AnswerRefused(r) \/ SubmitExpire(r) \/ EvidenceRefused(r)
             \/ SubmitCreate(r) \/ RepeatedEvidence(r)
    BY <1>3, <2>1 DEF CallFails, AccountRefused, ResumeRefused, ReopenForm, SubmitRetrieve,
       AnswerRefused, SubmitExpire, EvidenceRefused, SubmitCreate, RepeatedEvidence, GiveUp, database
  <2> QED
    BY <1>1, <1>4, <1>5, <1>6, <2>1, ApplyLedger DEF RequestStep
<1>7. ASSUME NEW r \in Requests, Open(r) PROVE Ledger'
  <2>1. UNCHANGED <<invoices, posted>>
    BY <1>7 DEF Open, PayEstimate, PayInvoice, Manage, Evidence, database
  <2>2. \/ UNCHANGED attempts
        \/ \E a \in Attempts : \E i, amount, kind : Reserve(r, a, i, amount, kind)
    BY <1>7 DEF Open, PayEstimate, PayInvoice, Reuse, Manage, Evidence, database
  <2>3. ASSUME NEW a \in Attempts, NEW i, NEW amount, NEW kind, Reserve(r, a, i, amount, kind)
        PROVE  AmountsKept
    BY <1>1, <2>3 DEF Reserve, AmountsKept, TypeOK
  <2>4. AmountsKept
    BY <2>2, <2>3 DEF AmountsKept
  <2> QED
    BY <1>2, <2>1, <2>4
<1>8. ASSUME NEW r \in Requests, ProviderStep(r) \/ CrashAfterReceipt(r) PROVE Ledger'
  BY <1>3, <1>8 DEF ProviderStep, ProviderCreates, ProviderReads, ProviderExpires,
     CrashAfterReceipt, database
<1>9. CASE ShopStep
  BY <1>1, <1>9, ShopLedger
<1>10. CASE Crash \/ World \/ UNCHANGED vars
  BY <1>3, <1>10 DEF Crash, World, CustomerPays, CustomerPaysLater, PaymentSettles, PaymentFails,
     SessionExpires, FormCapturedAgain, Provides, WaitEnds, ReplayWindowEnds, database, vars
<1> QED
  BY <1>6, <1>7, <1>8, <1>9, <1>10 DEF Next

(***************************************************************************)
(* An invoice's paid amount is at all times what was recorded by hand and  *)
(* what the transactions posted on it brought: evidence delivered again,   *)
(* under another claim or after a crash, brings nothing more, and an       *)
(* amount once reserved is the amount booked.                              *)
(***************************************************************************)
THEOREM BooksAlwaysBalance == Spec => []BooksBalance
<1>1. Ledger => BooksBalance
  BY CollectedIsSum DEF Ledger, Balanced, BooksBalance
<1> QED
  BY <1>1, IInvInductive, LedgerInit, LedgerInductive, PTL DEF Spec
=============================================================================
