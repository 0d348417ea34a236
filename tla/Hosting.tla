------------------------------- MODULE Hosting -------------------------------
(***************************************************************************)
(* How a shop pays for its hosting: checkouts (lib/hosting-checkouts.mjs), *)
(* notices of subscriptions (lib/platform-subscription-events.mjs) and the *)
(* removal of the shop (lib/hosting-deletion.mjs), which all read Stripe   *)
(* without a transaction and write one row, the shop's binding.  Leases    *)
(* keep them apart, and a lease can run out under a handler.               *)
(*                                                                         *)
(* One shop.  Each action is a stretch of a handler between two awaits, or *)
(* Stripe, its customer or a clock.                                        *)
(***************************************************************************)
EXTENDS Naturals, FiniteSets

CONSTANTS
    Requests,    \* handlers that may be in flight
    MaxIntents,  \* checkouts that the shop starts
    MaxTries,    \* creates of one checkout (maxAttempts: 12 in the code)
    Legacy,      \* checkouts from before the intents table, still payable
    Customer,    \* the shop's customer at Stripe from before
    None

ASSUME HostingAssumption ==
    /\ MaxIntents \in Nat /\ MaxTries \in Nat
    /\ None \notin Requests /\ None \notin Legacy

VARIABLES
    tenant,      \* the shop's row in tenants
    intents,     \* rows of hosting_checkout_intents, by order of creation
    leases,      \* lease_token of a row whose lease_until has not passed
    operation,   \* the live row of hosting_billing_operations
    removal,     \* the row of hosting_tenant_deletions; failed or lapsed is "no"
    anomalies,   \* rows of hosting_checkout_anomalies, by session
    receipts,    \* rows of hosting_billing_verifications, by session
    handlers,    \* handlers in flight, and the await each one is at
    sessions,    \* external: checkout sessions at Stripe, then their subscriptions
    forgotten    \* external: checkouts whose idempotency key has run out

vars == <<tenant, intents, leases, operation, removal, anomalies, receipts,
          handlers, sessions, forgotten>>

Intents == 1..MaxIntents
Modern == Intents \X {1, 2}     \* the second one: a create that was not recognised
Sessions == Modern \cup Legacy
SessionStates == {"none", "open", "expired", "active", "ended"}
Complete == {"active", "ended"}

ASSUME SessionsAssumption ==
    Modern \cap Legacy = {} /\ None \notin Sessions /\ None \notin Intents

OpenStates == {"reserved", "creating", "unknown", "open", "held"}
Tenant == [here : BOOLEAN, sub : Sessions \cup {None},
           cust : Sessions \cup {Customer, None}, status : {"trial", "active", "ended"}]
Intent == [state : OpenStates \cup {"none", "complete", "expired"},
           session : Modern \cup {None}, sub : Sessions \cup {None},
           cust : Sessions \cup {Customer, None}, tries : 0..MaxTries, resolved : BOOLEAN]
Kinds == {"start", "reconcile", "expire", "legacy", "subscription", "resolve", "remove"}
Awaits == {"prev", "create", "retrieve", "check", "sub", "previous",
           "read", "before", "judge", "verify"}
Handler == [pc : Awaits, kind : Kinds, intent : Intents \cup {None},
            session : Sessions \cup {None},      \* the one it is about
            target : Sessions \cup {None},       \* the one the call is about
            since : SessionStates \cup {None},   \* the target when the call went out
            status : SessionStates \cup {None},  \* an earlier answer
            bound : Sessions \cup {None},        \* the binding it read
            fresh : BOOLEAN,                     \* hosting_revision has not moved
            todo : SUBSET Sessions]
Idle == [pc |-> "idle"]

TypeOK ==
    /\ tenant \in Tenant
    /\ intents \in [Intents -> Intent]
    /\ leases \in [Intents -> Requests \cup {None}]
    /\ operation \in Requests \cup {None}
    /\ removal.state \in {"no", "checking", "deleted"}
    /\ removal.by \in Requests \cup {None}
    /\ anomalies \in [Sessions -> {"none", "open", "resolved"}]
    /\ receipts \in [Legacy -> {"none", "pending", "cleared"}]
    /\ handlers \in [Requests -> Handler \cup {Idle}]
    /\ sessions \in [Sessions -> SessionStates]
    /\ forgotten \in [Intents -> BOOLEAN]

NoIntent == [state |-> "none", session |-> None, sub |-> None, cust |-> None,
             tries |-> 0, resolved |-> FALSE]
NoRemoval == [state |-> "no", by |-> None, digest |-> None]

(* The shop may have had a customer, and may have left checkouts behind. *)
Init ==
    /\ tenant \in {[here |-> TRUE, sub |-> None, cust |-> c, status |-> "trial"] :
                      c \in {Customer, None}}
    /\ intents = [i \in Intents |-> NoIntent]
    /\ leases = [i \in Intents |-> None]
    /\ operation = None
    /\ removal = NoRemoval
    /\ anomalies = [s \in Sessions |-> "none"]
    /\ receipts = [s \in Legacy |-> "none"]
    /\ handlers = [r \in Requests |-> Idle]
    /\ sessions = [s \in Sessions |-> IF s \in Legacy THEN "open" ELSE "none"]
    /\ forgotten = [i \in Intents |-> FALSE]

-----------------------------------------------------------------------------
(* What the handlers ask of the records *)

CustOf(s) == IF s \in Legacy THEN Customer
             ELSE IF intents[s[1]].cust # None THEN intents[s[1]].cust ELSE s
CustomerMatches(s) == tenant.cust \in {None, CustOf(s)}

Unresolved == {i \in Intents : intents[i].state \in OpenStates /\ ~intents[i].resolved}
Used == {i \in Intents : intents[i].state # "none"}
Newest == CHOOSE i \in Used : \A j \in Used : j <= i
HasAnomaly == (\E s \in Sessions : anomalies[s] = "open")
              \/ (\E s \in Legacy : receipts[s] = "pending")

Checking == removal.state = "checking"

(* withHostingBillingOperation: one operation of the shop at a time, none    *)
(* while its removal is checked, none after it.                              *)
MayOperate == tenant.here /\ ~Checking /\ operation = None

(* assertActive *)
Active(r) == operation = r /\ tenant.here /\ ~Checking

(* owned: the lease of the row is still the handler's. *)
Owns(r) == leases[handlers[r].intent] = r

InFlight == \E r \in Requests : handlers[r] # Idle /\ handlers[r].kind \in {"legacy", "subscription"}

-----------------------------------------------------------------------------
(* The ends of a handler *)

Begins(r, kind, pc, i, s, target) ==
    [pc |-> pc, kind |-> kind, intent |-> i, session |-> s, target |-> target,
     since |-> IF target = None THEN None ELSE sessions[target],
     status |-> None, bound |-> IF kind = "legacy" THEN tenant.sub ELSE None, fresh |-> TRUE, todo |-> {}]

Calls(h, pc, target) ==
    [h EXCEPT !.pc = pc, !.target = target,
              !.since = IF target = None THEN None ELSE sessions[target]]

(* What a read may answer: what the target has been since the call went out. *)
Answers(h) ==
    LET now == sessions[h.target]
    IN  {h.since, now} \cup (IF h.since = "open" /\ now = "ended" THEN {"active"} ELSE {})

Ends(r) ==
    /\ handlers' = [handlers EXCEPT ![r] = Idle]
    /\ operation' = IF operation = r THEN None ELSE operation
    /\ leases' = [i \in Intents |-> IF leases[i] = r THEN None ELSE leases[i]]

Keeps(r, h) == handlers' = [handlers EXCEPT ![r] = h] /\ UNCHANGED <<operation, leases>>

(* hosting_revision moves: every snapshot of the shop is old. *)
Outdated(h) ==
    IF h = Idle \/ h.pc = "verify" THEN h ELSE [h EXCEPT !.fresh = FALSE]

Binds(r, row) ==
    /\ tenant' = row
    /\ handlers' = [q \in Requests |->
            IF q = r THEN Idle ELSE Outdated(handlers[q])]
    /\ operation' = IF operation = r THEN None ELSE operation
    /\ leases' = [i \in Intents |-> IF leases[i] = r THEN None ELSE leases[i]]

Rest == UNCHANGED <<sessions, forgotten>>
NoRecords == UNCHANGED <<tenant, intents, removal, anomalies, receipts>>

(* A handler gives up without a write. *)
Stops(r) == Ends(r) /\ NoRecords /\ Rest

(* The row of a checkout is written and the handler is done. *)
Leaves(r, row) ==
    /\ intents' = [intents EXCEPT ![handlers[r].intent] = row]
    /\ Ends(r)
    /\ UNCHANGED <<tenant, removal, anomalies, receipts>> /\ Rest

(* execute's catch: what could not be verified is unknown, and stays open. *)
Unavailable(r, row) ==
    IF ~Owns(r) THEN Stops(r)
    ELSE Leaves(r, [row EXCEPT !.state = IF @ \in OpenStates \ {"held"} THEN "unknown" ELSE @])

\* Broken variant: a payment that cannot be bound closes its checkout.
HeldRowClosed(row) == [row EXCEPT !.state = IF @ \in OpenStates THEN "expired" ELSE @]

HeldRow(row) == [row EXCEPT !.state = IF @ \in OpenStates THEN "held" ELSE @]

(* hold with an anomaly; one that was resolved is not opened again. *)
Holds(r, row) ==
    IF ~Owns(r) THEN Stops(r)
    ELSE /\ anomalies' = [anomalies EXCEPT ![row.session] = IF @ = "none" THEN "open" ELSE @]
         /\ intents' = [intents EXCEPT ![handlers[r].intent] = HeldRow(row)]
         /\ Ends(r)
         /\ UNCHANGED <<tenant, removal, receipts>> /\ Rest

-----------------------------------------------------------------------------
(* execute: claim the row, then retrieve its session or create it.  Before   *)
(* it every handler asks Stripe for the account; all that it read until then *)
(* is read again, but whether the row was closed by a review, which is       *)
(* therefore no guard here.                                                  *)

\* Broken variant: the key's window is not looked at.
MayCreateLate(i) == intents[i].tries < MaxTries

MayCreate(i) == ~forgotten[i] /\ intents[i].tries < MaxTries

(* rows: the table as the stretch before left it. *)
Executes(r, h, i, rows) ==
    LET row == rows[i]
        known == IF h.session # None THEN h.session ELSE row.session
        claimed == [h EXCEPT !.intent = i, !.session = None, !.fresh = TRUE,
                             !.kind = IF @ = "start" THEN "reconcile" ELSE @]
        Writes(new) == intents' = [rows EXCEPT ![i] = new] /\ Ends(r)
        Waits(new, pc) ==
            /\ intents' = [rows EXCEPT ![i] = new]
            /\ handlers' = [handlers EXCEPT ![r] = Calls(claimed, pc, known)]
            /\ leases' = [leases EXCEPT ![i] = r]
            /\ operation' = IF operation = None THEN r ELSE operation
    IN  /\ UNCHANGED <<tenant, removal, anomalies, receipts>> /\ Rest
        /\ CASE leases[i] # None -> Writes(row)
             [] leases[i] = None /\ known # None ->
                    IF row.session \in {None, known} THEN Waits(row, "retrieve") ELSE Writes(row)
             [] leases[i] = None /\ known = None ->
                    IF h.kind = "expire" THEN Writes(row)
                    ELSE IF HasAnomaly \/ ~MayCreate(i) THEN Writes(HeldRow(row))
                    ELSE Waits([row EXCEPT !.state = "creating", !.tries = @ + 1], "create")

-----------------------------------------------------------------------------
(* start, reconcile, expire, and the notice of a completed checkout *)

(* The rows with a checkout for what the shop is bound to, unless one is     *)
(* still unresolved: then it is taken, if its request is the same.           *)
NewRow == [NoIntent EXCEPT !.state = "reserved", !.sub = tenant.sub, !.cust = tenant.cust]

MayReserve(fresh) ==
    /\ ~HasAnomaly /\ fresh
    /\ tenant.sub # None => tenant.status = "ended"

Reserves(r, h, fresh) ==
    IF ~MayReserve(fresh) THEN Stops(r)
    ELSE IF Unresolved # {}
    THEN \E i \in Unresolved : Executes(r, h, i, intents) \/ Stops(r)
    ELSE IF Cardinality(Used) = MaxIntents THEN Stops(r)
    ELSE LET i == Cardinality(Used) + 1
         IN  Executes(r, h, i, [intents EXCEPT ![i] = NewRow])

(* start: the row of the shop is read after the call for the account. *)
StartCheckout(r) ==
    /\ handlers[r] = Idle /\ MayOperate /\ ~HasAnomaly
    /\ IF tenant.sub = None THEN Reserves(r, Begins(r, "start", "prev", None, None, None), TRUE)
       ELSE /\ operation' = r
            /\ handlers' = [handlers EXCEPT ![r] =
                   Begins(r, "start", "prev", None, None, tenant.sub)]
            /\ UNCHANGED leases /\ NoRecords /\ Rest

(* The unresolved checkout, else the newest; with the session of a return    *)
(* address, if there is one.                                                 *)
ActOnCheckout(r, kind, s) ==
    LET i == IF Unresolved # {} THEN CHOOSE j \in Unresolved : TRUE ELSE Newest
    IN  /\ handlers[r] = Idle /\ MayOperate /\ Used # {}
        /\ s \in {None} \cup {t \in Modern : sessions[t] # "none" /\ kind = "reconcile"}
        /\ Executes(r, Begins(r, kind, "retrieve", i, s, None), i, intents)

(* The notice of a completed checkout. *)
CheckoutEvent(r, s) ==
    /\ handlers[r] = Idle /\ MayOperate
    /\ sessions[s] \in Complete
    /\ Executes(r, Begins(r, "reconcile", "retrieve", s[1], s, None), s[1], intents)

(* The subscription that the shop has: a new one only once it has ended. *)
PrevAnswered(r) ==
    LET h == handlers[r]
    IN  /\ h # Idle /\ h.pc = "prev"
        /\ \E got \in Answers(h) :
           IF ~Active(r) THEN Stops(r)
           ELSE IF got = "ended" THEN Reserves(r, h, h.fresh)
           ELSE IF h.fresh
           THEN /\ Binds(r, [tenant EXCEPT !.status = "active"])
                /\ UNCHANGED <<intents, removal, anomalies, receipts>> /\ Rest
           ELSE Stops(r)

-----------------------------------------------------------------------------
(* execute, after its calls; consume, finish *)

Unbound(row) == tenant.sub # row.sub \/ tenant.cust # row.cust

Binding(s, status) == [tenant EXCEPT !.sub = s, !.cust = CustOf(s), !.status = status]

\* Broken variant: the binding is written over whatever the shop has by now.
StillSame(h) == TRUE

(* The row of the shop is as it was when the provider was asked. *)
Unmoved(h) == h.fresh

BindsCheckout(r, row, status) ==
    IF ~Owns(r) \/ ~Unmoved(handlers[r]) THEN Unavailable(r, row)
    ELSE /\ Binds(r, Binding(row.session, status))
         /\ intents' = [intents EXCEPT ![handlers[r].intent] = [row EXCEPT !.state = "complete"]]
         /\ UNCHANGED <<removal, anomalies, receipts>> /\ Rest

Consumes(r, row, got) ==
    LET h == handlers[r]
        i == h.intent
        Left(state) == Leaves(r, [row EXCEPT !.state = state])
    IN  IF ~h.fresh THEN Unavailable(r, row)
        ELSE IF got = "expired" THEN Left("expired")
        ELSE IF got \in Complete
        THEN /\ intents' = [intents EXCEPT ![i] = row]
             /\ Keeps(r, Calls(h, "sub", row.session))
             /\ UNCHANGED <<tenant, removal, anomalies, receipts>> /\ Rest
        ELSE IF row.state \notin OpenStates \/ row.resolved THEN Leaves(r, row)
        ELSE IF HasAnomaly \/ Unbound(row) THEN Leaves(r, HeldRow(row))
        ELSE Left("open")

(* The session of a row is saved once, and is a session of that row. *)
SessionAnswered(r) ==
    LET h == handlers[r]
        i == h.intent
        row == [intents[i] EXCEPT !.session = h.target]
    IN  /\ h # Idle /\ h.pc \in {"create", "retrieve"} /\ h.target # None
        /\ \E got \in Answers(h) :
           IF ~Owns(r) \/ h.target[1] # i \/ intents[i].session \notin {None, h.target}
           THEN Stops(r)
           ELSE IF h.kind = "expire" /\ got = "open"
           THEN /\ intents' = [intents EXCEPT ![i] = row]
                /\ Keeps(r, [Calls(h, "check", h.target) EXCEPT !.kind = "reconcile"])
                /\ UNCHANGED <<tenant, removal, anomalies, receipts>> /\ Rest
           ELSE Consumes(r, row, got)

(* Whatever the expire came to: payment may have won, so the session is read. *)
CheckAnswered(r) ==
    LET h == handlers[r]
        row == intents[h.intent]
    IN  /\ h # Idle /\ h.pc = "check"
        /\ \E got \in Answers(h) :
           IF ~Owns(r) THEN Stops(r)
           ELSE IF got = "open" THEN Leaves(r, [row EXCEPT !.state = "unknown"])
           ELSE Consumes(r, row, got)

(* The shop is bound to something else than when the checkout was made. *)
Moved(row) == Unbound(row)

SubAnswered(r) ==
    LET h == handlers[r]
        row == intents[h.intent]
    IN  /\ h # Idle /\ h.pc = "sub"
        /\ \E got \in Answers(h) :
           IF ~h.fresh THEN Unavailable(r, row)
           ELSE IF row.state = "complete" /\ tenant.sub # row.session THEN Stops(r)
           ELSE IF ~CustomerMatches(row.session) THEN Holds(r, row)
           ELSE IF tenant.sub = row.session THEN BindsCheckout(r, row, got)
           ELSE IF Moved(row) THEN Holds(r, row)
           ELSE IF tenant.sub = None THEN BindsCheckout(r, row, got)
           ELSE /\ Keeps(r, [Calls(h, "previous", tenant.sub) EXCEPT !.status = got])
                /\ NoRecords /\ Rest

\* Broken variant: the answer about the older subscription is not looked at.
GivesWayAlways(previous, status) == TRUE

(* Only an ended subscription gives way, and only to one that has not ended. *)
GivesWay(previous, status) == previous = "ended" /\ status # "ended"

PreviousAnswered(r) ==
    LET h == handlers[r]
        row == intents[h.intent]
    IN  /\ h # Idle /\ h.pc = "previous"
        /\ \E got \in Answers(h) :
           IF GivesWay(got, h.status) THEN BindsCheckout(r, row, h.status) ELSE Holds(r, row)

-----------------------------------------------------------------------------
(* Notices: a checkout from before the intents, and of a subscription *)

(* The receipt of a legacy payment is pending until it is bound or under     *)
(* review; the first await follows at once.                                  *)
LegacyEvent(r, s) ==
    /\ handlers[r] = Idle /\ MayOperate /\ ~InFlight
    /\ sessions[s] \in Complete /\ CustomerMatches(s)
    /\ operation' = r
    /\ receipts' = [receipts EXCEPT ![s] = "pending"]
    /\ handlers' = [handlers EXCEPT ![r] = Begins(r, "legacy", "read", None, s, s)]
    /\ UNCHANGED <<tenant, intents, leases, removal, anomalies>> /\ Rest

Cleared(s) == receipts' = [receipts EXCEPT ![s] = "cleared"]

Applies(r, s, status) ==
    IF ~Unmoved(handlers[r]) \/ ~CustomerMatches(s) THEN Stops(r)
    ELSE /\ Binds(r, Binding(s, status))
         /\ Cleared(s)
         /\ UNCHANGED <<intents, removal, anomalies>> /\ Rest

LegacyAnswered(r) ==
    LET h == handlers[r]
    IN  /\ h # Idle /\ h.pc = "read" /\ h.kind = "legacy"
        /\ \E got \in Answers(h) :
           IF ~Active(r) THEN Stops(r)
           ELSE IF h.bound \in {None, h.session} THEN Applies(r, h.session, got)
           ELSE /\ Keeps(r, [Calls(h, "before", h.bound) EXCEPT !.status = got])
                /\ NoRecords /\ Rest

LegacyPrevAnswered(r) ==
    LET h == handlers[r]
    IN  /\ h # Idle /\ h.pc = "before"
        /\ \E got \in Answers(h) :
           IF ~Active(r) THEN Stops(r)
           ELSE IF GivesWay(got, h.status) THEN Applies(r, h.session, h.status)
           ELSE /\ anomalies' = [anomalies EXCEPT ![h.session] = IF @ = "none" THEN "open" ELSE @]
                /\ Cleared(h.session)
                /\ Ends(r)
                /\ UNCHANGED <<tenant, intents, removal>> /\ Rest

(* customer.subscription.*, invoice.payment_failed: only of what is bound. *)
SubscriptionEvent(r, s) ==
    /\ handlers[r] = Idle /\ MayOperate /\ ~InFlight
    /\ tenant.sub = s
    /\ operation' = r
    /\ handlers' = [handlers EXCEPT ![r] = Begins(r, "subscription", "read", None, s, s)]
    /\ UNCHANGED leases /\ NoRecords /\ Rest

(* Not the notice, the subscription as it is now says what to write. *)
SubscriptionAnswered(r) ==
    LET h == handlers[r]
    IN  /\ h # Idle /\ h.pc = "read" /\ h.kind = "subscription"
        /\ \E got \in Answers(h) :
           IF ~Active(r) \/ ~Unmoved(h) THEN Stops(r)
           ELSE /\ Binds(r, [tenant EXCEPT !.status = got])
                /\ UNCHANGED <<intents, removal, anomalies, receipts>> /\ Rest

-----------------------------------------------------------------------------
(* The review of an anomaly *)

(* resolveAnomaly takes no lease. *)
ResolveAnomaly(r, s) ==
    /\ handlers[r] = Idle /\ tenant.here
    /\ anomalies[s] = "open"
    /\ handlers' = [handlers EXCEPT ![r] = Begins(r, "resolve", "judge", None, s, s)]
    /\ UNCHANGED <<operation, leases>> /\ NoRecords /\ Rest

(* What Stripe says of the session closes the item: it expired, its          *)
(* subscription ended, or that is the one the shop is bound to.              *)
Harmless(s, got) == got \in {"expired", "ended"} \/ (got = "active" /\ tenant.sub = s)

ResolveAnswered(r) ==
    LET h == handlers[r]
        s == h.session
        closes == {i \in Intents : intents[i].session = s /\ intents[i].state \in OpenStates}
    IN  /\ h # Idle /\ h.pc = "judge"
        /\ \E got \in Answers(h) :
           IF h.fresh /\ Harmless(s, got) /\ \A i \in closes : leases[i] = None
           THEN /\ anomalies' = [anomalies EXCEPT ![s] = "resolved"]
                /\ intents' = [i \in Intents |->
                        IF i \in closes THEN [intents[i] EXCEPT !.resolved = TRUE] ELSE intents[i]]
                /\ Ends(r)
                /\ UNCHANGED <<tenant, removal, receipts>> /\ Rest
           ELSE Stops(r)

-----------------------------------------------------------------------------
(* The removal of the shop *)

Blocked ==
    \/ Unresolved # {}
    \/ \E s \in Sessions : anomalies[s] = "open"
    \/ \E i \in Intents : leases[i] # None
    \/ operation # None

Pending == {s \in Legacy : receipts[s] = "pending"}

\* Broken variant: what was paid for and never bound is not asked about.
LiabilitiesBound == {tenant.sub} \ {None}

(* Every subscription that the shop's records know of. *)
Liabilities ==
    ({tenant.sub}
     \cup {intents[i].session : i \in {j \in Intents : intents[j].state = "complete"}}
     \cup {intents[i].sub : i \in Used}
     \cup {s \in Sessions : anomalies[s] # "none"}
     \cup Pending) \ {None}

Billed == tenant.sub # None \/ tenant.cust # None \/ Liabilities # {}

Digest == <<tenant, intents, anomalies, receipts>>

(* deleteTenantInternal: the registry rows and the tombstone in one transaction. *)
Removes(r) ==
    /\ tenant' = [tenant EXCEPT !.here = FALSE]
    /\ removal' = [state |-> "deleted", by |-> None, digest |-> None]
    /\ receipts' = [s \in Legacy |-> IF receipts[s] = "pending" THEN "cleared" ELSE receipts[s]]
    /\ handlers' = [q \in Requests |->
            IF q = r THEN Idle ELSE Outdated(handlers[q])]
    /\ UNCHANGED <<intents, leases, operation, anomalies>> /\ Rest

(* A shop without hosting history goes at once. *)
RemoveUnbilled(r) ==
    /\ handlers[r] = Idle /\ tenant.here /\ ~Blocked /\ ~Checking /\ ~Billed
    /\ Removes(r)

Fails == removal' = NoRemoval

RemoveBilled(r) ==
    /\ handlers[r] = Idle /\ tenant.here /\ ~Blocked /\ ~Checking /\ Billed
    /\ IF Liabilities = {}
       THEN Fails /\ UNCHANGED handlers
       ELSE /\ removal' = [state |-> "checking", by |-> r, digest |-> Digest]
            /\ \E s \in Liabilities : handlers' = [handlers EXCEPT ![r] =
                  [Begins(r, "remove", "verify", None, None, s) EXCEPT !.todo = Liabilities]]
    /\ UNCHANGED <<tenant, intents, leases, operation, anomalies, receipts>> /\ Rest

(* assertCurrent *)
Certain(r) == removal.state = "checking" /\ removal.by = r /\ removal.digest = Digest

VerifyAnswered(r) ==
    LET h == handlers[r]
        todo == h.todo \ {h.target}
        gone == Ends(r) /\ UNCHANGED <<tenant, intents, anomalies, receipts>> /\ Rest
    IN  /\ h # Idle /\ h.pc = "verify"
        /\ \E got \in Answers(h) :
           IF ~Certain(r) \/ got # "ended"
           THEN gone /\ (IF removal.by = r THEN Fails ELSE UNCHANGED removal)
           ELSE IF todo # {}
           THEN /\ \E s \in todo : Keeps(r, [Calls(h, "verify", s) EXCEPT !.todo = todo])
                /\ NoRecords /\ Rest
           ELSE IF Blocked THEN gone /\ Fails
           ELSE Removes(r)

-----------------------------------------------------------------------------
(* Calls that fail, handlers that die, leases that run out *)

CallFails(r) ==
    LET h == handlers[r]
    IN  /\ h # Idle
        /\ CASE h.pc \in {"create", "retrieve", "check", "sub", "previous"} ->
                    Unavailable(r, intents[h.intent])
             [] h.pc = "verify" ->
                    /\ Ends(r)
                    /\ IF removal.by = r THEN Fails ELSE UNCHANGED removal
                    /\ UNCHANGED <<tenant, intents, anomalies, receipts>> /\ Rest
             [] OTHER -> Stops(r)

(* The process dies; what its handlers held runs out before anyone is let in. *)
Crash ==
    /\ \E r \in Requests : handlers[r] # Idle
    /\ handlers' = [r \in Requests |-> Idle]
    /\ operation' = None
    /\ leases' = [i \in Intents |-> None]
    /\ removal' = IF Checking THEN NoRemoval ELSE removal
    /\ UNCHANGED <<tenant, intents, anomalies, receipts>> /\ Rest

(* An operation's lease is taken before the row's and is as long. *)
OperationLapses ==
    /\ operation # None
    /\ operation' = None
    /\ UNCHANGED <<leases, handlers>> /\ NoRecords /\ Rest

LeaseLapses(i) ==
    /\ leases[i] # None /\ leases[i] # operation
    /\ leases' = [leases EXCEPT ![i] = None]
    /\ UNCHANGED <<operation, handlers>> /\ NoRecords /\ Rest

RemovalLapses ==
    /\ Checking
    /\ removal' = NoRemoval
    /\ UNCHANGED <<tenant, intents, leases, operation, anomalies, receipts, handlers>> /\ Rest

-----------------------------------------------------------------------------
(* External: Stripe, and whoever pays *)

Untouched == UNCHANGED <<tenant, intents, leases, operation, removal, anomalies, receipts>>

(* A create is recognised by its key, as long as Stripe remembers it. *)
StripeCreates(r) ==
    LET h == handlers[r]
        i == h.intent
        made == {s \in Modern : s[1] = i /\ sessions[s] # "none"}
        new == <<i, Cardinality(made) + 1>>
        again == made # {} /\ ~forgotten[i]
        s == IF again THEN CHOOSE t \in made : \A u \in made : u[2] <= t[2] ELSE new
    IN  /\ h # Idle /\ h.pc = "create" /\ h.target = None
        /\ new \in Modern \/ again
        /\ sessions' = IF again THEN sessions ELSE [sessions EXCEPT ![s] = "open"]
        /\ handlers' = [handlers EXCEPT ![r].target = s, ![r].since = sessions'[s]]
        /\ UNCHANGED forgotten /\ Untouched

Turns(s, from, to) ==
    /\ sessions[s] = from
    /\ sessions' = [sessions EXCEPT ![s] = to]
    /\ UNCHANGED <<handlers, forgotten>> /\ Untouched

(* It expires on its own, or because a call asked for it. *)
SessionExpires(s) == s \in Modern /\ Turns(s, "open", "expired")
CustomerPays(s) == Turns(s, "open", "active")
SubscriptionEnds(s) == Turns(s, "active", "ended")

(* The code looks for 23 hours, Stripe remembers for 24, a call is shorter. *)
KeyRunsOut(i) ==
    /\ intents[i].tries > 0 /\ intents[i].session = None /\ ~forgotten[i]
    /\ \A r \in Requests :
           handlers[r] # Idle /\ handlers[r].pc = "create" => handlers[r].intent # i
    /\ forgotten' = [forgotten EXCEPT ![i] = TRUE]
    /\ UNCHANGED <<sessions, handlers>> /\ Untouched

-----------------------------------------------------------------------------
Handle(r) ==
    \/ StartCheckout(r)
    \/ \E kind \in {"reconcile", "expire"}, s \in Modern \cup {None} : ActOnCheckout(r, kind, s)
    \/ \E s \in Modern : CheckoutEvent(r, s)
    \/ \E s \in Legacy : LegacyEvent(r, s)
    \/ \E s \in Sessions : SubscriptionEvent(r, s) \/ ResolveAnomaly(r, s)
    \/ RemoveUnbilled(r) \/ RemoveBilled(r)

Return(r) ==
    \/ PrevAnswered(r) \/ SessionAnswered(r) \/ CheckAnswered(r)
    \/ SubAnswered(r) \/ PreviousAnswered(r)
    \/ LegacyAnswered(r) \/ LegacyPrevAnswered(r) \/ SubscriptionAnswered(r)
    \/ ResolveAnswered(r) \/ VerifyAnswered(r)
    \/ CallFails(r)

Outside ==
    \/ \E r \in Requests : StripeCreates(r)
    \/ \E s \in Sessions : SessionExpires(s) \/ CustomerPays(s) \/ SubscriptionEnds(s)
    \/ \E i \in Intents : KeyRunsOut(i) \/ LeaseLapses(i)
    \/ OperationLapses \/ RemovalLapses \/ Crash

Next == (\E r \in Requests : Handle(r) \/ Return(r)) \/ Outside

Spec == Init /\ [][Next]_vars
=============================================================================
