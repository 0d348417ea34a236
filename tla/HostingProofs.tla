---------------------------- MODULE HostingProofs ----------------------------
(* Theorems of Hosting, for every number of handlers, checkouts and older    *)
(* payments.                                                                 *)
EXTENDS HostingPromises, FiniteSetTheorems, TLAPS

Calling == {"create", "retrieve", "check", "sub", "previous"}

First(i) == <<i, 1>>

(* Nobody can pay the checkout any more. *)
Settled(i) == sessions[First(i)] \in {"expired", "active", "ended"}

(* What a handler that goes on knows of the shop as long as its snapshot is  *)
(* the current one                                                           *)
Current(h) ==
    /\ h.pc # "verify" => tenant.here
    /\ h.pc = "previous" => tenant.sub = h.target /\ h.target # intents[h.intent].session
    /\ h.pc = "prev" => tenant.sub = h.target
    /\ h.kind = "legacy" => tenant.sub = h.bound
    /\ h.kind = "subscription" => tenant.sub = h.target
    /\ h.pc \in {"prev", "sub", "read"} /\ h.target = tenant.sub /\ tenant.status = "ended"
           => h.since = "ended"

(* What a handler at an await relies on, whatever becomes of the shop *)
Stays(h) ==
    /\ h.pc \in Calling => h.intent \in Used
    /\ h.pc \in Calling \cup {"prev"} => h.kind \in {"start", "reconcile", "expire"}
    /\ h.pc # "create" => h.target # None
    /\ h.target # None /\ h.since \in {"expired", "ended"} => sessions[h.target] = h.since
    /\ h.target # None /\ h.since = "active" => sessions[h.target] \in Complete
    /\ h.pc \in {"sub", "read"} => h.since \in Complete
    /\ h.pc \in {"previous", "before"} => h.status \in Complete
    /\ h.pc = "create" => ~forgotten[h.intent]
    /\ h.kind \in {"start", "reconcile", "expire"} => h.session \notin Legacy
    /\ h.pc \in {"create", "retrieve"} => h.target \notin Legacy
    /\ h.pc \in {"check", "sub", "previous"} => intents[h.intent].session # None
    /\ h.pc \in {"check", "sub"} => h.target = intents[h.intent].session
    /\ h.pc \in {"sub", "previous"} => sessions[intents[h.intent].session] \in Complete
    /\ h.pc \in {"read", "judge"} => h.target = h.session
    /\ h.pc = "judge" => anomalies[h.session] # "none"
    /\ h.pc = "verify" => h.kind = "remove"
    /\ h.pc \in {"read", "before"} => h.kind \in {"legacy", "subscription"}
    /\ h.kind = "legacy" => /\ h.pc \in {"read", "before"}
                            /\ h.session \in Legacy /\ sessions[h.session] \in Complete
    /\ h.kind = "subscription" => h.pc = "read"
    /\ h.pc = "before" => h.kind = "legacy" /\ h.target = h.bound /\ h.bound # h.session

Fits(h) == Stays(h) /\ (h.fresh => Current(h))

HandlersFit == \A r \in Requests, h \in Handler : handlers[r] = h => Fits(h)

RowsNumbered == \E n \in 0..MaxIntents : Used = 1..n

OwnSession == \A i \in Intents : intents[i].session # None => intents[i].session[1] = i

KeysHold ==
    \A i \in Intents :
        sessions[<<i, 2>>] = "none" /\ (sessions[First(i)] # "none" => i \in Used)

ClosedSettled == \A i \in Used \ Unresolved : intents[i].session = First(i) /\ Settled(i)

OneUnsettled == \A i, j \in Used : ~Settled(i) /\ ~Settled(j) => i = j

BoundTrue ==
    tenant.sub # None =>
        /\ sessions[tenant.sub] \in Complete
        /\ tenant.status = "ended" => sessions[tenant.sub] = "ended"

LegacyPaid ==
    \A s \in Legacy : receipts[s] # "none" \/ anomalies[s] # "none" => sessions[s] \in Complete

LegacyKnown ==
    tenant.here => \A s \in Legacy :
        receipts[s] = "cleared" /\ sessions[s] = "active" => tenant.sub = s \/ anomalies[s] # "none"

(* Every subscription that the records of a digest know of *)
Owed(digest) ==
    ({digest[1].sub}
     \cup {digest[2][i].session : i \in {j \in Intents : digest[2][j].state = "complete"}}
     \cup {digest[2][i].sub : i \in {j \in Intents : digest[2][j].state # "none"}}
     \cup {s \in Sessions : digest[3][s] # "none"}
     \cup {s \in Legacy : digest[4][s] = "pending"}) \ {None}

(* The removal has seen the end of every one it need not ask about any more. *)
Verified ==
    \A r \in Requests :
        Checking /\ removal.by = r /\ handlers[r] # Idle /\ handlers[r].pc = "verify" =>
            /\ handlers[r].target \in handlers[r].todo
            /\ \A s \in Sessions : s \in Owed(removal.digest) \ handlers[r].todo => sessions[s] = "ended"

Gone ==
    ~tenant.here =>
        /\ removal.state = "deleted" /\ removal.by = None
        /\ \A i \in Used : sessions[First(i)] \in {"expired", "ended"}
        /\ \A s \in Legacy : sessions[s] = "active" =>
               tenant.sub # s /\ receipts[s] = "none" /\ anomalies[s] = "none"

Books ==
    /\ RowsNumbered /\ OwnSession /\ KeysHold /\ ClosedSettled /\ OneUnsettled
    /\ RunningIsKnown /\ BoundTrue /\ LegacyPaid /\ LegacyKnown /\ Gone

IInv == TypeOK /\ Books /\ HandlersFit /\ Verified

-----------------------------------------------------------------------------
(* Sessions and answers *)

LEMMA SessionFacts ==
    /\ None \notin Sessions /\ None \notin Intents /\ None \notin Requests
    /\ Modern \subseteq Sessions /\ Legacy \subseteq Sessions
    /\ \A s \in Legacy : s \notin Modern
    /\ \A i \in Intents : First(i) \in Modern /\ <<i, 2>> \in Modern
    /\ \A s \in Modern : s[1] \in Intents /\ (s = First(s[1]) \/ s = <<s[1], 2>>)
BY HostingAssumption, SessionsAssumption DEF Modern, Sessions, First, Intents

(* An answer that says how a session ended is true of it now.                *)
LEMMA AnswersHold ==
    ASSUME NEW h, h.target # None,
           h.since \in {"expired", "ended"} => sessions[h.target] = h.since,
           h.since = "active" => sessions[h.target] \in Complete,
           h.since \in SessionStates \cup {None},
           sessions[h.target] \in SessionStates,
           NEW got \in Answers(h)
    PROVE  /\ got \in SessionStates \cup {None}
           /\ got = "expired" => sessions[h.target] = "expired"
           /\ got = "ended" => sessions[h.target] = "ended"
           /\ got \in Complete => sessions[h.target] \in Complete
           /\ h.since = "ended" => got = "ended"
BY DEF Answers, Complete, SessionStates

-----------------------------------------------------------------------------
(* What a handler may do to the records without a new checkout or a removal  *)

(* A row gets its session once, its own; it is closed only when nobody can   *)
(* pay it, and when it has become a subscription, that one is bound (sub).   *)
RowStep(i, row, sub) ==
    /\ i \in Used /\ row \in Intent /\ row.state # "none"
    /\ \/ row.session = intents[i].session
       \/ intents[i].session = None /\ row.session # None /\ row.session[1] = i
    /\ row.state \notin OpenStates \/ row.resolved =>
           /\ row.session = First(i) /\ Settled(i)
           /\ sessions[First(i)] = "active" /\ i \in Unresolved => sub = First(i)

(* What the shop is bound to gives way only when it has ended, and what was  *)
(* written of its end stays.                                                 *)
TenantStep ==
    tenant.sub # None =>
        /\ tenant'.sub # tenant.sub => sessions[tenant.sub] = "ended"
        /\ tenant'.sub = tenant.sub /\ tenant.status = "ended" => tenant'.status = "ended"

(* What is shown of every action *)
Preserved == IInv' /\ TenantStep

(* The shop is bound to a checkout that was paid, and gives up only what has *)
(* ended.                                                                    *)
BindStep ==
    /\ tenant.here /\ tenant' \in Tenant /\ tenant'.here
    /\ tenant'.sub # None /\ sessions[tenant'.sub] \in Complete
    /\ tenant'.status = "ended" => sessions[tenant'.sub] = "ended"
    /\ TenantStep

AnomalyStep(s) ==
    \/ anomalies'[s] = anomalies[s]
    \/ /\ anomalies[s] = "none" /\ anomalies'[s] = "open"
       /\ s \in Legacy => sessions[s] \in Complete /\ tenant.here
    \/ /\ anomalies[s] = "open" /\ anomalies'[s] = "resolved"
       /\ sessions[s] = "active" => tenant'.sub = s

ReceiptStep(s) ==
    \/ receipts'[s] = receipts[s]
    \/ /\ tenant.here /\ sessions[s] \in Complete
       /\ \/ receipts'[s] = "pending"
          \/ receipts'[s] = "cleared" /\ (tenant'.sub = s \/ anomalies'[s] # "none")

Moves ==
    /\ sessions' = sessions
    /\ tenant' = tenant \/ BindStep
    /\ \A i \in Intents : intents'[i] = intents[i] \/ RowStep(i, intents'[i], tenant'.sub)
    /\ \A s \in Sessions : AnomalyStep(s)
    /\ \A s \in Legacy : ReceiptStep(s)
    /\ removal' = removal \/ tenant.here

LEMMA MovesUsed ==
    ASSUME Moves
    PROVE  /\ Used' = Used /\ Used \subseteq Intents
           /\ \A i \in Intents :
                  intents[i].session # None => intents'[i].session = intents[i].session
<1>1. \A i \in Intents : intents'[i].state # "none" <=> intents[i].state # "none"
  BY DEF Moves, RowStep, Used
<1>2. Used' = Used
  BY <1>1 DEF Used
<1>3. \A i \in Intents : intents[i].session # None => intents'[i].session = intents[i].session
  BY DEF Moves, RowStep
<1> QED
  BY <1>2, <1>3 DEF Used

LEMMA BooksKept ==
    ASSUME IInv, TypeOK', Moves
    PROVE  Books'
<1>1. /\ Used' = Used /\ Used \subseteq Intents
      /\ sessions' = sessions
      /\ \A i \in Intents : intents'[i] = intents[i] \/ RowStep(i, intents'[i], tenant'.sub)
      /\ \A i \in Intents : Settled(i)' <=> Settled(i)
  BY MovesUsed DEF Moves, Used, Settled
<1>2. tenant'.here = tenant.here
  BY DEF Moves, BindStep, IInv, TypeOK, Tenant
<1>3. RowsNumbered' /\ OneUnsettled' /\ KeysHold'
  BY <1>1 DEF IInv, Books, RowsNumbered, OneUnsettled, KeysHold
<1>4. OwnSession'
  BY <1>1 DEF IInv, Books, OwnSession, RowStep
<1>5. ClosedSettled'
  <2> SUFFICES ASSUME NEW i \in Used, i \notin Unresolved'
               PROVE  intents'[i].session = First(i) /\ Settled(i)
    BY <1>1 DEF ClosedSettled
  <2>1. intents'[i].state \notin OpenStates \/ intents'[i].resolved
    BY <1>1 DEF Unresolved
  <2>2. CASE intents'[i] = intents[i]
    BY <1>1, <2>1, <2>2 DEF IInv, Books, ClosedSettled, Unresolved
  <2>3. CASE RowStep(i, intents'[i], tenant'.sub)
    BY <2>1, <2>3 DEF RowStep
  <2> QED
    BY <1>1, <2>2, <2>3
<1>6. RunningIsKnown'
  <2> SUFFICES ASSUME NEW s \in Modern, sessions[s] = "active", tenant'.sub # s,
                      s[1] \notin Unresolved'
               PROVE  anomalies'[s] = "open"
    BY <1>1 DEF RunningIsKnown
  <2>1. s = First(s[1]) /\ s[1] \in Intents /\ s[1] \in Used /\ s \in Sessions
    BY SessionFacts DEF IInv, Books, KeysHold
  <2>2. tenant.sub # s
    <3>1. CASE tenant' = tenant
      BY <3>1
    <3>2. CASE BindStep
      BY <2>1, <3>2, SessionFacts DEF BindStep, TenantStep
    <3> QED
      BY <3>1, <3>2 DEF Moves
  <2>3. s[1] \notin Unresolved
    <3> SUFFICES ASSUME s[1] \in Unresolved PROVE FALSE
      OBVIOUS
    <3>1. CASE intents'[s[1]] = intents[s[1]]
      BY <2>1, <3>1 DEF Unresolved
    <3>2. CASE RowStep(s[1], intents'[s[1]], tenant'.sub)
      BY <2>1, <3>2 DEF RowStep, Unresolved
    <3> QED
      BY <1>1, <2>1, <3>1, <3>2
  <2>4. anomalies[s] = "open"
    BY <2>2, <2>3 DEF IInv, Books, RunningIsKnown
  <2> QED
    BY <2>1, <2>4 DEF Moves, AnomalyStep
<1>7. BoundTrue'
  BY <1>1 DEF IInv, Books, BoundTrue, Moves, BindStep
<1>8. LegacyPaid'
  BY <1>1, SessionFacts DEF IInv, Books, LegacyPaid, Moves, AnomalyStep, ReceiptStep
<1>9. LegacyKnown'
  <2> SUFFICES ASSUME tenant.here, NEW s \in Legacy, receipts'[s] = "cleared",
                      sessions[s] = "active", tenant'.sub # s
               PROVE  anomalies'[s] # "none"
    BY <1>1, <1>2 DEF LegacyKnown
  <2>1. AnomalyStep(s) /\ ReceiptStep(s)
    BY SessionFacts DEF Moves
  <2>2. CASE receipts'[s] = receipts[s]
    <3>1. tenant.sub # s
      BY SessionFacts DEF Moves, BindStep, TenantStep
    <3>2. anomalies[s] # "none"
      BY <2>2, <3>1 DEF IInv, Books, LegacyKnown
    <3> QED
      BY <2>1, <3>2 DEF AnomalyStep
  <2>3. CASE receipts'[s] # receipts[s]
    BY <2>1, <2>3 DEF ReceiptStep
  <2> QED
    BY <2>2, <2>3
<1>10. Gone'
  BY <1>1, <1>2, SessionFacts DEF IInv, Books, Gone, Moves, BindStep, AnomalyStep, ReceiptStep
<1> QED
  BY <1>3, <1>4, <1>5, <1>6, <1>7, <1>8, <1>9, <1>10 DEF Books

-----------------------------------------------------------------------------
(* The other handlers while one takes a step *)

(* Sessions end for good, rows keep their sessions. *)
Grows ==
    /\ \A s \in Sessions :
           /\ sessions[s] \in {"expired", "ended"} => sessions'[s] = sessions[s]
           /\ sessions[s] \in Complete => sessions'[s] \in Complete
           /\ anomalies[s] # "none" => anomalies'[s] # "none"
    /\ \A i \in Used :
           /\ i \in Used'
           /\ intents[i].session # None => intents'[i].session = intents[i].session

LEMMA HandlerParts ==
    ASSUME NEW h \in Handler
    PROVE  /\ h.pc \in Awaits /\ h.kind \in Kinds /\ h.intent \in Intents \cup {None}
           /\ h.session \in Sessions \cup {None} /\ h.target \in Sessions \cup {None}
           /\ h.since \in SessionStates \cup {None} /\ h.status \in SessionStates \cup {None}
           /\ h.bound \in Sessions \cup {None} /\ h.fresh \in BOOLEAN
           /\ h.todo \in SUBSET Sessions /\ h # Idle
BY DEF Handler, Idle, Awaits

LEMMA StaysKept ==
    ASSUME TypeOK, TypeOK', Grows, NEW h \in Handler, Stays(h),
           h.pc = "create" => forgotten'[h.intent] = forgotten[h.intent]
    PROVE  Stays(h)'
<1>1. /\ h.intent \in Intents \cup {None} /\ h.session \in Sessions \cup {None}
      /\ h.target \in Sessions \cup {None}
  BY HandlerParts
<1>2. Used \subseteq Intents /\ Legacy \subseteq Sessions
  BY SessionFacts DEF Used
<1>3. h.pc \in {"check", "sub", "previous"} =>
          /\ h.intent \in Used
          /\ intents[h.intent].session \in Sessions
          /\ intents'[h.intent].session = intents[h.intent].session
          /\ h.pc # "check" => sessions'[intents[h.intent].session] \in Complete
  BY <1>1, <1>2, SessionFacts DEF Stays, Calling, TypeOK, Intent, Grows
<1>4. h.target # None /\ h.since \in {"expired", "ended"} => sessions'[h.target] = h.since
  BY <1>1 DEF Stays, Grows
<1>5. h.target # None /\ h.since = "active" => sessions'[h.target] \in Complete
  BY <1>1 DEF Stays, Grows
<1>6. h.kind = "legacy" => sessions'[h.session] \in Complete
  BY <1>1, <1>2 DEF Stays, Grows
<1>7. h.pc \in Calling => h.intent \in Used'
  BY DEF Stays, Grows
<1>8. h.pc = "judge" => anomalies'[h.session] # "none"
  BY <1>1 DEF Stays, Grows
<1> QED
  BY <1>3, <1>4, <1>5, <1>6, <1>7, <1>8 DEF Stays

LEMMA FitsKept ==
    ASSUME TypeOK, TypeOK', Grows, tenant' = tenant, NEW h \in Handler, Fits(h),
           h.pc = "create" => forgotten'[h.intent] = forgotten[h.intent]
    PROVE  Fits(h)'
<1>1. Stays(h) /\ (h.fresh => Current(h))
  BY DEF Fits
<1>2. Stays(h)'
  BY <1>1, StaysKept
<1>3. h.pc = "previous" => intents'[h.intent].session = intents[h.intent].session
  BY <1>1, HandlerParts DEF Stays, Calling, Used, Grows
<1>4. h.fresh => Current(h)'
  BY <1>1, <1>3 DEF Current
<1> QED
  BY <1>2, <1>4 DEF Fits

Aged(h) == [h EXCEPT !.fresh = FALSE]

LEMMA AgedParts ==
    ASSUME NEW h \in Handler
    PROVE  /\ Aged(h) \in Handler /\ ~Aged(h).fresh
           /\ Aged(h).pc = h.pc /\ Aged(h).kind = h.kind /\ Aged(h).intent = h.intent
           /\ Aged(h).session = h.session /\ Aged(h).target = h.target
           /\ Aged(h).since = h.since /\ Aged(h).bound = h.bound
           /\ Aged(h).todo = h.todo /\ Aged(h).status = h.status
BY DEF Aged, Handler

LEMMA OutdatedFits ==
    ASSUME TypeOK, TypeOK', Grows, NEW h \in Handler, Fits(h), forgotten' = forgotten
    PROVE  /\ Outdated(h) \in Handler /\ Fits(Outdated(h))'
           /\ Outdated(h).pc = h.pc
           /\ h.pc = "verify" => Outdated(h) = h
<1>1. Stays(h)'
  BY StaysKept DEF Fits, Stays
<1>2. h # Idle
  BY HandlerParts
<1>3. CASE h.pc = "verify"
  <2>1. Outdated(h) = h
    BY <1>3 DEF Outdated
  <2>2. Fits(h)'
    BY <1>1, <1>3 DEF Fits, Stays, Current
  <2> QED
    BY <2>1, <2>2
<1>4. CASE h.pc # "verify"
  <2>1. Outdated(h) = Aged(h)
    BY <1>2, <1>4 DEF Outdated, Aged
  <2> PICK g : g = Aged(h)
    OBVIOUS
  <2>2. Fits(g)'
    BY <1>1, AgedParts DEF Fits, Stays
  <2> QED
    BY <1>4, <2>1, <2>2, AgedParts
<1> QED
  BY <1>3, <1>4

Passes(r) ==
    /\ \A q \in Requests \ {r} :
           handlers'[q] = handlers[q] \/ handlers'[q] = Outdated(handlers[q])
    /\ \/ tenant' = tenant
       \/ \A q \in Requests \ {r} : handlers'[q] = Outdated(handlers[q])

(* A removal that is checked has seen the end of all that h need not ask of. *)
Checks(h) ==
    /\ h.target \in h.todo
    /\ \A s \in Sessions : s \in Owed(removal.digest) \ h.todo => sessions[s] = "ended"

(* The handler that took the step is done, or can go on. *)
Goes(r) ==
    \/ handlers'[r] = Idle
    \/ \E h \in Handler :
           /\ handlers'[r] = h /\ Fits(h)'
           /\ h.pc = "verify" /\ removal'.state = "checking" /\ removal'.by = r => Checks(h)'

LEMMA PassesFit ==
    ASSUME IInv, TypeOK', Grows, forgotten' = forgotten, NEW r \in Requests, Passes(r), Goes(r),
           removal' = removal \/ removal'.state # "checking" \/ removal'.by = r
    PROVE  HandlersFit' /\ Verified'
<1>1. ASSUME NEW q \in Requests, q # r, NEW g \in Handler, handlers'[q] = g
      PROVE  handlers[q] # Idle /\ Fits(g)' /\ (g.pc = "verify" => handlers[q] = g)
  <2>1. handlers[q] # Idle
    BY <1>1, HandlerParts DEF Passes, Outdated
  <2> PICK h \in Handler : h = handlers[q]
    BY <2>1 DEF IInv, TypeOK
  <2>2. Fits(h)
    BY DEF IInv, HandlersFit
  <2>3. CASE g = Outdated(h)
    <3>1. /\ Fits(Outdated(h))' /\ Outdated(h).pc = h.pc
          /\ h.pc = "verify" => Outdated(h) = h
      BY <2>2, OutdatedFits DEF IInv
    <3> QED
      BY <2>1, <2>3, <3>1
  <2>4. CASE g = h /\ tenant' = tenant
    BY <2>1, <2>2, <2>4, FitsKept DEF IInv
  <2> QED
    BY <1>1, <2>3, <2>4 DEF Passes
<1>2. \A h \in Handler : handlers'[r] = h => Fits(h)'
  BY HandlerParts DEF Goes
<1>3. HandlersFit'
  BY <1>1, <1>2 DEF HandlersFit
<1>4. Verified'
  <2> SUFFICES ASSUME NEW q \in Requests, removal'.state = "checking", removal'.by = q,
                      handlers'[q] # Idle, handlers'[q].pc = "verify"
               PROVE  /\ handlers'[q].target \in handlers'[q].todo
                      /\ \A s \in Sessions : s \in Owed(removal'.digest) \ handlers'[q].todo => sessions'[s] = "ended"
    BY DEF Verified, Checking
  <2>1. CASE q = r
    BY <2>1 DEF Goes, Checks
  <2>2. CASE q # r
    <3> PICK g \in Handler : g = handlers'[q]
      BY DEF TypeOK
    <3>1. handlers[q] # Idle /\ handlers'[q] = handlers[q] /\ removal' = removal
      BY <1>1, <2>2
    <3>2. /\ handlers[q].target \in handlers[q].todo
          /\ \A s \in Sessions : s \in Owed(removal.digest) \ handlers[q].todo => sessions[s] = "ended"
      BY <3>1 DEF IInv, Verified, Checking
    <3>3. \A s \in Sessions : sessions[s] = "ended" => sessions'[s] = "ended"
      BY DEF Grows
    <3> QED
      BY <3>1, <3>2, <3>3
  <2> QED
    BY <2>1, <2>2
<1> QED
  BY <1>3, <1>4

LEMMA StepKeeps ==
    ASSUME IInv, TypeOK', Moves, forgotten' = forgotten, NEW r \in Requests, Passes(r), Goes(r),
           removal' = removal \/ removal'.state # "checking" \/ removal'.by = r
    PROVE  Preserved
<1>1. Grows
  BY MovesUsed DEF Grows, Moves, AnomalyStep
<1>2. TenantStep
  BY DEF Moves, BindStep, TenantStep
<1> QED
  BY <1>1, <1>2, BooksKept, PassesFit DEF IInv, Preserved

-----------------------------------------------------------------------------
(* The ends of a handler *)

LEMMA EndsStep ==
    ASSUME IInv, NEW r \in Requests, Ends(r), tenant' = tenant
    PROVE  /\ handlers' \in [Requests -> Handler \cup {Idle}]
           /\ operation' \in Requests \cup {None}
           /\ leases' \in [Intents -> Requests \cup {None}]
           /\ Passes(r) /\ Goes(r)
BY DEF Ends, IInv, TypeOK, Passes, Goes

LEMMA StopsKeeps ==
    ASSUME IInv, NEW r \in Requests, Stops(r)
    PROVE  Preserved
<1>1. /\ Ends(r) /\ UNCHANGED <<tenant, intents, removal, anomalies, receipts, sessions, forgotten>>
  BY DEF Stops, NoRecords, Rest
<1>2. TypeOK'
  BY <1>1, EndsStep DEF IInv, TypeOK
<1>3. Moves
  BY <1>1 DEF Moves, AnomalyStep, ReceiptStep
<1> QED
  BY <1>1, <1>2, <1>3, EndsStep, StepKeeps

(* The row that there is, as it is or with the session that it gets *)
LEMMA OldRow ==
    ASSUME IInv, NEW i \in Used
    PROVE  RowStep(i, intents[i], tenant.sub)
BY DEF IInv, TypeOK, Books, ClosedSettled, Unresolved, RowStep, Used

WithSession(row, s) == [row EXCEPT !.session = s]
WithState(row, state) == [row EXCEPT !.state = state]

LEMMA RowParts ==
    ASSUME NEW row \in Intent
    PROVE  /\ row.state \in OpenStates \cup {"none", "complete", "expired"}
           /\ row.session \in Modern \cup {None} /\ row.sub \in Sessions \cup {None}
           /\ row.cust \in Sessions \cup {Customer, None} /\ row.tries \in 0..MaxTries
           /\ row.resolved \in BOOLEAN
BY DEF Intent

LEMMA WithSessionParts ==
    ASSUME NEW row \in Intent, NEW s \in Modern
    PROVE  /\ WithSession(row, s) \in Intent /\ WithSession(row, s).session = s
           /\ WithSession(row, s).state = row.state /\ WithSession(row, s).sub = row.sub
           /\ WithSession(row, s).resolved <=> row.resolved
BY DEF WithSession, Intent

LEMMA WithStateParts ==
    ASSUME NEW row \in Intent, NEW state \in OpenStates \cup {"none", "complete", "expired"}
    PROVE  /\ WithState(row, state) \in Intent /\ WithState(row, state).state = state
           /\ WithState(row, state).session = row.session
           /\ WithState(row, state).sub = row.sub
           /\ WithState(row, state).resolved <=> row.resolved
BY DEF WithState, Intent

LEMMA GivenRow ==
    ASSUME IInv, NEW i \in Used, NEW s \in Modern, s[1] = i, intents[i].session \in {None, s}
    PROVE  /\ RowStep(i, WithSession(intents[i], s), tenant.sub)
           /\ WithSession(intents[i], s).session = s
           /\ WithSession(intents[i], s).state = intents[i].state
<1>1. i \in Intents /\ intents[i] \in Intent /\ intents[i].state # "none"
  BY DEF Used, IInv, TypeOK
<1>2. s # None
  BY SessionFacts
<1>3. intents[i].state \notin OpenStates \/ intents[i].resolved
          => i \notin Unresolved /\ intents[i].session = First(i) /\ Settled(i)
  BY <1>1 DEF IInv, Books, ClosedSettled, Unresolved
<1>4. intents[i].session # None => s = intents[i].session
  OBVIOUS
<1>5. First(i) # None
  BY <1>1, SessionFacts
<1> QED
  BY <1>1, <1>2, <1>3, <1>4, <1>5, WithSessionParts DEF RowStep

(* A row may always be opened again.                                         *)
LEMMA OpenRow ==
    ASSUME NEW i, NEW row, NEW sub, RowStep(i, row, sub), NEW state \in OpenStates
    PROVE  RowStep(i, WithState(row, state), sub)
<1>1. row \in Intent /\ state # "none"
  BY DEF RowStep, OpenStates
<1> QED
  BY <1>1, WithStateParts DEF RowStep

LEMMA LeavesKeeps ==
    ASSUME IInv, NEW r \in Requests, NEW i, i = handlers[r].intent, NEW row,
           RowStep(i, row, tenant.sub), Leaves(r, row)
    PROVE  Preserved
<1>1. /\ intents' = [intents EXCEPT ![i] = row] /\ Ends(r)
      /\ UNCHANGED <<tenant, removal, anomalies, receipts, sessions, forgotten>>
  BY DEF Leaves, Rest
<1>2. i \in Intents /\ row \in Intent
  BY DEF RowStep, Used
<1>3. /\ \A j \in Intents : j # i => intents'[j] = intents[j]
      /\ intents'[i] = row
      /\ intents' \in [Intents -> Intent]
  BY <1>1, <1>2 DEF IInv, TypeOK
<1>4. TypeOK'
  BY <1>1, <1>3, EndsStep DEF IInv, TypeOK
<1>5. Moves
  BY <1>1, <1>2, <1>3 DEF Moves, AnomalyStep, ReceiptStep
<1> QED
  BY <1>1, <1>4, <1>5, EndsStep, StepKeeps

LEMMA UnavailableKeeps ==
    ASSUME IInv, NEW r \in Requests, NEW i, i = handlers[r].intent, NEW row,
           RowStep(i, row, tenant.sub), Unavailable(r, row)
    PROVE  Preserved
<1> DEFINE new == IF row.state \in OpenStates \ {"held"} THEN WithState(row, "unknown") ELSE row
<1>1. Stops(r) \/ Leaves(r, WithState(row, IF row.state \in OpenStates \ {"held"}
                                            THEN "unknown" ELSE row.state))
  BY DEF Unavailable, WithState
<1>2. row \in Intent
  BY DEF RowStep
<1>3. WithState(row, row.state) = row
  BY <1>2 DEF WithState, Intent
<1>4. "unknown" \in OpenStates
  BY DEF OpenStates
<1>5. Stops(r) \/ Leaves(r, new)
  BY <1>1, <1>3
<1>6. RowStep(i, new, tenant.sub)
  BY <1>4, OpenRow
<1> HIDE DEF new
<1> QED
  BY <1>5, <1>6, StopsKeeps, LeavesKeeps

LEMMA HeldRowStep ==
    ASSUME NEW i, NEW row, NEW sub, RowStep(i, row, sub)
    PROVE  RowStep(i, HeldRow(row), sub) /\ HeldRow(row).session = row.session
<1>1. row \in Intent /\ "held" \in OpenStates
  BY DEF RowStep, OpenStates
<1>2. HeldRow(row) = IF row.state \in OpenStates THEN WithState(row, "held") ELSE row
  BY <1>1 DEF HeldRow, WithState, Intent
<1> QED
  BY <1>1, <1>2, OpenRow, WithStateParts

LEMMA HoldsKeeps ==
    ASSUME IInv, NEW r \in Requests, NEW i, i = handlers[r].intent, NEW row,
           RowStep(i, row, tenant.sub), row.session # None, Holds(r, row)
    PROVE  Preserved
<1> PICK new : new = HeldRow(row)
  OBVIOUS
<1>1. RowStep(i, new, tenant.sub)
  BY HeldRowStep
<1>2. i \in Intents /\ new \in Intent /\ row.session \in Modern
  BY <1>1, RowParts DEF RowStep, Used
<1>3. CASE Stops(r)
  BY <1>3, StopsKeeps
<1>4. CASE ~Stops(r)
  <2>1. /\ anomalies' = [anomalies EXCEPT ![row.session] = IF @ = "none" THEN "open" ELSE @]
        /\ intents' = [intents EXCEPT ![i] = new] /\ Ends(r)
        /\ UNCHANGED <<tenant, removal, receipts, sessions, forgotten>>
    BY <1>4 DEF Holds, Rest
  <2>2. /\ \A j \in Intents : j # i => intents'[j] = intents[j]
        /\ intents'[i] = new
        /\ intents' \in [Intents -> Intent]
    BY <1>2, <2>1 DEF IInv, TypeOK
  <2>3. /\ anomalies' \in [Sessions -> {"none", "open", "resolved"}]
        /\ \A s \in Sessions : AnomalyStep(s)
    BY <1>2, <2>1, SessionFacts DEF IInv, TypeOK, AnomalyStep
  <2>4. TypeOK'
    BY <2>1, <2>2, <2>3, EndsStep DEF IInv, TypeOK
  <2>5. Moves
    BY <1>1, <2>1, <2>2, <2>3 DEF Moves, ReceiptStep
  <2> QED
    BY <2>1, <2>4, <2>5, EndsStep, StepKeeps
<1> QED
  BY <1>3, <1>4

LEMMA OutdatedTyped ==
    ASSUME NEW h \in Handler
    PROVE  Outdated(h) \in Handler
<1>1. Outdated(h) = h \/ Outdated(h) = Aged(h)
  BY DEF Outdated, Aged
<1> QED
  BY <1>1, AgedParts

LEMMA BindsStep ==
    ASSUME IInv, NEW r \in Requests, NEW row \in Tenant, Binds(r, row)
    PROVE  /\ handlers' \in [Requests -> Handler \cup {Idle}]
           /\ operation' \in Requests \cup {None}
           /\ leases' \in [Intents -> Requests \cup {None}]
           /\ tenant' = row /\ Passes(r) /\ Goes(r)
<1>1. \A q \in Requests : Outdated(handlers[q]) \in Handler \cup {Idle}
  BY OutdatedTyped DEF IInv, TypeOK, Outdated
<1> QED
  BY <1>1 DEF Binds, IInv, TypeOK, Passes, Goes

LEMMA SubTyped ==
    ASSUME IInv
    PROVE  /\ tenant \in Tenant /\ tenant.sub \in Sessions \cup {None}
           /\ tenant.cust \in Sessions \cup {Customer, None}
           /\ tenant.status \in {"trial", "active", "ended"} /\ tenant.here \in BOOLEAN
BY DEF IInv, TypeOK, Tenant

LEMMA CustTyped ==
    ASSUME IInv, NEW s \in Sessions
    PROVE  CustOf(s) \in Sessions \cup {Customer, None}
<1>1. s \notin Legacy => s[1] \in Intents
  BY SessionFacts DEF Sessions
<1> QED
  BY <1>1, RowParts DEF CustOf, IInv, TypeOK

LEMMA BindingParts ==
    ASSUME IInv, NEW s \in Sessions, NEW status \in {"active", "ended"}
    PROVE  /\ Binding(s, status) \in Tenant
           /\ Binding(s, status).sub = s /\ Binding(s, status).status = status
           /\ Binding(s, status).here <=> tenant.here
<1> PICK c \in Sessions \cup {Customer, None} : c = CustOf(s)
  BY CustTyped
<1>1. Binding(s, status) = [tenant EXCEPT !.sub = s, !.cust = c, !.status = status]
  BY DEF Binding
<1>2. tenant \in Tenant
  BY SubTyped
<1> QED
  BY <1>1, <1>2 DEF Tenant

-----------------------------------------------------------------------------
(* execute: the row that there is, or a new one                              *)

(* While a checkout is reserved nothing else can be paid. *)
Reserved(i, row) ==
    /\ Unresolved = {} /\ i \in Intents /\ i \notin Used /\ Used \cup {i} = 1..i
    /\ row \in Intent /\ row.state \in OpenStates /\ row.session = None /\ ~row.resolved

LEMMA NextNumber ==
    ASSUME IInv, Cardinality(Used) # MaxIntents
    PROVE  LET i == Cardinality(Used) + 1
           IN  i \in Intents /\ i \notin Used /\ Used \cup {i} = 1..i
<1> PICK n \in 0..MaxIntents : Used = 1..n
  BY DEF IInv, Books, RowsNumbered
<1>1. n \in Int /\ MaxIntents \in Nat
  BY HostingAssumption
<1>2. Cardinality(1..n) = n
  BY <1>1, FS_Interval
<1>3. n < MaxIntents
  BY <1>1, <1>2
<1> QED
  BY <1>1, <1>2, <1>3 DEF Intents

LEMMA ReservesKeeps ==
    ASSUME IInv, TypeOK', tenant.here, NEW i, NEW row, Reserved(i, row),
           intents'[i] = row, \A j \in Intents : j # i => intents'[j] = intents[j],
           UNCHANGED <<tenant, removal, anomalies, receipts, sessions, forgotten>>,
           NEW r \in Requests, Passes(r), Goes(r)
    PROVE  Preserved
<1>1. /\ i \in Intents /\ i \notin Used /\ Used \cup {i} = 1..i
      /\ Unresolved = {} /\ row.session = None
      /\ row.state \in OpenStates /\ row.state # "none" /\ ~row.resolved
  BY DEF Reserved, OpenStates
<1>2. Used' = Used \cup {i} /\ Unresolved' = {i}
  BY <1>1 DEF Used, Unresolved
<1>3. RowsNumbered'
  BY <1>1, <1>2, HostingAssumption DEF RowsNumbered, Intents
<1>4. OwnSession' /\ KeysHold'
  BY <1>1, <1>2 DEF IInv, Books, OwnSession, KeysHold
<1>5. \A j \in Used : intents[j].session = First(j) /\ Settled(j)
  BY <1>1 DEF IInv, Books, ClosedSettled
<1>6. ClosedSettled' /\ OneUnsettled'
  BY <1>1, <1>2, <1>5 DEF ClosedSettled, OneUnsettled, Settled, Used
<1>7. RunningIsKnown'
  BY <1>1, <1>2 DEF IInv, Books, RunningIsKnown
<1>8. BoundTrue' /\ LegacyPaid' /\ LegacyKnown' /\ Gone'
  BY DEF IInv, Books, BoundTrue, LegacyPaid, LegacyKnown, Gone
<1>9. Grows
  BY <1>1, <1>2 DEF Grows, Used
<1>10. HandlersFit' /\ Verified'
  BY <1>9, PassesFit
<1> QED
  BY <1>3, <1>4, <1>6, <1>7, <1>8, <1>10 DEF IInv, Books, Preserved, TenantStep

(* What execute may write of a row *)
Writable(i, row) == RowStep(i, row, tenant.sub) \/ Reserved(i, row)

LEMMA WritesKeeps ==
    ASSUME IInv, TypeOK', tenant.here, NEW i, NEW row, Writable(i, row),
           intents'[i] = row, \A j \in Intents : j # i => intents'[j] = intents[j],
           UNCHANGED <<tenant, removal, anomalies, receipts, sessions, forgotten>>,
           NEW r \in Requests, Passes(r), Goes(r)
    PROVE  Preserved
<1>1. CASE RowStep(i, row, tenant.sub)
  <2>1. Moves
    BY <1>1 DEF Moves, AnomalyStep, ReceiptStep
  <2> QED
    BY <2>1, StepKeeps
<1>2. CASE Reserved(i, row)
  BY <1>2, ReservesKeeps
<1> QED
  BY <1>1, <1>2 DEF Writable

LEMMA WritableParts ==
    ASSUME NEW i, NEW row, Writable(i, row)
    PROVE  i \in Intents /\ row \in Intent /\ row.state # "none"
BY DEF Writable, RowStep, Reserved, Used, OpenStates

LEMMA HeldWritable ==
    ASSUME NEW i, NEW row, Writable(i, row)
    PROVE  Writable(i, HeldRow(row))
<1>1. CASE RowStep(i, row, tenant.sub)
  BY <1>1, HeldRowStep DEF Writable
<1>2. CASE Reserved(i, row)
  <2>1. row \in Intent /\ row.state \in OpenStates /\ "held" \in OpenStates
    BY <1>2 DEF Reserved, OpenStates
  <2>2. HeldRow(row) = WithState(row, "held")
    BY <2>1 DEF HeldRow, WithState
  <2> QED
    BY <1>2, <2>1, <2>2, WithStateParts DEF Reserved, Writable
<1> QED
  BY <1>1, <1>2 DEF Writable

(* A handler that waits for an answer. *)
LEMMA WaitsStep ==
    ASSUME IInv, NEW r \in Requests, NEW h \in Handler, tenant' = tenant,
           handlers' = [handlers EXCEPT ![r] = h], Fits(h)', h.pc # "verify"
    PROVE  handlers' \in [Requests -> Handler \cup {Idle}] /\ Passes(r) /\ Goes(r)
BY DEF IInv, TypeOK, Passes, Goes

LEMMA CallsParts ==
    ASSUME IInv, NEW h \in Handler, NEW pc \in Awaits, NEW target \in Sessions \cup {None}
    PROVE  LET g == Calls(h, pc, target)
           IN  /\ g \in Handler
               /\ g.pc = pc /\ g.kind = h.kind /\ g.intent = h.intent /\ g.session = h.session
               /\ g.target = target /\ g.status = h.status /\ g.bound = h.bound
               /\ g.fresh = h.fresh /\ g.todo = h.todo
               /\ target # None => g.since = sessions[target] /\ g.since \in SessionStates
<1> PICK since : since = IF target = None THEN None ELSE sessions[target]
  OBVIOUS
<1>1. since \in SessionStates \cup {None} /\ (target # None => since \in SessionStates)
  BY DEF IInv, TypeOK
<1>2. Calls(h, pc, target) = [h EXCEPT !.pc = pc, !.target = target, !.since = since]
  BY DEF Calls
<1> QED
  BY <1>1, <1>2 DEF Handler

Claimed(h, i) == [h EXCEPT !.intent = i, !.session = None, !.fresh = TRUE,
                           !.kind = IF @ = "start" THEN "reconcile" ELSE @]

LEMMA ClaimedParts ==
    ASSUME NEW h \in Handler, NEW i \in Intents, h.kind \in {"start", "reconcile", "expire"}
    PROVE  /\ Claimed(h, i) \in Handler /\ Claimed(h, i).intent = i
           /\ Claimed(h, i).session = None
           /\ Claimed(h, i).kind \in {"reconcile", "expire"}
<1> PICK kind : kind = IF h.kind = "start" THEN "reconcile" ELSE h.kind
  OBVIOUS
<1>1. kind \in Kinds /\ kind \in {"reconcile", "expire"}
  BY DEF Kinds
<1>2. Claimed(h, i) = [h EXCEPT !.intent = i, !.session = None, !.fresh = TRUE, !.kind = kind]
  BY DEF Claimed
<1>3. i \in Intents \cup {None} /\ None \in Sessions \cup {None}
  OBVIOUS
<1>4. Claimed(h, i) \in Handler
  BY <1>1, <1>2, <1>3 DEF Handler
<1>5. /\ Claimed(h, i).intent = i /\ Claimed(h, i).session = None
      /\ Claimed(h, i).kind = kind
  BY <1>2 DEF Handler
<1> QED
  BY <1>1, <1>4, <1>5

(* The claimed row is written, and the handler asks for its session. *)
Waited(r, h, i, pc, known) ==
    /\ handlers' = [handlers EXCEPT ![r] = Calls(Claimed(h, i), pc, known)]
    /\ leases' = [leases EXCEPT ![i] = r]
    /\ operation' = IF operation = None THEN r ELSE operation

LEMMA ClaimsKeeps ==
    ASSUME IInv, NEW r \in Requests, tenant.here, NEW h \in Handler,
           h.kind \in {"start", "reconcile", "expire"},
           NEW i, NEW row, Writable(i, row), intents'[i] = row,
           intents' \in [Intents -> Intent], \A j \in Intents : j # i => intents'[j] = intents[j],
           UNCHANGED <<tenant, removal, anomalies, receipts, sessions, forgotten>>,
           h.session \notin Legacy, NEW known \in Modern \cup {None}, NEW pc \in {"create", "retrieve"},
           known = None <=> pc = "create", pc = "create" => ~forgotten[i],
           Waited(r, h, i, pc, known)
    PROVE  Preserved
<1>1. i \in Intents /\ row.state # "none"
  BY WritableParts
<1>2. i \in Used'
  BY <1>1 DEF Used
<1> PICK c \in Handler : c = Claimed(h, i)
  BY <1>1, ClaimedParts
<1>3. c.intent = i /\ c.kind \in {"reconcile", "expire"} /\ c.session = None
  BY <1>1, ClaimedParts
<1>4. pc \in Awaits /\ known \in Sessions \cup {None} /\ known \notin Legacy /\ None \notin Legacy
  BY SessionFacts DEF Awaits
<1> PICK g \in Handler : g = Calls(c, pc, known)
  BY <1>4, CallsParts
<1>5. /\ g.pc = pc /\ g.kind \in {"reconcile", "expire"} /\ g.intent = i /\ g.target = known
      /\ g.session = None /\ (known # None => g.since = sessions[known])
  BY <1>3, <1>4, CallsParts
<1>6. Stays(g)'
  BY <1>2, <1>4, <1>5 DEF Stays, Calling, Complete
<1>7. Current(g)'
  BY <1>5 DEF Current
<1>8. Fits(g)'
  BY <1>6, <1>7 DEF Fits
<1>9. handlers' = [handlers EXCEPT ![r] = g] /\ g.pc # "verify"
  BY <1>5 DEF Waited
<1>10. handlers' \in [Requests -> Handler \cup {Idle}] /\ Passes(r) /\ Goes(r)
  BY <1>8, <1>9, WaitsStep
<1>11. TypeOK'
  BY <1>1, <1>10 DEF Waited, IInv, TypeOK
<1> QED
  BY <1>10, <1>11, WritesKeeps DEF IInv

LEMMA EndsWriting ==
    ASSUME IInv, NEW r \in Requests, tenant.here, NEW i, NEW row, Writable(i, row),
           intents'[i] = row,
           intents' \in [Intents -> Intent], \A j \in Intents : j # i => intents'[j] = intents[j],
           UNCHANGED <<tenant, removal, anomalies, receipts, sessions, forgotten>>, Ends(r)
    PROVE  Preserved
<1>1. TypeOK'
  BY EndsStep DEF IInv, TypeOK
<1> QED
  BY <1>1, EndsStep, WritesKeeps

Tried(row) == [row EXCEPT !.state = "creating", !.tries = @ + 1]

LEMMA TriedWritable ==
    ASSUME IInv, NEW i, NEW row, Writable(i, row), row.session = None, row.tries < MaxTries
    PROVE  Writable(i, Tried(row))
<1>1. i \in Intents /\ row \in Intent /\ row.state # "none" /\ MaxTries \in Nat
  BY WritableParts, HostingAssumption
<1>2. "creating" \in OpenStates /\ row.tries + 1 \in 0..MaxTries
  BY <1>1, RowParts DEF OpenStates
<1>3. First(i) # None
  BY <1>1, SessionFacts
<1>4. /\ Tried(row) \in Intent /\ Tried(row).state = "creating"
      /\ Tried(row).session = None /\ (Tried(row).resolved <=> row.resolved)
  BY <1>1, <1>2 DEF Tried, Intent
<1> HIDE DEF Tried
<1>5. CASE RowStep(i, row, tenant.sub)
  BY <1>2, <1>3, <1>4, <1>5 DEF RowStep, Writable
<1>6. CASE Reserved(i, row)
  BY <1>2, <1>4, <1>6 DEF Reserved, Writable
<1> QED
  BY <1>5, <1>6 DEF Writable

(* The row that execute begins with: one that there is, or a new one. *)
Begun(rows, i) ==
    /\ i \in Intents /\ rows \in [Intents -> Intent] /\ Writable(i, rows[i])
    /\ \A j \in Intents : j # i => rows[j] = intents[j]
    /\ rows[i].tries \in {0, intents[i].tries}

LEMMA ExecutesKeeps ==
    ASSUME IInv, NEW r \in Requests, tenant.here, NEW h \in Handler,
           h.kind \in {"start", "reconcile", "expire"}, h.session \notin Legacy,
           NEW rows, NEW i, Begun(rows, i), Executes(r, h, i, rows)
    PROVE  Preserved
<1> DEFINE known == IF h.session # None THEN h.session ELSE rows[i].session
           Writes(new) == intents' = [rows EXCEPT ![i] = new] /\ Ends(r)
           Waits(new, pc) == intents' = [rows EXCEPT ![i] = new] /\ Waited(r, h, i, pc, known)
<1>1. /\ i \in Intents /\ rows \in [Intents -> Intent] /\ Writable(i, rows[i])
      /\ \A j \in Intents : j # i => rows[j] = intents[j]
      /\ rows[i].tries \in {0, intents[i].tries} /\ rows[i] \in Intent
  BY DEF Begun
<1>2. UNCHANGED <<tenant, removal, anomalies, receipts, sessions, forgotten>>
  BY DEF Executes, Rest
<1>3. known \in Modern \cup {None}
  BY <1>1, HandlerParts, RowParts, SessionFacts DEF Sessions
<1>4. \/ Writes(rows[i])
      \/ Writes(HeldRow(rows[i])) /\ known = None
      \/ Waits(rows[i], "retrieve") /\ known # None
      \/ Waits(Tried(rows[i]), "create") /\ known = None /\ MayCreate(i)
  BY DEF Executes, Tried, Waited, Claimed
<1> HIDE DEF known
<1>5. ASSUME NEW new, intents' = [rows EXCEPT ![i] = new], new \in Intent
      PROVE  /\ intents'[i] = new /\ intents' \in [Intents -> Intent]
             /\ \A j \in Intents : j # i => intents'[j] = intents[j]
  BY <1>1, <1>5
<1>6. ASSUME NEW new, Writable(i, new), Writes(new) PROVE Preserved
  <2>1. new \in Intent
    BY <1>6, WritableParts
  <2> QED
    BY <1>2, <1>5, <1>6, <2>1, EndsWriting
<1>7. Writable(i, HeldRow(rows[i]))
  BY <1>1, HeldWritable
<1>8. CASE Waits(rows[i], "retrieve") /\ known # None
  BY <1>1, <1>2, <1>3, <1>5, <1>8, ClaimsKeeps
<1>9. CASE Waits(Tried(rows[i]), "create") /\ known = None /\ MayCreate(i)
  <2>1. rows[i].session = None
    BY <1>9 DEF known
  <2>2. rows[i].tries < MaxTries
    BY <1>1, <1>9, RowParts, HostingAssumption DEF MayCreate, IInv, TypeOK
  <2>3. Writable(i, Tried(rows[i]))
    BY <1>1, <2>1, <2>2, TriedWritable
  <2> PICK new : new = Tried(rows[i])
    OBVIOUS
  <2>4. new \in Intent
    BY <2>3, WritableParts
  <2>5. intents' = [rows EXCEPT ![i] = new] /\ Waited(r, h, i, "create", known)
    BY <1>9
  <2> QED
    BY <1>2, <1>3, <1>5, <1>9, <2>3, <2>4, <2>5, ClaimsKeeps DEF MayCreate
<1> QED
  BY <1>1, <1>4, <1>6, <1>7, <1>8, <1>9

LEMMA OldBegun ==
    ASSUME IInv, NEW i \in Used
    PROVE  Begun(intents, i)
BY OldRow DEF IInv, TypeOK, Begun, Writable, Used

LEMMA NewBegun ==
    ASSUME IInv, NEW i, i = Cardinality(Used) + 1, Cardinality(Used) # MaxIntents,
           Unresolved = {}
    PROVE  Begun([intents EXCEPT ![i] = NewRow], i)
<1>1. i \in Intents /\ i \notin Used /\ Used \cup {i} = 1..i
  BY NextNumber
<1>2. "reserved" \in OpenStates /\ 0 \in 0..MaxTries
  BY HostingAssumption DEF OpenStates
<1>3. /\ NewRow \in Intent /\ NewRow.state = "reserved" /\ NewRow.session = None
      /\ NewRow.tries = 0 /\ ~NewRow.resolved
  BY <1>2, SubTyped DEF NewRow, NoIntent, Intent
<1>4. Reserved(i, NewRow)
  BY <1>1, <1>2, <1>3 DEF Reserved
<1> HIDE DEF NewRow
<1> QED
  BY <1>1, <1>3, <1>4 DEF IInv, TypeOK, Begun, Writable

LEMMA ReservesAny ==
    ASSUME IInv, NEW r \in Requests, tenant.here, NEW h \in Handler,
           h.kind \in {"start", "reconcile", "expire"}, h.session \notin Legacy,
           NEW fresh, Reserves(r, h, fresh)
    PROVE  Preserved
<1>1. CASE Stops(r)
  BY <1>1, StopsKeeps
<1>2. ASSUME NEW i \in Unresolved, Executes(r, h, i, intents) PROVE Preserved
  <2>1. i \in Used
    BY DEF Unresolved, Used, OpenStates
  <2> QED
    BY <1>2, <2>1, OldBegun, ExecutesKeeps
<1>3. ASSUME Unresolved = {}, Cardinality(Used) # MaxIntents, NEW i, i = Cardinality(Used) + 1,
             Executes(r, h, i, [intents EXCEPT ![i] = NewRow])
      PROVE  Preserved
  BY <1>3, NewBegun, ExecutesKeeps
<1> QED
  BY <1>1, <1>2, <1>3 DEF Reserves

-----------------------------------------------------------------------------
(* The actions: checkouts                                                    *)

Began(h, r, kind, pc, i, s, target) ==
    /\ h \in Handler
    /\ h.pc = pc /\ h.kind = kind /\ h.intent = i /\ h.session = s
    /\ h.target = target /\ (target # None => h.since = sessions[target])
    /\ h.bound = IF kind = "legacy" THEN tenant.sub ELSE None
    /\ h.fresh /\ h.todo = {}

LEMMA BeginsParts ==
    ASSUME IInv, NEW r, NEW kind \in Kinds, NEW pc \in Awaits, NEW i \in Intents \cup {None},
           NEW s \in Sessions \cup {None}, NEW target \in Sessions \cup {None},
           NEW h, h = Begins(r, kind, pc, i, s, target)
    PROVE  Began(h, r, kind, pc, i, s, target)
<1> PICK since : since = IF target = None THEN None ELSE sessions[target]
  OBVIOUS
<1>1. since \in SessionStates \cup {None} /\ (target # None => since = sessions[target])
  BY DEF IInv, TypeOK
<1> PICK bound : bound = IF kind = "legacy" THEN tenant.sub ELSE None
  OBVIOUS
<1>2. bound \in Sessions \cup {None}
  BY SubTyped
<1>3. Begins(r, kind, pc, i, s, target) =
          [pc |-> pc, kind |-> kind, intent |-> i, session |-> s, target |-> target,
           since |-> since, status |-> None, bound |-> bound, fresh |-> TRUE, todo |-> {}]
  BY DEF Begins
<1> QED
  BY <1>1, <1>2, <1>3 DEF Handler, Began

(* A handler that only waits. *)
LEMMA WaitingKeeps ==
    ASSUME IInv, NEW r \in Requests, NEW h \in Handler, handlers' = [handlers EXCEPT ![r] = h],
           Fits(h), h.pc # "verify", UNCHANGED leases, operation' \in Requests \cup {None},
           NoRecords, Rest
    PROVE  Preserved
<1>1. UNCHANGED <<tenant, intents, removal, anomalies, receipts, sessions, forgotten>>
  BY DEF NoRecords, Rest
<1>2. Fits(h)'
  BY <1>1 DEF Fits, Stays, Current, Used
<1>3. handlers' \in [Requests -> Handler \cup {Idle}] /\ Passes(r) /\ Goes(r)
  BY <1>1, <1>2, WaitsStep
<1>4. TypeOK'
  BY <1>1, <1>3 DEF IInv, TypeOK
<1>5. Moves
  BY <1>1 DEF Moves, AnomalyStep, ReceiptStep
<1> QED
  BY <1>1, <1>3, <1>4, <1>5, StepKeeps

LEMMA StartKeeps ==
    ASSUME IInv, NEW r \in Requests, StartCheckout(r)
    PROVE  Preserved
<1>1. tenant.here
  BY DEF StartCheckout, MayOperate
<1>2. "start" \in Kinds /\ "prev" \in Awaits
  BY DEF Kinds, Awaits
<1>3. CASE tenant.sub = None
  <2> PICK h : h = Begins(r, "start", "prev", None, None, None)
    OBVIOUS
  <2>1. Began(h, r, "start", "prev", None, None, None)
    BY <1>2, BeginsParts
  <2>2. Reserves(r, h, TRUE)
    BY <1>3 DEF StartCheckout
  <2> QED
    BY <1>1, <2>1, <2>2, ReservesAny, SessionFacts DEF Began
<1>4. CASE tenant.sub # None
  <2> PICK t \in Sessions : t = tenant.sub
    BY <1>4, SubTyped
  <2> PICK h : h = Begins(r, "start", "prev", None, None, t)
    OBVIOUS
  <2>1. Began(h, r, "start", "prev", None, None, t)
    BY <1>2, BeginsParts
  <2>2. /\ sessions[tenant.sub] \in Complete
        /\ tenant.status = "ended" => sessions[tenant.sub] = "ended"
    BY <1>4 DEF IInv, Books, BoundTrue
  <2>3. Fits(h)
    BY <1>1, <1>4, <2>1, <2>2, SessionFacts DEF Fits, Stays, Current, Calling, Began
  <2>4. /\ operation' = r /\ UNCHANGED leases /\ NoRecords /\ Rest
        /\ handlers' = [handlers EXCEPT ![r] = h]
    BY <1>4 DEF StartCheckout
  <2> QED
    BY <2>1, <2>3, <2>4, WaitingKeeps DEF Began
<1> QED
  BY <1>3, <1>4

LEMMA SomeNewest ==
    ASSUME IInv, Used # {}
    PROVE  Newest \in Used
<1> PICK n \in 0..MaxIntents : Used = 1..n
  BY DEF IInv, Books, RowsNumbered
<1>1. n \in Used /\ \A j \in Used : j <= n
  BY HostingAssumption
<1> QED
  BY <1>1 DEF Newest

LEMMA ActKeeps ==
    ASSUME IInv, NEW r \in Requests, NEW kind \in {"reconcile", "expire"},
           NEW s \in Modern \cup {None}, ActOnCheckout(r, kind, s)
    PROVE  Preserved
<1> PICK i : i = IF Unresolved # {} THEN CHOOSE j \in Unresolved : TRUE ELSE Newest
  OBVIOUS
<1>1. tenant.here /\ Used # {}
  BY DEF ActOnCheckout, MayOperate
<1>2. i \in Used
  BY <1>1, SomeNewest DEF Unresolved, Used, OpenStates
<1> PICK h : h = Begins(r, kind, "retrieve", i, s, None)
  OBVIOUS
<1>3. Executes(r, h, i, intents)
  BY DEF ActOnCheckout
<1>4. /\ kind \in Kinds /\ "retrieve" \in Awaits
      /\ i \in Intents \cup {None} /\ s \in Sessions \cup {None}
  BY <1>2, SessionFacts DEF Kinds, Awaits, Used
<1>5. Began(h, r, kind, "retrieve", i, s, None)
  BY <1>4, BeginsParts
<1> QED
  BY <1>1, <1>2, <1>3, <1>5, OldBegun, ExecutesKeeps, SessionFacts DEF Began

LEMMA EventKeeps ==
    ASSUME IInv, NEW r \in Requests, NEW s \in Modern, CheckoutEvent(r, s)
    PROVE  Preserved
<1>1. tenant.here /\ sessions[s] \in Complete
  BY DEF CheckoutEvent, MayOperate
<1>2. s = First(s[1]) /\ s[1] \in Used
  BY <1>1, SessionFacts DEF IInv, Books, KeysHold, Complete
<1> PICK h : h = Begins(r, "reconcile", "retrieve", s[1], s, None)
  OBVIOUS
<1>3. Executes(r, h, s[1], intents)
  BY DEF CheckoutEvent
<1>4. /\ "reconcile" \in Kinds /\ "retrieve" \in Awaits
      /\ s[1] \in Intents \cup {None} /\ s \in Sessions \cup {None}
  BY <1>2, SessionFacts DEF Kinds, Awaits
<1>5. Began(h, r, "reconcile", "retrieve", s[1], s, None)
  BY <1>4, BeginsParts
<1> QED
  BY <1>1, <1>2, <1>3, <1>5, OldBegun, ExecutesKeeps, SessionFacts DEF Began

(* What may be written of the shop *)
Bindable(row) ==
    /\ tenant.here /\ row \in Tenant /\ row.here
    /\ row.sub # None /\ sessions[row.sub] \in Complete
    /\ row.status = "ended" => sessions[row.sub] = "ended"
    /\ tenant.sub \notin {None, row.sub} => sessions[tenant.sub] = "ended"
    /\ tenant.sub = row.sub /\ tenant.status = "ended" => row.status = "ended"

LEMMA BindsKeeps ==
    ASSUME IInv, NEW r \in Requests, NEW row, Bindable(row), Binds(r, row),
           UNCHANGED <<removal, anomalies, sessions, forgotten>>,
           intents' \in [Intents -> Intent],
           \A i \in Intents : intents'[i] = intents[i] \/ RowStep(i, intents'[i], row.sub),
           receipts' \in [Legacy -> {"none", "pending", "cleared"}],
           \A s \in Legacy : ReceiptStep(s)
    PROVE  Preserved
<1>1. /\ row \in Tenant /\ tenant' = row /\ Passes(r) /\ Goes(r)
      /\ handlers' \in [Requests -> Handler \cup {Idle}]
      /\ operation' \in Requests \cup {None}
      /\ leases' \in [Intents -> Requests \cup {None}]
  BY BindsStep DEF Bindable
<1>2. TypeOK'
  BY <1>1 DEF IInv, TypeOK
<1>3. Moves
  BY <1>1 DEF Bindable, BindStep, TenantStep, Moves, AnomalyStep
<1> QED
  BY <1>1, <1>2, <1>3, StepKeeps

(* Only the shop's own row is written. *)
LEMMA BindsOnly ==
    ASSUME IInv, NEW r \in Requests, NEW row, Bindable(row), Binds(r, row),
           UNCHANGED <<intents, removal, anomalies, receipts>>, Rest
    PROVE  Preserved
<1>1. UNCHANGED <<sessions, forgotten>>
  BY DEF Rest
<1> QED
  BY <1>1, BindsKeeps DEF IInv, TypeOK, ReceiptStep

WithStatus(status) == [tenant EXCEPT !.status = status]

LEMMA StatusBindable ==
    ASSUME IInv, tenant.here, tenant.sub # None, NEW status \in {"active", "ended"},
           status = "ended" => sessions[tenant.sub] = "ended",
           tenant.status = "ended" => status = "ended"
    PROVE  Bindable(WithStatus(status))
<1>1. /\ WithStatus(status) \in Tenant /\ WithStatus(status).status = status
      /\ WithStatus(status).sub = tenant.sub /\ (WithStatus(status).here <=> tenant.here)
  BY SubTyped DEF WithStatus, Tenant
<1> HIDE DEF WithStatus
<1> QED
  BY <1>1 DEF Bindable, IInv, Books, BoundTrue

(* A handler at an await. *)
LEMMA HandlerFits ==
    ASSUME IInv, NEW r \in Requests, handlers[r] # Idle
    PROVE  /\ handlers[r] \in Handler /\ Stays(handlers[r])
           /\ handlers[r].fresh => Current(handlers[r])
<1> PICK h \in Handler : h = handlers[r]
  BY DEF IInv, TypeOK
<1>1. Fits(h)
  BY DEF IInv, HandlersFit
<1> QED
  BY <1>1 DEF Fits

LEMMA AnswerFits ==
    ASSUME IInv, NEW r \in Requests, NEW h \in Handler, h = handlers[r], h.target # None,
           NEW got \in Answers(h)
    PROVE  /\ h.target \in Sessions
           /\ got \in SessionStates \cup {None}
           /\ got = "expired" => sessions[h.target] = "expired"
           /\ got = "ended" => sessions[h.target] = "ended"
           /\ got \in Complete => sessions[h.target] \in Complete
           /\ h.since = "ended" => got = "ended"
<1>1. Stays(h)
  BY HandlerParts, HandlerFits
<1>2. h.target \in Sessions /\ h.since \in SessionStates \cup {None}
  BY HandlerParts
<1>3. sessions[h.target] \in SessionStates
  BY <1>2 DEF IInv, TypeOK
<1> QED
  BY <1>1, <1>2, <1>3, AnswersHold DEF Stays

LEMMA PrevKeeps ==
    ASSUME IInv, NEW r \in Requests, PrevAnswered(r)
    PROVE  Preserved
<1> PICK h \in Handler : h = handlers[r]
  BY HandlerFits DEF PrevAnswered
<1>1. h.pc = "prev" /\ handlers[r] # Idle
  BY DEF PrevAnswered
<1>2. /\ h.kind \in {"start", "reconcile", "expire"} /\ h.target # None
      /\ h.session \notin Legacy
      /\ h.fresh => tenant.sub = h.target /\ (tenant.status = "ended" => h.since = "ended")
  BY <1>1, HandlerFits DEF Stays, Current
<1> PICK got \in Answers(h) :
        \/ Stops(r)
        \/ Active(r) /\ Reserves(r, h, h.fresh)
        \/ /\ Active(r) /\ got # "ended" /\ h.fresh /\ Binds(r, WithStatus("active"))
           /\ UNCHANGED <<intents, removal, anomalies, receipts>> /\ Rest
  BY DEF PrevAnswered, WithStatus
<1>3. CASE Stops(r)
  BY <1>3, StopsKeeps
<1>4. CASE Active(r) /\ Reserves(r, h, h.fresh)
  BY <1>2, <1>4, ReservesAny DEF Active
<1>5. CASE /\ Active(r) /\ got # "ended" /\ h.fresh /\ Binds(r, WithStatus("active"))
           /\ UNCHANGED <<intents, removal, anomalies, receipts>> /\ Rest
  <2>1. h.since # "ended"
    BY <1>2, <1>5, AnswerFits
  <2>2. Bindable(WithStatus("active"))
    BY <1>2, <1>5, <2>1, StatusBindable DEF Active
  <2> QED
    BY <1>5, <2>2, BindsOnly
<1> QED
  BY <1>3, <1>4, <1>5

-----------------------------------------------------------------------------
(* The actions: the answers of a checkout                                    *)

LEMMA PaidFirst ==
    ASSUME IInv, NEW i \in Used, intents[i].session # None,
           sessions[intents[i].session] # "none"
    PROVE  intents[i].session = First(i) /\ First(i) \in Sessions
<1>1. i \in Intents /\ intents[i].session \in Modern /\ intents[i].session[1] = i
  BY RowParts DEF Used, IInv, TypeOK, Books, OwnSession
<1> QED
  BY <1>1, SessionFacts DEF IInv, Books, KeysHold

LEMMA BindsCheckoutKeeps ==
    ASSUME IInv, NEW r \in Requests, handlers[r] # Idle, handlers[r].pc # "verify",
           NEW i \in Used, i = handlers[r].intent, NEW row, row = intents[i],
           row.session # None, sessions[row.session] \in Complete,
           NEW status \in Complete, status = "ended" => sessions[row.session] = "ended",
           handlers[r].fresh /\ tenant.sub \notin {None, row.session}
               => sessions[tenant.sub] = "ended",
           handlers[r].fresh /\ tenant.sub = row.session /\ tenant.status = "ended"
               => status = "ended",
           BindsCheckout(r, row, status)
    PROVE  Preserved
<1>1. RowStep(i, row, tenant.sub) /\ i \in Intents /\ row \in Intent
  BY OldRow DEF RowStep, Used
<1>2. row.session = First(i) /\ row.session \in Sessions
  BY PaidFirst DEF Complete
<1>3. CASE Unavailable(r, row)
  BY <1>1, <1>3, UnavailableKeeps
<1>4. CASE /\ handlers[r].fresh /\ Binds(r, Binding(row.session, status))
           /\ intents' = [intents EXCEPT ![i] = WithState(row, "complete")]
           /\ UNCHANGED <<removal, anomalies, receipts>> /\ Rest
  <2> PICK s \in Sessions : s = row.session
    BY <1>2
  <2> PICK new : new = Binding(s, status)
    OBVIOUS
  <2>1. new \in Tenant /\ new.sub = s /\ new.status = status /\ (new.here <=> tenant.here)
    BY BindingParts DEF Complete
  <2>2. tenant.here
    BY <1>4, HandlerFits DEF Current
  <2>3. Bindable(new)
    BY <1>4, <2>1, <2>2, SessionFacts DEF Bindable
  <2>4. RowStep(i, WithState(row, "complete"), s)
    BY <1>1, <1>2, WithStateParts DEF RowStep, Settled, Complete
  <2> PICK done : done = WithState(row, "complete")
    OBVIOUS
  <2>5. done \in Intent
    BY <2>4 DEF RowStep
  <2>6. /\ intents' \in [Intents -> Intent]
        /\ \A j \in Intents : intents'[j] = intents[j] \/ RowStep(j, intents'[j], new.sub)
    BY <1>1, <1>4, <2>1, <2>4, <2>5 DEF IInv, TypeOK
  <2> QED
    BY <1>4, <2>3, <2>6, BindsKeeps DEF Rest, IInv, TypeOK, ReceiptStep
<1> QED
  BY <1>3, <1>4 DEF BindsCheckout, Unmoved, WithState

(* The row is written, and the handler waits for another answer. *)
LEMMA PutsKeeps ==
    ASSUME IInv, NEW r \in Requests, NEW i, NEW row, RowStep(i, row, tenant.sub),
           intents' = [intents EXCEPT ![i] = row],
           NEW g \in Handler, Keeps(r, g), Fits(g)', g.pc # "verify",
           UNCHANGED <<tenant, removal, anomalies, receipts>>, Rest
    PROVE  Preserved
<1>1. i \in Intents /\ row \in Intent
  BY DEF RowStep, Used
<1>2. /\ handlers' = [handlers EXCEPT ![r] = g] /\ UNCHANGED <<operation, leases>>
      /\ UNCHANGED <<sessions, forgotten>>
  BY DEF Keeps, Rest
<1>3. handlers' \in [Requests -> Handler \cup {Idle}] /\ Passes(r) /\ Goes(r)
  BY <1>2, WaitsStep
<1>4. /\ intents' \in [Intents -> Intent]
      /\ \A j \in Intents : intents'[j] = intents[j] \/ RowStep(j, intents'[j], tenant.sub)
  BY <1>1 DEF IInv, TypeOK
<1>5. TypeOK'
  BY <1>2, <1>3, <1>4 DEF IInv, TypeOK
<1>6. Moves
  BY <1>2, <1>4 DEF Moves, AnomalyStep, ReceiptStep
<1> QED
  BY <1>2, <1>3, <1>5, <1>6, StepKeeps

LEMMA AsksSub ==
    ASSUME IInv, NEW h \in Handler, h.fresh, tenant.here,
           h.kind \in {"start", "reconcile", "expire"}, h.session \notin Legacy,
           NEW i, h.intent = i, NEW row, RowStep(i, row, tenant.sub),
           intents' = [intents EXCEPT ![i] = row],
           row.session # None, sessions[row.session] \in Complete,
           UNCHANGED <<tenant, sessions, forgotten>>,
           NEW g, g = Calls(h, "sub", row.session)
    PROVE  g \in Handler /\ Fits(g)' /\ g.pc # "verify"
<1>1. /\ i \in Intents /\ row \in Intent /\ row.state # "none"
  BY DEF RowStep, Used
<1>2. i \in Used' /\ intents'[i] = row
  BY <1>1 DEF Used, IInv, TypeOK
<1> PICK s \in Sessions : s = row.session
  BY <1>1, RowParts, SessionFacts
<1>3. "sub" \in Awaits
  BY DEF Awaits
<1>4. /\ g \in Handler /\ g.pc = "sub" /\ g.kind \in {"start", "reconcile", "expire"}
      /\ g.session = h.session /\ g.intent = i /\ g.target = s /\ g.since = sessions[s]
  BY <1>3, CallsParts, SessionFacts
<1>5. Stays(g)'
  BY <1>2, <1>4 DEF Stays, Calling
<1>6. s = tenant.sub /\ tenant.status = "ended" => sessions[s] = "ended"
  BY DEF IInv, Books, BoundTrue
<1>7. Current(g)'
  BY <1>4, <1>6 DEF Current
<1> QED
  BY <1>4, <1>5, <1>7 DEF Fits

LEMMA ConsumesKeeps ==
    ASSUME IInv, NEW r \in Requests, NEW h \in Handler, h = handlers[r],
           h.kind \in {"start", "reconcile", "expire"}, h.pc # "verify",
           NEW i, h.intent = i, NEW row, RowStep(i, row, tenant.sub),
           row.session # None, row.session[1] = i,
           NEW got, got = "expired" => sessions[row.session] = "expired",
           got \in Complete => sessions[row.session] \in Complete,
           Consumes(r, row, got)
    PROVE  Preserved
<1>1. i \in Intents /\ row \in Intent /\ row.session \in Modern
  BY RowParts DEF RowStep, Used
<1>2. sessions[row.session] # "none" => row.session = First(i)
  BY <1>1, SessionFacts DEF IInv, Books, KeysHold
<1>3. handlers[r] # Idle
  BY HandlerParts
<1>4. CASE Unavailable(r, row)
  BY <1>4, UnavailableKeeps
<1>5. CASE got = "expired" /\ Leaves(r, WithState(row, "expired"))
  <2>1. RowStep(i, WithState(row, "expired"), tenant.sub)
    BY <1>1, <1>2, <1>5, WithStateParts DEF RowStep, Settled, OpenStates
  <2> QED
    BY <1>5, <2>1, LeavesKeeps
<1>6. CASE /\ h.fresh /\ got \in Complete /\ intents' = [intents EXCEPT ![i] = row]
           /\ Keeps(r, Calls(h, "sub", row.session))
           /\ UNCHANGED <<tenant, removal, anomalies, receipts>> /\ Rest
  <2>1. tenant.here
    BY <1>3, <1>6, HandlerFits DEF Current
  <2> PICK g : g = Calls(h, "sub", row.session)
    OBVIOUS
  <2>2. UNCHANGED <<tenant, sessions, forgotten>>
    BY <1>6 DEF Rest
  <2>3. h.session \notin Legacy
    BY <1>3, HandlerFits DEF Stays
  <2>4. g \in Handler /\ Fits(g)' /\ g.pc # "verify"
    BY <1>6, <2>1, <2>2, <2>3, AsksSub
  <2> QED
    BY <1>6, <2>4, PutsKeeps
<1>7. CASE Leaves(r, row) \/ Leaves(r, HeldRow(row))
  BY <1>7, HeldRowStep, LeavesKeeps
<1>8. CASE row.state \in OpenStates /\ Leaves(r, WithState(row, "open"))
  <2>1. "open" \in OpenStates
    BY DEF OpenStates
  <2>2. RowStep(i, WithState(row, "open"), tenant.sub)
    BY <1>8, <2>1, OpenRow
  <2> QED
    BY <1>8, <2>2, LeavesKeeps
<1> QED
  BY <1>4, <1>5, <1>6, <1>7, <1>8 DEF Consumes, WithState

Reconciles(h) == [h EXCEPT !.kind = "reconcile"]

LEMMA ReconcilesParts ==
    ASSUME NEW h \in Handler
    PROVE  /\ Reconciles(h) \in Handler /\ Reconciles(h).kind = "reconcile"
           /\ Reconciles(h).pc = h.pc /\ Reconciles(h).intent = h.intent
           /\ Reconciles(h).session = h.session /\ Reconciles(h).target = h.target
           /\ Reconciles(h).since = h.since /\ (Reconciles(h).fresh <=> h.fresh)
<1>1. "reconcile" \in Kinds
  BY DEF Kinds
<1> QED
  BY <1>1 DEF Reconciles, Handler

LEMMA AsksCheck ==
    ASSUME IInv, NEW h \in Handler, h.fresh => tenant.here, h.session \notin Legacy,
           NEW i, h.intent = i, NEW row, RowStep(i, row, tenant.sub),
           intents' = [intents EXCEPT ![i] = row],
           NEW s \in Sessions, row.session = s,
           UNCHANGED <<tenant, sessions, forgotten>>,
           NEW g, g = Reconciles(Calls(h, "check", s))
    PROVE  g \in Handler /\ Fits(g)' /\ g.pc # "verify"
<1>1. i \in Intents /\ row \in Intent /\ row.state # "none" /\ s # None
  BY SessionFacts DEF RowStep, Used
<1>2. i \in Used' /\ intents'[i] = row
  BY <1>1 DEF Used, IInv, TypeOK
<1>3. "check" \in Awaits
  BY DEF Awaits
<1> PICK c : c = Calls(h, "check", s)
  OBVIOUS
<1>4. /\ c \in Handler /\ c.pc = "check" /\ c.intent = i /\ c.session = h.session
      /\ c.target = s /\ c.since = sessions[s] /\ (c.fresh <=> h.fresh)
  BY <1>1, <1>3, CallsParts
<1>5. /\ g \in Handler /\ g.pc = "check" /\ g.kind = "reconcile" /\ g.intent = i
      /\ g.session = h.session /\ g.target = s /\ g.since = sessions[s] /\ (g.fresh <=> h.fresh)
  BY <1>4, ReconcilesParts
<1>6. Stays(g)'
  BY <1>1, <1>2, <1>5 DEF Stays, Calling, Complete
<1>7. g.fresh => Current(g)'
  BY <1>5 DEF Current
<1> QED
  BY <1>5, <1>6, <1>7 DEF Fits

LEMMA SessionKeeps ==
    ASSUME IInv, NEW r \in Requests, SessionAnswered(r)
    PROVE  Preserved
<1> PICK h \in Handler : h = handlers[r]
  BY HandlerFits DEF SessionAnswered
<1>1. h.pc \in {"create", "retrieve"} /\ handlers[r] # Idle /\ h.target # None
  BY DEF SessionAnswered
<1>2. /\ h.intent \in Used /\ h.kind \in {"start", "reconcile", "expire"}
      /\ h.target \notin Legacy /\ h.session \notin Legacy /\ (h.fresh => tenant.here)
  BY <1>1, HandlerFits DEF Stays, Current, Calling
<1> PICK i \in Used : i = h.intent
  BY <1>2
<1> PICK s \in Modern : s = h.target
  BY <1>1, <1>2, HandlerParts DEF Sessions
<1> PICK row : row = WithSession(intents[i], s)
  OBVIOUS
<1> PICK got \in Answers(h) :
        \/ Stops(r)
        \/ /\ s[1] = i /\ intents[i].session \in {None, s}
           /\ \/ /\ intents' = [intents EXCEPT ![i] = row]
                 /\ Keeps(r, Reconciles(Calls(h, "check", s)))
                 /\ UNCHANGED <<tenant, removal, anomalies, receipts>> /\ Rest
              \/ Consumes(r, row, got)
  BY DEF SessionAnswered, WithSession, Reconciles
<1>3. /\ got = "expired" => sessions[s] = "expired"
      /\ got \in Complete => sessions[s] \in Complete
  BY <1>1, AnswerFits
<1>4. s \in Sessions /\ s # None
  BY SessionFacts
<1>5. CASE Stops(r)
  BY <1>5, StopsKeeps
<1>6. CASE s[1] = i /\ intents[i].session \in {None, s}
  <2>1. RowStep(i, row, tenant.sub) /\ row.session = s
    BY <1>6, GivenRow
  <2>2. CASE Consumes(r, row, got)
    BY <1>1, <1>2, <1>3, <1>4, <1>6, <2>1, <2>2, ConsumesKeeps
  <2>3. CASE /\ intents' = [intents EXCEPT ![i] = row]
             /\ Keeps(r, Reconciles(Calls(h, "check", s)))
             /\ UNCHANGED <<tenant, removal, anomalies, receipts>> /\ Rest
    <3> PICK g : g = Reconciles(Calls(h, "check", s))
      OBVIOUS
    <3>1. UNCHANGED <<tenant, sessions, forgotten>>
      BY <2>3 DEF Rest
    <3>2. s \in Sessions /\ h.intent = i /\ h.session \notin Legacy /\ (h.fresh => tenant.here)
      BY <1>2, <1>4
    <3>3. intents' = [intents EXCEPT ![i] = row]
      BY <2>3
    <3>4. g \in Handler /\ Fits(g)' /\ g.pc # "verify"
      BY <2>1, <3>1, <3>2, <3>3, AsksCheck
    <3> QED
      BY <2>1, <2>3, <3>4, PutsKeeps
  <2> QED
    BY <1>5, <2>2, <2>3
<1> QED
  BY <1>5, <1>6

(* A checkout at an await with its session *)
LEMMA AskedRow ==
    ASSUME IInv, NEW r \in Requests, NEW h \in Handler, h = handlers[r],
           h.pc \in {"check", "sub", "previous"}
    PROVE  /\ h.intent \in Used /\ h.kind \in {"start", "reconcile", "expire"}
           /\ RowStep(h.intent, intents[h.intent], tenant.sub)
           /\ intents[h.intent].session # None /\ intents[h.intent].session[1] = h.intent
           /\ h.target # None /\ handlers[r] # Idle
           /\ h.pc \in {"check", "sub"} => h.target = intents[h.intent].session
           /\ h.pc \in {"sub", "previous"} => sessions[intents[h.intent].session] \in Complete
<1>1. handlers[r] # Idle
  BY HandlerParts
<1>2. Stays(h)
  BY <1>1, HandlerFits
<1>3. h.intent \in Used
  BY <1>2 DEF Stays, Calling
<1>4. intents[h.intent].session[1] = h.intent
  BY <1>2, <1>3 DEF Stays, IInv, Books, OwnSession, Used
<1> QED
  BY <1>1, <1>2, <1>3, <1>4, OldRow DEF Stays, Calling

LEMMA CheckKeeps ==
    ASSUME IInv, NEW r \in Requests, CheckAnswered(r)
    PROVE  Preserved
<1> PICK h \in Handler : h = handlers[r]
  BY HandlerFits DEF CheckAnswered
<1>1. h.pc = "check"
  BY DEF CheckAnswered
<1> PICK i \in Used : i = h.intent
  BY <1>1, AskedRow
<1> PICK row : row = intents[i]
  OBVIOUS
<1> PICK got \in Answers(h) :
        \/ Stops(r)
        \/ got = "open" /\ Leaves(r, WithState(row, "unknown"))
        \/ Consumes(r, row, got)
  BY DEF CheckAnswered, WithState
<1>2. /\ RowStep(i, row, tenant.sub) /\ row.session # None /\ row.session[1] = i
      /\ h.target = row.session /\ h.target # None /\ h.kind \in {"start", "reconcile", "expire"}
  BY <1>1, AskedRow
<1>3. /\ got = "expired" => sessions[row.session] = "expired"
      /\ got \in Complete => sessions[row.session] \in Complete
  BY <1>2, AnswerFits
<1>4. CASE Stops(r)
  BY <1>4, StopsKeeps
<1>5. CASE Consumes(r, row, got)
  BY <1>1, <1>2, <1>3, <1>5, ConsumesKeeps
<1>6. CASE got = "open" /\ Leaves(r, WithState(row, "unknown"))
  <2>1. "unknown" \in OpenStates
    BY DEF OpenStates
  <2>2. RowStep(i, WithState(row, "unknown"), tenant.sub)
    BY <1>2, <2>1, OpenRow
  <2> QED
    BY <1>6, <2>2, LeavesKeeps
<1> QED
  BY <1>4, <1>5, <1>6

Noted(h, status) == [h EXCEPT !.status = status]

LEMMA NotedParts ==
    ASSUME NEW h \in Handler, NEW status \in SessionStates \cup {None}
    PROVE  /\ Noted(h, status) \in Handler /\ Noted(h, status).status = status
           /\ Noted(h, status).pc = h.pc /\ Noted(h, status).kind = h.kind
           /\ Noted(h, status).intent = h.intent /\ Noted(h, status).session = h.session
           /\ Noted(h, status).target = h.target /\ Noted(h, status).since = h.since
           /\ Noted(h, status).bound = h.bound
           /\ (Noted(h, status).fresh <=> h.fresh)
BY DEF Noted, Handler

LEMMA AsksPrevious ==
    ASSUME IInv, NEW r \in Requests, NEW h \in Handler, h = handlers[r], h.pc = "sub", h.fresh,
           tenant.sub # None, tenant.sub # h.target,
           NEW got \in Complete, NEW g, g = Noted(Calls(h, "previous", tenant.sub), got)
    PROVE  g \in Handler /\ Fits(g) /\ g.pc # "verify"
<1>1. /\ h.intent \in Used /\ h.kind \in {"start", "reconcile", "expire"}
      /\ intents[h.intent].session # None /\ handlers[r] # Idle
      /\ h.target = intents[h.intent].session
      /\ sessions[intents[h.intent].session] \in Complete
  BY AskedRow
<1>2. tenant.here /\ h.session \notin Legacy
  BY <1>1, HandlerFits DEF Stays, Current
<1> PICK s \in Sessions : s = tenant.sub
  BY SubTyped
<1>3. "previous" \in Awaits /\ got \in SessionStates \cup {None}
  BY DEF Awaits, Complete, SessionStates
<1> PICK c : c = Calls(h, "previous", s)
  OBVIOUS
<1>4. /\ c \in Handler /\ c.pc = "previous" /\ c.kind = h.kind /\ c.intent = h.intent
      /\ c.session = h.session /\ c.target = s /\ c.since = sessions[s] /\ (c.fresh <=> h.fresh)
  BY <1>3, CallsParts, SessionFacts
<1>5. /\ g \in Handler /\ g.pc = "previous" /\ g.kind = h.kind /\ g.intent = h.intent
      /\ g.session = h.session /\ g.target = s /\ g.since = sessions[s] /\ g.status = got
      /\ (g.fresh <=> h.fresh)
  BY <1>3, <1>4, NotedParts
<1>6. Stays(g)
  BY <1>1, <1>2, <1>5, SessionFacts DEF Stays, Calling, Complete
<1>7. Current(g)
  BY <1>1, <1>2, <1>5 DEF Current
<1> QED
  BY <1>5, <1>6, <1>7 DEF Fits

LEMMA SubKeeps ==
    ASSUME IInv, NEW r \in Requests, SubAnswered(r)
    PROVE  Preserved
<1> PICK h \in Handler : h = handlers[r]
  BY HandlerFits DEF SubAnswered
<1>1. h.pc = "sub" /\ handlers[r] # Idle
  BY DEF SubAnswered
<1> PICK i \in Used : i = h.intent
  BY <1>1, AskedRow
<1> PICK row : row = intents[i]
  OBVIOUS
<1> PICK got \in Answers(h) :
        \/ Unavailable(r, row) \/ Stops(r) \/ Holds(r, row)
        \/ tenant.sub \in {None, row.session} /\ BindsCheckout(r, row, got)
        \/ /\ h.fresh /\ tenant.sub \notin {None, row.session}
           /\ Keeps(r, Noted(Calls(h, "previous", tenant.sub), got)) /\ NoRecords /\ Rest
  BY DEF SubAnswered, Noted
<1>2. /\ RowStep(i, row, tenant.sub) /\ row.session # None
      /\ h.target = row.session /\ h.target # None /\ sessions[row.session] \in Complete
  BY <1>1, AskedRow
<1>3. /\ h.since \in Complete
      /\ h.fresh /\ tenant.sub = h.target /\ tenant.status = "ended" => h.since = "ended"
  BY <1>1, HandlerFits DEF Stays, Current
<1>4. /\ got \in Complete /\ (got = "ended" => sessions[row.session] = "ended")
      /\ h.since = "ended" => got = "ended"
  BY <1>2, <1>3, AnswerFits DEF Answers, Complete
<1>5. CASE Unavailable(r, row) \/ Stops(r) \/ Holds(r, row)
  BY <1>2, <1>5, UnavailableKeeps, StopsKeeps, HoldsKeeps
<1>6. CASE tenant.sub \in {None, row.session} /\ BindsCheckout(r, row, got)
  BY <1>1, <1>2, <1>3, <1>4, <1>6, BindsCheckoutKeeps
<1>7. CASE /\ h.fresh /\ tenant.sub \notin {None, row.session}
           /\ Keeps(r, Noted(Calls(h, "previous", tenant.sub), got)) /\ NoRecords /\ Rest
  <2> PICK g : g = Noted(Calls(h, "previous", tenant.sub), got)
    OBVIOUS
  <2>1. g \in Handler /\ Fits(g) /\ g.pc # "verify"
    BY <1>1, <1>2, <1>4, <1>7, AsksPrevious
  <2>2. handlers' = [handlers EXCEPT ![r] = g] /\ UNCHANGED <<operation, leases>>
    BY <1>7 DEF Keeps
  <2>3. operation' \in Requests \cup {None}
    BY <2>2 DEF IInv, TypeOK
  <2> QED
    BY <1>7, <2>1, <2>2, <2>3, WaitingKeeps
<1> QED
  BY <1>5, <1>6, <1>7

LEMMA PreviousKeeps ==
    ASSUME IInv, NEW r \in Requests, PreviousAnswered(r)
    PROVE  Preserved
<1> PICK h \in Handler : h = handlers[r]
  BY HandlerFits DEF PreviousAnswered
<1>1. h.pc = "previous" /\ handlers[r] # Idle
  BY DEF PreviousAnswered
<1> PICK i \in Used : i = h.intent
  BY <1>1, AskedRow
<1> PICK row : row = intents[i]
  OBVIOUS
<1> PICK got \in Answers(h) :
        \/ got = "ended" /\ h.status # "ended" /\ BindsCheckout(r, row, h.status)
        \/ Holds(r, row)
  BY DEF PreviousAnswered, GivesWay
<1>2. /\ RowStep(i, row, tenant.sub) /\ row.session # None /\ h.target # None
      /\ sessions[row.session] \in Complete
  BY <1>1, AskedRow
<1>3. /\ h.status \in Complete
      /\ h.fresh => tenant.sub = h.target /\ tenant.sub # row.session
  BY <1>1, HandlerFits DEF Stays, Current
<1>4. got = "ended" => sessions[h.target] = "ended"
  BY <1>2, AnswerFits
<1>5. CASE Holds(r, row)
  BY <1>2, <1>5, HoldsKeeps
<1>6. CASE got = "ended" /\ h.status # "ended" /\ BindsCheckout(r, row, h.status)
  BY <1>1, <1>2, <1>3, <1>4, <1>6, BindsCheckoutKeeps
<1> QED
  BY <1>5, <1>6

-----------------------------------------------------------------------------
(* The actions: notices                                                      *)

LEMMA BeginsWaiting ==
    ASSUME IInv, NEW r \in Requests, tenant.here, NEW kind \in {"legacy", "subscription"},
           NEW s \in Sessions, sessions[s] \in Complete,
           kind = "legacy" => s \in Legacy, kind = "subscription" => tenant.sub = s,
           NEW h, h = Begins(r, kind, "read", None, s, s)
    PROVE  h \in Handler /\ Fits(h) /\ h.pc # "verify"
<1>1. kind \in Kinds /\ "read" \in Awaits /\ None \in Intents \cup {None} /\ s \in Sessions \cup {None}
  BY DEF Kinds, Awaits
<1>2. Began(h, r, kind, "read", None, s, s)
  BY <1>1, BeginsParts
<1>3. s # None
  BY SessionFacts
<1>4. Stays(h)
  BY <1>2, <1>3 DEF Began, Stays, Calling, Complete
<1>5. tenant.sub = s /\ tenant.status = "ended" => sessions[s] = "ended"
  BY <1>3 DEF IInv, Books, BoundTrue
<1>6. Current(h)
  BY <1>2, <1>3, <1>5 DEF Began, Current
<1> QED
  BY <1>2, <1>4, <1>6 DEF Began, Fits

LEMMA LegacyEventKeeps ==
    ASSUME IInv, NEW r \in Requests, NEW s \in Legacy, LegacyEvent(r, s)
    PROVE  Preserved
<1>1. /\ tenant.here /\ sessions[s] \in Complete /\ s \in Sessions
      /\ operation' = r /\ receipts' = [receipts EXCEPT ![s] = "pending"]
      /\ UNCHANGED <<tenant, intents, leases, removal, anomalies, sessions, forgotten>>
  BY SessionFacts DEF LegacyEvent, MayOperate, Rest
<1> PICK h : h = Begins(r, "legacy", "read", None, s, s)
  OBVIOUS
<1>2. h \in Handler /\ Fits(h) /\ h.pc # "verify"
  BY <1>1, BeginsWaiting
<1>3. handlers' = [handlers EXCEPT ![r] = h]
  BY DEF LegacyEvent
<1>4. Fits(h)'
  BY <1>1, <1>2 DEF Fits, Stays, Current, Used
<1>5. handlers' \in [Requests -> Handler \cup {Idle}] /\ Passes(r) /\ Goes(r)
  BY <1>1, <1>2, <1>3, <1>4, WaitsStep
<1>6. /\ receipts' \in [Legacy -> {"none", "pending", "cleared"}]
      /\ \A t \in Legacy : ReceiptStep(t)
  BY <1>1 DEF IInv, TypeOK, ReceiptStep
<1>7. TypeOK'
  BY <1>1, <1>5, <1>6 DEF IInv, TypeOK
<1>8. Moves
  BY <1>1, <1>6 DEF Moves, AnomalyStep
<1> QED
  BY <1>1, <1>5, <1>7, <1>8, StepKeeps

LEMMA AppliesKeeps ==
    ASSUME IInv, NEW r \in Requests, tenant.here, NEW s \in Legacy,
           NEW status \in Complete, sessions[s] \in Complete,
           status = "ended" => sessions[s] = "ended",
           handlers[r].fresh /\ tenant.sub \notin {None, s} => sessions[tenant.sub] = "ended",
           handlers[r].fresh /\ tenant.sub = s /\ tenant.status = "ended" => status = "ended",
           Applies(r, s, status)
    PROVE  Preserved
<1>1. s \in Sessions /\ s # None
  BY SessionFacts
<1>2. CASE Stops(r)
  BY <1>2, StopsKeeps
<1>3. CASE /\ handlers[r].fresh /\ Binds(r, Binding(s, status)) /\ Cleared(s)
           /\ UNCHANGED <<intents, removal, anomalies>> /\ Rest
  <2> PICK new : new = Binding(s, status)
    OBVIOUS
  <2>1. new \in Tenant /\ new.sub = s /\ new.status = status /\ (new.here <=> tenant.here)
    BY <1>1, BindingParts DEF Complete
  <2>2. Bindable(new)
    BY <1>1, <1>3, <2>1 DEF Bindable
  <2>3. tenant' = new /\ receipts' = [receipts EXCEPT ![s] = "cleared"]
    BY <1>3 DEF Binds, Cleared
  <2>4. /\ receipts' \in [Legacy -> {"none", "pending", "cleared"}]
        /\ \A t \in Legacy : ReceiptStep(t)
    BY <2>1, <2>3 DEF IInv, TypeOK, ReceiptStep
  <2>5. UNCHANGED <<intents, removal, anomalies, sessions, forgotten>>
    BY <1>3 DEF Rest
  <2> QED
    BY <1>3, <2>2, <2>4, <2>5, BindsKeeps DEF IInv, TypeOK
<1> QED
  BY <1>2, <1>3 DEF Applies, Unmoved

LEMMA LegacyHandler ==
    ASSUME IInv, NEW r \in Requests, NEW h \in Handler, h = handlers[r], h.kind = "legacy"
    PROVE  /\ h.pc \in {"read", "before"} /\ h.session \in Legacy /\ handlers[r] # Idle
           /\ sessions[h.session] \in Complete
           /\ h.fresh => tenant.sub = h.bound
           /\ h.target # None
           /\ h.pc = "read" => h.target = h.session /\ h.since \in Complete
           /\ h.pc = "before" => h.target = h.bound /\ h.status \in Complete
<1>1. handlers[r] # Idle
  BY HandlerParts
<1> QED
  BY <1>1, HandlerFits DEF Stays, Current

LEMMA AsksBefore ==
    ASSUME IInv, NEW r \in Requests, NEW h \in Handler, h = handlers[r], h.pc = "read",
           h.kind = "legacy", h.bound \notin {None, h.session}, tenant.here,
           NEW got \in Complete, NEW g, g = Noted(Calls(h, "before", h.bound), got)
    PROVE  g \in Handler /\ Fits(g) /\ g.pc # "verify"
<1>1. /\ h.session \in Legacy /\ sessions[h.session] \in Complete
      /\ h.fresh => tenant.sub = h.bound
  BY LegacyHandler
<1> PICK s \in Sessions : s = h.bound
  BY HandlerParts
<1>2. "before" \in Awaits /\ got \in SessionStates \cup {None}
  BY DEF Awaits, Complete, SessionStates
<1> PICK c : c = Calls(h, "before", s)
  OBVIOUS
<1>3. /\ c \in Handler /\ c.pc = "before" /\ c.kind = h.kind /\ c.session = h.session
      /\ c.target = s /\ c.since = sessions[s] /\ c.bound = h.bound /\ (c.fresh <=> h.fresh)
  BY <1>2, CallsParts, SessionFacts
<1>4. /\ g \in Handler /\ g.pc = "before" /\ g.kind = "legacy" /\ g.session = h.session
      /\ g.target = s /\ g.since = sessions[s] /\ g.bound = s /\ g.status = got
      /\ (g.fresh <=> h.fresh)
  BY <1>2, <1>3, NotedParts
<1>5. Stays(g)
  BY <1>1, <1>4, SessionFacts DEF Stays, Calling, Complete
<1>6. g.fresh => Current(g)
  BY <1>1, <1>4 DEF Current
<1> QED
  BY <1>4, <1>5, <1>6 DEF Fits

LEMMA LegacyKeeps ==
    ASSUME IInv, NEW r \in Requests, LegacyAnswered(r)
    PROVE  Preserved
<1> PICK h \in Handler : h = handlers[r]
  BY HandlerFits DEF LegacyAnswered
<1>1. h.pc = "read" /\ h.kind = "legacy"
  BY DEF LegacyAnswered
<1>2. /\ h.session \in Legacy /\ sessions[h.session] \in Complete
      /\ h.fresh => tenant.sub = h.bound
      /\ h.target = h.session /\ h.since \in Complete /\ h.target # None
      /\ h.fresh /\ tenant.sub = h.target /\ tenant.status = "ended" => h.since = "ended"
  BY <1>1, LegacyHandler, HandlerFits DEF Current
<1> PICK got \in Answers(h) :
        \/ Stops(r)
        \/ Active(r) /\ h.bound \in {None, h.session} /\ Applies(r, h.session, got)
        \/ /\ Active(r) /\ h.bound \notin {None, h.session}
           /\ Keeps(r, Noted(Calls(h, "before", h.bound), got)) /\ NoRecords /\ Rest
  BY DEF LegacyAnswered, Noted
<1>3. /\ got \in Complete /\ (got = "ended" => sessions[h.session] = "ended")
      /\ h.since = "ended" => got = "ended"
  BY <1>2, AnswerFits DEF Answers, Complete
<1>4. CASE Stops(r)
  BY <1>4, StopsKeeps
<1>5. CASE Active(r) /\ h.bound \in {None, h.session} /\ Applies(r, h.session, got)
  BY <1>2, <1>3, <1>5, AppliesKeeps DEF Active
<1>6. CASE /\ Active(r) /\ h.bound \notin {None, h.session}
           /\ Keeps(r, Noted(Calls(h, "before", h.bound), got)) /\ NoRecords /\ Rest
  <2> PICK g : g = Noted(Calls(h, "before", h.bound), got)
    OBVIOUS
  <2>1. g \in Handler /\ Fits(g) /\ g.pc # "verify"
    BY <1>1, <1>3, <1>6, AsksBefore DEF Active
  <2>2. /\ handlers' = [handlers EXCEPT ![r] = g] /\ UNCHANGED <<operation, leases>>
        /\ operation' \in Requests \cup {None}
    BY <1>6 DEF Keeps, IInv, TypeOK
  <2> QED
    BY <1>6, <2>1, <2>2, WaitingKeeps
<1> QED
  BY <1>4, <1>5, <1>6

LEMMA LegacyPrevKeeps ==
    ASSUME IInv, NEW r \in Requests, LegacyPrevAnswered(r)
    PROVE  Preserved
<1> PICK h \in Handler : h = handlers[r]
  BY HandlerFits DEF LegacyPrevAnswered
<1>1. h.pc = "before" /\ h.kind = "legacy"
  BY HandlerFits DEF LegacyPrevAnswered, Stays
<1> PICK s \in Legacy : s = h.session
  BY <1>1, LegacyHandler
<1>2. /\ sessions[s] \in Complete /\ h.target # None /\ s \in Sessions
      /\ h.fresh => tenant.sub = h.target
      /\ h.status \in Complete /\ h.target # s
  BY <1>1, LegacyHandler, SessionFacts, HandlerFits DEF Stays
<1> PICK got \in Answers(h) :
        \/ Stops(r)
        \/ Active(r) /\ got = "ended" /\ h.status # "ended" /\ Applies(r, s, h.status)
        \/ /\ Active(r)
           /\ anomalies' = [anomalies EXCEPT ![s] = IF @ = "none" THEN "open" ELSE @]
           /\ Cleared(s) /\ Ends(r) /\ UNCHANGED <<tenant, intents, removal>> /\ Rest
  BY DEF LegacyPrevAnswered, GivesWay
<1>3. got = "ended" => sessions[h.target] = "ended"
  BY <1>2, AnswerFits
<1>4. CASE Stops(r)
  BY <1>4, StopsKeeps
<1>5. CASE Active(r) /\ got = "ended" /\ h.status # "ended" /\ Applies(r, s, h.status)
  BY <1>2, <1>3, <1>5, AppliesKeeps DEF Active
<1>6. CASE /\ Active(r)
           /\ anomalies' = [anomalies EXCEPT ![s] = IF @ = "none" THEN "open" ELSE @]
           /\ Cleared(s) /\ Ends(r) /\ UNCHANGED <<tenant, intents, removal>> /\ Rest
  <2>1. /\ tenant.here /\ receipts' = [receipts EXCEPT ![s] = "cleared"]
        /\ UNCHANGED <<tenant, intents, removal, sessions, forgotten>>
    BY <1>6 DEF Active, Cleared, Rest
  <2>2. /\ anomalies' \in [Sessions -> {"none", "open", "resolved"}]
        /\ \A t \in Sessions : AnomalyStep(t)
        /\ anomalies'[s] # "none"
    BY <1>2, <1>6, <2>1 DEF IInv, TypeOK, AnomalyStep
  <2>3. /\ receipts' \in [Legacy -> {"none", "pending", "cleared"}]
        /\ \A t \in Legacy : ReceiptStep(t)
    BY <1>2, <2>1, <2>2 DEF IInv, TypeOK, ReceiptStep
  <2>4. TypeOK'
    BY <1>6, <2>1, <2>2, <2>3, EndsStep DEF IInv, TypeOK
  <2>5. Moves
    BY <2>1, <2>2, <2>3 DEF Moves
  <2> QED
    BY <1>6, <2>1, <2>4, <2>5, EndsStep, StepKeeps
<1> QED
  BY <1>4, <1>5, <1>6

LEMMA NoticeKeeps ==
    ASSUME IInv, NEW r \in Requests, NEW s \in Sessions, SubscriptionEvent(r, s)
    PROVE  Preserved
<1>1. /\ tenant.here /\ tenant.sub = s /\ operation' = r /\ UNCHANGED leases
      /\ NoRecords /\ Rest
      /\ handlers' = [handlers EXCEPT ![r] = Begins(r, "subscription", "read", None, s, s)]
  BY DEF SubscriptionEvent, MayOperate
<1>2. sessions[s] \in Complete
  BY <1>1, SessionFacts DEF IInv, Books, BoundTrue
<1> PICK h : h = Begins(r, "subscription", "read", None, s, s)
  OBVIOUS
<1>3. h \in Handler /\ Fits(h) /\ h.pc # "verify"
  BY <1>1, <1>2, BeginsWaiting
<1> QED
  BY <1>1, <1>3, WaitingKeeps

LEMMA SubscriptionKeeps ==
    ASSUME IInv, NEW r \in Requests, SubscriptionAnswered(r)
    PROVE  Preserved
<1> PICK h \in Handler : h = handlers[r]
  BY HandlerFits DEF SubscriptionAnswered
<1>1. h.pc = "read" /\ h.kind = "subscription" /\ handlers[r] # Idle
  BY DEF SubscriptionAnswered
<1>2. /\ h.target # None /\ h.since \in Complete
      /\ h.fresh => tenant.sub = h.target /\ (tenant.status = "ended" => h.since = "ended")
  BY <1>1, HandlerFits DEF Stays, Current
<1> PICK got \in Answers(h) :
        \/ Stops(r)
        \/ /\ Active(r) /\ h.fresh /\ Binds(r, WithStatus(got))
           /\ UNCHANGED <<intents, removal, anomalies, receipts>> /\ Rest
  BY DEF SubscriptionAnswered, WithStatus, Unmoved
<1>3. /\ got \in Complete /\ (got = "ended" => sessions[h.target] = "ended")
      /\ h.since = "ended" => got = "ended"
  BY <1>2, AnswerFits DEF Answers, Complete
<1>4. CASE Stops(r)
  BY <1>4, StopsKeeps
<1>5. CASE /\ Active(r) /\ h.fresh /\ Binds(r, WithStatus(got))
           /\ UNCHANGED <<intents, removal, anomalies, receipts>> /\ Rest
  <2>1. Bindable(WithStatus(got))
    BY <1>2, <1>3, <1>5, StatusBindable DEF Active, Complete
  <2> QED
    BY <1>5, <2>1, BindsOnly
<1> QED
  BY <1>4, <1>5

-----------------------------------------------------------------------------
(* The actions: the review of an anomaly                                     *)

LEMMA AnomalyKeeps ==
    ASSUME IInv, NEW r \in Requests, NEW s \in Sessions, ResolveAnomaly(r, s)
    PROVE  Preserved
<1>1. /\ tenant.here /\ anomalies[s] = "open" /\ NoRecords /\ Rest
      /\ UNCHANGED <<operation, leases>>
      /\ handlers' = [handlers EXCEPT ![r] = Begins(r, "resolve", "judge", None, s, s)]
  BY DEF ResolveAnomaly
<1> PICK h : h = Begins(r, "resolve", "judge", None, s, s)
  OBVIOUS
<1>2. "resolve" \in Kinds /\ "judge" \in Awaits /\ s # None
  BY SessionFacts DEF Kinds, Awaits
<1>3. Began(h, r, "resolve", "judge", None, s, s)
  BY <1>2, BeginsParts
<1>4. Stays(h)
  BY <1>1, <1>2, <1>3 DEF Began, Stays, Calling, Complete
<1>5. Current(h)
  BY <1>1, <1>3 DEF Began, Current
<1>6. h \in Handler /\ Fits(h) /\ h.pc # "verify"
  BY <1>3, <1>4, <1>5 DEF Began, Fits
<1>7. operation' \in Requests \cup {None}
  BY <1>1 DEF IInv, TypeOK
<1> QED
  BY <1>1, <1>6, <1>7, WaitingKeeps

Reviewed(row) == [row EXCEPT !.resolved = TRUE]

LEMMA ReviewedStep ==
    ASSUME IInv, NEW i \in Intents, intents[i].state \in OpenStates,
           intents[i].session # None, NEW s, s = intents[i].session,
           sessions[s] \in {"expired", "ended"} \/ (sessions[s] = "active" /\ tenant.sub = s)
    PROVE  RowStep(i, Reviewed(intents[i]), tenant.sub)
<1>1. i \in Used /\ intents[i] \in Intent
  BY DEF Used, OpenStates, IInv, TypeOK
<1>2. s = First(i)
  BY <1>1, PaidFirst
<1>3. /\ Reviewed(intents[i]) \in Intent /\ Reviewed(intents[i]).state = intents[i].state
      /\ Reviewed(intents[i]).session = s
  BY <1>1 DEF Reviewed, Intent
<1>4. intents[i].state # "none"
  BY <1>1 DEF Used
<1> HIDE DEF Reviewed
<1> QED
  BY <1>1, <1>2, <1>3, <1>4 DEF RowStep, Settled

LEMMA ResolveKeeps ==
    ASSUME IInv, NEW r \in Requests, ResolveAnswered(r)
    PROVE  Preserved
<1> PICK h \in Handler : h = handlers[r]
  BY HandlerFits DEF ResolveAnswered
<1>1. h.pc = "judge" /\ handlers[r] # Idle
  BY DEF ResolveAnswered
<1>2. h.target # None /\ h.target = h.session /\ anomalies[h.session] # "none"
  BY <1>1, HandlerFits DEF Stays
<1> PICK s \in Sessions : s = h.session
  BY <1>2, HandlerParts
<1>3. s # None
  BY SessionFacts
<1> DEFINE closes == {i \in Intents : intents[i].session = s /\ intents[i].state \in OpenStates}
<1> PICK got \in Answers(h) :
        \/ Stops(r)
        \/ /\ Harmless(s, got)
           /\ anomalies' = [anomalies EXCEPT ![s] = "resolved"]
           /\ intents' = [i \in Intents |->
                   IF i \in closes THEN Reviewed(intents[i]) ELSE intents[i]]
           /\ Ends(r) /\ UNCHANGED <<tenant, removal, receipts>> /\ Rest
  BY DEF ResolveAnswered, Reviewed
<1>4. CASE Stops(r)
  BY <1>4, StopsKeeps
<1>5. CASE /\ Harmless(s, got)
           /\ anomalies' = [anomalies EXCEPT ![s] = "resolved"]
           /\ intents' = [i \in Intents |->
                   IF i \in closes THEN Reviewed(intents[i]) ELSE intents[i]]
           /\ Ends(r) /\ UNCHANGED <<tenant, removal, receipts>> /\ Rest
  <2>1. /\ got = "expired" => sessions[s] = "expired"
        /\ got = "ended" => sessions[s] = "ended"
        /\ got = "active" => sessions[s] \in Complete
    BY <1>2, AnswerFits DEF Complete
  <2>2. sessions[s] \in {"expired", "ended"} \/ (sessions[s] = "active" /\ tenant.sub = s)
    BY <1>5, <2>1 DEF Harmless, Complete
  <2>3. UNCHANGED <<tenant, removal, receipts, sessions, forgotten>>
    BY <1>5 DEF Rest
  <2>4. \A i \in closes : RowStep(i, Reviewed(intents[i]), tenant.sub)
    BY <1>3, <2>2, ReviewedStep
  <2>5. /\ intents' \in [Intents -> Intent]
        /\ \A i \in Intents : intents'[i] = intents[i] \/ RowStep(i, intents'[i], tenant.sub)
    BY <1>5, <2>4 DEF IInv, TypeOK, RowStep
  <2>6. /\ anomalies' \in [Sessions -> {"none", "open", "resolved"}]
        /\ \A t \in Sessions : AnomalyStep(t)
    <3>1. anomalies' = [anomalies EXCEPT ![s] = "resolved"] /\ anomalies[s] \in {"open", "resolved"}
      BY <1>2, <1>5 DEF IInv, TypeOK
    <3>2. AnomalyStep(s)
      BY <2>2, <2>3, <3>1 DEF IInv, TypeOK, AnomalyStep
    <3>3. \A t \in Sessions : t # s => AnomalyStep(t)
      BY <3>1 DEF IInv, TypeOK, AnomalyStep
    <3> QED
      BY <3>1, <3>2, <3>3 DEF IInv, TypeOK
  <2>7. TypeOK'
    BY <1>5, <2>3, <2>5, <2>6, EndsStep DEF IInv, TypeOK
  <2>8. Moves
    BY <2>3, <2>5, <2>6 DEF Moves, ReceiptStep
  <2> QED
    BY <1>5, <2>3, <2>7, <2>8, EndsStep, StepKeeps
<1> QED
  BY <1>4, <1>5

-----------------------------------------------------------------------------
(* The actions: the removal of the shop                                      *)

LEMMA LiabilitiesOwed ==
    ASSUME IInv
    PROVE  Liabilities \subseteq Sessions /\ Owed(Digest) = Liabilities
<1>1. Owed(Digest) = Liabilities
  BY DEF Owed, Digest, Liabilities, Used, Pending
<1>2. Liabilities \subseteq Sessions
  BY SubTyped, RowParts, SessionFacts DEF Liabilities, Used, Pending, IInv, TypeOK
<1> QED
  BY <1>1, <1>2

LEMMA RemovesKeeps ==
    ASSUME IInv, NEW r \in Requests, tenant.here, ~Blocked,
           \A s \in Sessions : s \in Liabilities => sessions[s] = "ended",
           Removes(r)
    PROVE  Preserved
<1>1. /\ tenant' = [tenant EXCEPT !.here = FALSE]
      /\ removal' = [state |-> "deleted", by |-> None, digest |-> None]
      /\ receipts' = [s \in Legacy |-> IF receipts[s] = "pending" THEN "cleared" ELSE receipts[s]]
      /\ handlers' = [q \in Requests |-> IF q = r THEN Idle ELSE Outdated(handlers[q])]
      /\ UNCHANGED <<intents, leases, operation, anomalies, sessions, forgotten>>
  BY DEF Removes, Rest
<1>2. Unresolved = {} /\ \A s \in Sessions : anomalies[s] # "open"
  BY DEF Blocked
<1>3. /\ tenant' \in Tenant /\ ~tenant'.here
      /\ tenant'.sub = tenant.sub /\ tenant'.status = tenant.status
  BY <1>1, SubTyped DEF Tenant
<1>4. removal'.state = "deleted" /\ removal'.by = None
  BY <1>1
<1>5. Passes(r) /\ Goes(r) /\ handlers' \in [Requests -> Handler \cup {Idle}]
  <2>1. \A q \in Requests : Outdated(handlers[q]) \in Handler \cup {Idle}
    BY OutdatedTyped DEF IInv, TypeOK, Outdated
  <2> QED
    BY <1>1, <2>1 DEF Passes, Goes
<1>6. TypeOK'
  BY <1>1, <1>3, <1>4, <1>5 DEF IInv, TypeOK
<1>7. \A s \in Sessions : s \in Liabilities \/ ~(tenant.sub = s \/ anomalies[s] # "none")
  BY SessionFacts DEF Liabilities
<1>8. \A i \in Used : sessions[First(i)] \in {"expired", "ended"}
  <2> SUFFICES ASSUME NEW i \in Used PROVE sessions[First(i)] \in {"expired", "ended"}
    OBVIOUS
  <2>1. First(i) \in Modern /\ First(i) \in Sessions /\ First(i)[1] = i
    BY SessionFacts DEF Used, First
  <2>2. Settled(i)
    BY <1>2 DEF IInv, Books, ClosedSettled
  <2>3. sessions[First(i)] # "active"
    BY <1>2, <1>7, <2>1 DEF IInv, Books, RunningIsKnown
  <2> QED
    BY <2>2, <2>3 DEF Settled
<1>9. \A s \in Legacy : sessions[s] = "active" =>
          tenant.sub # s /\ receipts[s] = "none" /\ anomalies[s] = "none"
  <2> SUFFICES ASSUME NEW s \in Legacy, sessions[s] = "active"
               PROVE  tenant.sub # s /\ receipts[s] = "none" /\ anomalies[s] = "none"
    OBVIOUS
  <2>1. s \in Sessions /\ s # None
    BY SessionFacts
  <2>2. tenant.sub # s /\ anomalies[s] = "none"
    BY <1>7, <2>1
  <2>3. receipts[s] # "pending"
    BY <2>1 DEF Liabilities, Pending
  <2>4. receipts[s] # "cleared"
    BY <2>2 DEF IInv, Books, LegacyKnown
  <2> QED
    BY <2>2, <2>3, <2>4 DEF IInv, TypeOK
<1>10. Gone'
  BY <1>1, <1>3, <1>4, <1>8, <1>9 DEF Gone, Used
<1>11. RowsNumbered' /\ OwnSession' /\ KeysHold' /\ OneUnsettled' /\ ClosedSettled'
  BY <1>1 DEF IInv, Books, RowsNumbered, OwnSession, KeysHold, OneUnsettled, ClosedSettled,
              Used, Unresolved, Settled
<1>12. RunningIsKnown' /\ BoundTrue'
  BY <1>1, <1>3 DEF IInv, Books, RunningIsKnown, BoundTrue, Unresolved
<1>13. LegacyPaid' /\ LegacyKnown'
  BY <1>1, <1>3 DEF IInv, Books, LegacyPaid, LegacyKnown
<1>14. Grows
  BY <1>1 DEF Grows, Used
<1>15. HandlersFit' /\ Verified'
  BY <1>1, <1>4, <1>5, <1>6, <1>14, PassesFit
<1> QED
  BY <1>3, <1>6, <1>10, <1>11, <1>12, <1>13, <1>15 DEF IInv, Books, Preserved, TenantStep

LEMMA UnbilledKeeps ==
    ASSUME IInv, NEW r \in Requests, RemoveUnbilled(r)
    PROVE  Preserved
<1>1. tenant.here /\ ~Blocked /\ Removes(r) /\ Liabilities = {}
  BY DEF RemoveUnbilled, Billed
<1> QED
  BY <1>1, RemovesKeeps

(* A handler that asks about one of the subscriptions left *)
Asking(h, s, todo) == [Calls(h, "verify", s) EXCEPT !.todo = todo]

LEMMA AskingFits ==
    ASSUME IInv, NEW h \in Handler, h.kind = "remove",
           NEW s \in Sessions, NEW todo \in SUBSET Sessions,
           NEW g, g = Asking(h, s, todo)
    PROVE  /\ g \in Handler /\ g.pc = "verify" /\ g.kind = "remove"
           /\ g.target = s /\ g.todo = todo /\ Fits(g)
<1> PICK c : c = Calls(h, "verify", s)
  OBVIOUS
<1>1. "verify" \in Awaits /\ s # None /\ s \in Sessions \cup {None}
  BY SessionFacts DEF Awaits
<1>2. c \in Handler /\ c.pc = "verify" /\ c.kind = "remove" /\ c.target = s /\ c.since = sessions[s]
  BY <1>1, CallsParts
<1>3. /\ g \in Handler /\ g.pc = "verify" /\ g.kind = "remove" /\ g.target = s
      /\ g.since = sessions[s] /\ g.todo = todo
  BY <1>2 DEF Asking, Handler
<1>4. Stays(g)
  BY <1>1, <1>3 DEF Stays, Calling, Complete
<1>5. Current(g)
  BY <1>3 DEF Current
<1> QED
  BY <1>3, <1>4, <1>5 DEF Fits

(* The removal is checked, and its handler asks. *)
LEMMA VerifyingKeeps ==
    ASSUME IInv, NEW r \in Requests, NEW g \in Handler, handlers' = [handlers EXCEPT ![r] = g],
           Fits(g), g.pc = "verify", g.target \in g.todo,
           UNCHANGED <<tenant, intents, leases, operation, anomalies, receipts,
                       sessions, forgotten>>,
           removal' = removal \/ (tenant.here /\ removal'.by = r),
           removal'.state = "checking" /\ removal'.by \in Requests \cup {None},
           \A s \in Sessions : s \in Owed(removal'.digest) \ g.todo => sessions[s] = "ended"
    PROVE  Preserved
<1>1. Fits(g)'
  BY DEF Fits, Stays, Current, Used
<1>2. Checks(g)'
  BY DEF Checks
<1>3. /\ handlers' \in [Requests -> Handler \cup {Idle}]
      /\ Passes(r) /\ Goes(r)
  BY <1>1, <1>2 DEF IInv, TypeOK, Passes, Goes
<1>4. TypeOK'
  BY <1>3 DEF IInv, TypeOK
<1>5. Moves
  BY DEF Moves, AnomalyStep, ReceiptStep
<1> QED
  BY <1>3, <1>4, <1>5, StepKeeps

(* The removal is given up. *)
LEMMA GivesUpKeeps ==
    ASSUME IInv, NEW r \in Requests, tenant.here,
           handlers' = [handlers EXCEPT ![r] = Idle] \/ (handlers' = handlers /\ handlers[r] = Idle),
           operation' \in Requests \cup {None}, leases' \in [Intents -> Requests \cup {None}],
           removal' = NoRemoval,
           UNCHANGED <<tenant, intents, anomalies, receipts, sessions, forgotten>>
    PROVE  Preserved
<1>1. /\ handlers' \in [Requests -> Handler \cup {Idle}]
      /\ Passes(r) /\ Goes(r)
  BY DEF IInv, TypeOK, Passes, Goes
<1>2. removal'.state = "no" /\ removal'.by = None
  BY DEF NoRemoval
<1>3. TypeOK'
  BY <1>1, <1>2 DEF IInv, TypeOK
<1>4. Moves
  BY DEF Moves, AnomalyStep, ReceiptStep
<1> QED
  BY <1>1, <1>2, <1>3, <1>4, StepKeeps

BeginsAsking(r, s, todo) ==
    [Begins(r, "remove", "verify", None, None, s) EXCEPT !.todo = todo]

LEMMA BeginsAskingFits ==
    ASSUME IInv, NEW r \in Requests, NEW s \in Sessions, NEW todo \in SUBSET Sessions,
           NEW g, g = BeginsAsking(r, s, todo)
    PROVE  /\ g \in Handler /\ g.pc = "verify" /\ g.target = s /\ g.todo = todo /\ Fits(g)
<1> PICK c : c = Begins(r, "remove", "verify", None, None, s)
  OBVIOUS
<1>1. "remove" \in Kinds /\ "verify" \in Awaits /\ s # None /\ s \in Sessions \cup {None}
  BY SessionFacts DEF Kinds, Awaits
<1>2. Began(c, r, "remove", "verify", None, None, s)
  BY <1>1, BeginsParts
<1>3. /\ g \in Handler /\ g.pc = "verify" /\ g.kind = "remove" /\ g.target = s
      /\ g.since = sessions[s] /\ g.todo = todo
  BY <1>1, <1>2 DEF BeginsAsking, Handler, Began
<1>4. Stays(g)
  BY <1>1, <1>3 DEF Stays, Calling, Complete
<1>5. Current(g)
  BY <1>3 DEF Current
<1> QED
  BY <1>3, <1>4, <1>5 DEF Fits

LEMMA BilledKeeps ==
    ASSUME IInv, NEW r \in Requests, RemoveBilled(r)
    PROVE  Preserved
<1>1. /\ tenant.here /\ handlers[r] = Idle
      /\ UNCHANGED <<tenant, intents, leases, operation, anomalies, receipts, sessions, forgotten>>
  BY DEF RemoveBilled, Rest
<1>2. CASE removal' = NoRemoval /\ UNCHANGED handlers
  BY <1>1, <1>2, GivesUpKeeps DEF IInv, TypeOK
<1>3. CASE /\ removal' = [state |-> "checking", by |-> r, digest |-> Digest]
           /\ \E s \in Liabilities :
                  handlers' = [handlers EXCEPT ![r] = BeginsAsking(r, s, Liabilities)]
  <2> PICK s \in Liabilities :
          handlers' = [handlers EXCEPT ![r] = BeginsAsking(r, s, Liabilities)]
    BY <1>3
  <2>1. Liabilities \in SUBSET Sessions /\ s \in Sessions /\ Owed(Digest) = Liabilities
    BY LiabilitiesOwed
  <2> PICK g : g = BeginsAsking(r, s, Liabilities)
    OBVIOUS
  <2>2. /\ g \in Handler /\ g.pc = "verify" /\ g.target = s /\ g.todo = Liabilities /\ Fits(g)
    BY <2>1, BeginsAskingFits
  <2> PICK digest : digest = Digest
    OBVIOUS
  <2>3. removal'.state = "checking" /\ removal'.by = r /\ removal'.digest = digest
    BY <1>3
  <2>4. \A t \in Sessions : t \in Owed(removal'.digest) \ g.todo => sessions[t] = "ended"
    BY <2>1, <2>2, <2>3
  <2> QED
    BY <1>1, <2>2, <2>3, <2>4, VerifyingKeeps
<1> QED
  BY <1>2, <1>3 DEF RemoveBilled, Fails, BeginsAsking

LEMMA VerifyKeeps ==
    ASSUME IInv, NEW r \in Requests, VerifyAnswered(r)
    PROVE  Preserved
<1> PICK h \in Handler : h = handlers[r]
  BY HandlerFits DEF VerifyAnswered
<1>1. h.pc = "verify" /\ handlers[r] # Idle
  BY DEF VerifyAnswered
<1>2. h.target # None /\ h.kind = "remove"
  BY <1>1, HandlerFits DEF Stays
<1> PICK todo : todo = h.todo \ {h.target}
  OBVIOUS
<1> DEFINE gone == Ends(r) /\ UNCHANGED <<tenant, intents, anomalies, receipts>> /\ Rest
<1> PICK got \in Answers(h) :
        \/ gone /\ (IF removal.by = r THEN removal' = NoRemoval ELSE UNCHANGED removal)
        \/ gone /\ removal.by = r /\ removal' = NoRemoval
        \/ /\ Certain(r) /\ got = "ended" /\ todo # {}
           /\ \E s \in todo : Keeps(r, Asking(h, s, todo))
           /\ NoRecords /\ Rest
        \/ /\ Certain(r) /\ got = "ended" /\ todo = {} /\ ~Blocked /\ Removes(r)
  BY DEF VerifyAnswered, Fails, Asking, Certain
<1>3. h.target \in Sessions /\ todo \in SUBSET Sessions
      /\ (got = "ended" => sessions[h.target] = "ended")
  BY <1>2, HandlerParts, AnswerFits
<1>4. removal.by = r => tenant.here
  BY SessionFacts DEF IInv, Books, Gone
<1>5. CASE gone /\ UNCHANGED removal
  BY <1>5, StopsKeeps DEF Stops, NoRecords
<1>6. CASE gone /\ removal.by = r /\ removal' = NoRemoval
  <2>1. /\ handlers' = [handlers EXCEPT ![r] = Idle]
        /\ UNCHANGED <<tenant, intents, anomalies, receipts, sessions, forgotten>>
        /\ operation' \in Requests \cup {None} /\ leases' \in [Intents -> Requests \cup {None}]
    BY <1>6, EndsStep DEF Ends, Rest
  <2> QED
    BY <1>4, <1>6, <2>1, GivesUpKeeps
<1>7. ASSUME Certain(r), got = "ended"
      PROVE  /\ removal.state = "checking" /\ removal.by = r /\ removal.digest = Digest
             /\ \A s \in Sessions : s \in Owed(removal.digest) \ todo => sessions[s] = "ended"
  <2>1. removal.state = "checking" /\ removal.by = r /\ removal.digest = Digest
    BY <1>7 DEF Certain
  <2>2. \A s \in Sessions : s \in Owed(removal.digest) \ h.todo => sessions[s] = "ended"
    BY <1>1, <2>1 DEF IInv, Verified, Checking
  <2> QED
    BY <1>3, <1>7, <2>1, <2>2
<1>8. CASE /\ Certain(r) /\ got = "ended" /\ todo # {}
           /\ \E s \in todo : Keeps(r, Asking(h, s, todo))
           /\ NoRecords /\ Rest
  <2> PICK s \in todo : Keeps(r, Asking(h, s, todo))
    BY <1>8
  <2> PICK g : g = Asking(h, s, todo)
    OBVIOUS
  <2>1. g \in Handler /\ g.pc = "verify" /\ g.target = s /\ g.todo = todo /\ Fits(g)
    BY <1>2, <1>3, AskingFits
  <2>2. /\ handlers' = [handlers EXCEPT ![r] = g]
        /\ UNCHANGED <<tenant, intents, leases, operation, anomalies, receipts,
                       sessions, forgotten>>
        /\ removal' = removal
    BY <1>8 DEF Keeps, NoRecords, Rest
  <2>3. removal.by \in Requests \cup {None}
    BY DEF IInv, TypeOK
  <2> QED
    BY <1>7, <1>8, <2>1, <2>2, <2>3, VerifyingKeeps
<1>9. CASE Certain(r) /\ got = "ended" /\ todo = {} /\ ~Blocked /\ Removes(r)
  <2>1. \A s \in Sessions : s \in Liabilities => sessions[s] = "ended"
    BY <1>7, <1>9, LiabilitiesOwed
  <2> QED
    BY <1>4, <1>7, <1>9, <2>1, RemovesKeeps
<1> QED
  BY <1>5, <1>6, <1>8, <1>9

-----------------------------------------------------------------------------
(* The actions: failures, and what runs out                                  *)

LEMMA FailsKeeps ==
    ASSUME IInv, NEW r \in Requests, CallFails(r)
    PROVE  Preserved
<1> PICK h \in Handler : h = handlers[r]
  BY HandlerFits DEF CallFails
<1>1. handlers[r] # Idle
  BY DEF CallFails
<1>2. CASE h.pc \in Calling /\ Unavailable(r, intents[h.intent])
  <2>1. h.intent \in Used
    BY <1>1, <1>2, HandlerFits DEF Stays
  <2> QED
    BY <1>2, <2>1, OldRow, UnavailableKeeps
<1>3. CASE Stops(r)
  BY <1>3, StopsKeeps
<1>4. CASE /\ Ends(r) /\ UNCHANGED <<tenant, intents, anomalies, receipts>> /\ Rest
           /\ removal.by = r /\ removal' = NoRemoval
  <2>1. tenant.here
    BY <1>4, SessionFacts DEF IInv, Books, Gone
  <2>2. /\ handlers' = [handlers EXCEPT ![r] = Idle]
        /\ UNCHANGED <<tenant, intents, anomalies, receipts, sessions, forgotten>>
        /\ operation' \in Requests \cup {None} /\ leases' \in [Intents -> Requests \cup {None}]
    BY <1>4, EndsStep DEF Ends, Rest
  <2> QED
    BY <1>4, <2>1, <2>2, GivesUpKeeps
<1>5. CASE /\ Ends(r) /\ UNCHANGED <<tenant, intents, anomalies, receipts>> /\ Rest
           /\ UNCHANGED removal
  BY <1>5, StopsKeeps DEF Stops, NoRecords
<1> QED
  BY <1>2, <1>3, <1>4, <1>5 DEF CallFails, Calling, Fails

(* The records stay as they are, and every handler goes on or is gone. *)
LEMMA QuietKeeps ==
    ASSUME IInv, TypeOK',
           UNCHANGED <<tenant, intents, anomalies, receipts, sessions, forgotten>>,
           handlers' = handlers \/ handlers' = [r \in Requests |-> Idle],
           removal' = removal \/ (tenant.here /\ removal'.state # "checking")
    PROVE  Preserved
<1>1. Moves
  BY DEF Moves, AnomalyStep, ReceiptStep
<1>2. Books'
  BY <1>1, BooksKept
<1>3. HandlersFit'
  <2> SUFFICES ASSUME NEW r \in Requests, NEW h \in Handler, handlers'[r] = h
               PROVE  Fits(h)'
    BY DEF HandlersFit
  <2>1. handlers[r] = h
    BY HandlerParts
  <2>2. Fits(h)
    BY <2>1 DEF IInv, HandlersFit
  <2> QED
    BY <2>2 DEF Fits, Stays, Current, Used
<1>4. Verified'
  BY DEF IInv, Verified, Checking
<1> QED
  BY <1>2, <1>3, <1>4 DEF IInv, Preserved, TenantStep

LEMMA CheckedIsHere ==
    ASSUME IInv, Checking
    PROVE  tenant.here
BY DEF IInv, Books, Gone, Checking

LEMMA CrashKeeps ==
    ASSUME IInv, Crash
    PROVE  Preserved
<1>1. /\ UNCHANGED <<tenant, intents, anomalies, receipts, sessions, forgotten>>
      /\ handlers' = [r \in Requests |-> Idle] /\ operation' = None
      /\ leases' = [i \in Intents |-> None]
      /\ removal' = IF Checking THEN NoRemoval ELSE removal
  BY DEF Crash, Rest
<1>2. NoRemoval.state = "no" /\ NoRemoval.by = None
  BY DEF NoRemoval
<1>3. TypeOK'
  BY <1>1, <1>2 DEF IInv, TypeOK
<1>4. removal' = removal \/ (tenant.here /\ removal'.state # "checking")
  BY <1>1, <1>2, CheckedIsHere
<1> QED
  BY <1>1, <1>3, <1>4, QuietKeeps

LEMMA LapseKeeps ==
    ASSUME IInv, OperationLapses \/ (\E i \in Intents : LeaseLapses(i)) \/ RemovalLapses
    PROVE  Preserved
<1>1. NoRemoval.state = "no" /\ NoRemoval.by = None
  BY DEF NoRemoval
<1>2. CASE OperationLapses
  <2>1. UNCHANGED <<tenant, intents, anomalies, receipts, sessions, forgotten, handlers, removal>>
    BY <1>2 DEF OperationLapses, NoRecords, Rest
  <2>2. TypeOK'
    BY <1>2, <2>1 DEF OperationLapses, IInv, TypeOK
  <2> QED
    BY <2>1, <2>2, QuietKeeps
<1>3. ASSUME NEW i \in Intents, LeaseLapses(i) PROVE Preserved
  <2>1. UNCHANGED <<tenant, intents, anomalies, receipts, sessions, forgotten, handlers, removal>>
    BY <1>3 DEF LeaseLapses, NoRecords, Rest
  <2>2. TypeOK'
    BY <1>3, <2>1 DEF LeaseLapses, IInv, TypeOK
  <2> QED
    BY <2>1, <2>2, QuietKeeps
<1>4. CASE RemovalLapses
  <2>1. /\ UNCHANGED <<tenant, intents, anomalies, receipts, sessions, forgotten, handlers>>
        /\ removal' = NoRemoval /\ tenant.here /\ UNCHANGED <<leases, operation>>
    BY <1>4, CheckedIsHere DEF RemovalLapses, Rest
  <2>2. TypeOK'
    BY <1>1, <2>1 DEF IInv, TypeOK
  <2> QED
    BY <1>1, <2>1, <2>2, QuietKeeps
<1> QED
  BY <1>2, <1>3, <1>4

-----------------------------------------------------------------------------
(* The actions: Stripe and whoever pays                                      *)

(* The only session that a checkout has had is its first one. *)
LEMMA MadeFirst ==
    ASSUME IInv, NEW i \in Intents
    PROVE  LET made == {s \in Modern : s[1] = i /\ sessions[s] # "none"}
           IN  made = IF sessions[First(i)] = "none" THEN {} ELSE {First(i)}
<1>1. sessions[<<i, 2>>] = "none"
  BY DEF IInv, Books, KeysHold
<1>2. First(i) \in Modern /\ First(i)[1] = i
  BY SessionFacts DEF First
<1>3. \A s \in Modern : s[1] = i => s = First(i) \/ s = <<i, 2>>
  BY SessionFacts
<1> QED
  BY <1>1, <1>2, <1>3

Sent(h, s, state) == [h EXCEPT !.target = s, !.since = state]

LEMMA SentParts ==
    ASSUME NEW h \in Handler, NEW s \in Sessions, NEW state \in SessionStates
    PROVE  /\ Sent(h, s, state) \in Handler /\ Sent(h, s, state).pc = h.pc
           /\ Sent(h, s, state).target = s /\ Sent(h, s, state).since = state
           /\ Sent(h, s, state).kind = h.kind /\ Sent(h, s, state).intent = h.intent
           /\ Sent(h, s, state).session = h.session /\ (Sent(h, s, state).fresh <=> h.fresh)
BY DEF Sent, Handler

LEMMA CreatesStep ==
    ASSUME IInv, NEW r \in Requests, StripeCreates(r), NEW h \in Handler, h = handlers[r]
    PROVE  LET s == First(h.intent)
           IN  /\ h.pc = "create" /\ h.intent \in Used /\ handlers[r] # Idle
               /\ \/ sessions[s] # "none" /\ sessions' = sessions
                  \/ sessions[s] = "none" /\ sessions' = [sessions EXCEPT ![s] = "open"]
               /\ handlers' = [handlers EXCEPT ![r] = Sent(h, s, sessions'[s])]
               /\ UNCHANGED <<tenant, intents, leases, operation, removal, anomalies,
                              receipts, forgotten>>
<1>1. /\ h.pc = "create" /\ handlers[r] # Idle
      /\ UNCHANGED <<tenant, intents, leases, operation, removal, anomalies, receipts, forgotten>>
  BY DEF StripeCreates, Untouched
<1>2. h.intent \in Used /\ ~forgotten[h.intent]
  BY <1>1, HandlerFits DEF Stays, Calling
<1> PICK i \in Used : i = h.intent
  BY <1>2
<1> DEFINE made == {s \in Modern : s[1] = i /\ sessions[s] # "none"}
           new == <<i, Cardinality(made) + 1>>
           again == made # {} /\ ~forgotten[i]
           s == IF again THEN CHOOSE t \in made : \A u \in made : u[2] <= t[2] ELSE new
<1>3. /\ sessions' = IF again THEN sessions ELSE [sessions EXCEPT ![s] = "open"]
      /\ handlers' = [handlers EXCEPT ![r].target = s, ![r].since = sessions'[s]]
  BY DEF StripeCreates
<1>4. made = IF sessions[First(i)] = "none" THEN {} ELSE {First(i)}
  BY MadeFirst DEF Used
<1> HIDE DEF made
<1>5. /\ s = First(i)
      /\ again <=> sessions[First(i)] # "none"
  BY <1>2, <1>4, FS_EmptySet DEF First
<1> HIDE DEF s, again, new
<1> PICK t : t = First(i)
  OBVIOUS
<1>6. \/ sessions[t] # "none" /\ sessions' = sessions
      \/ sessions[t] = "none" /\ sessions' = [sessions EXCEPT ![t] = "open"]
  BY <1>3, <1>5
<1> PICK state : state = sessions'[t]
  OBVIOUS
<1>7. handlers' = [handlers EXCEPT ![r].target = t, ![r].since = state]
  BY <1>3, <1>5
<1>8. handlers' = [handlers EXCEPT ![r] = Sent(h, t, state)]
  BY <1>7 DEF Sent, IInv, TypeOK
<1> QED
  BY <1>1, <1>2, <1>6, <1>8

(* A session goes on; what no turn of it can undo. *)
Turned(s, to) ==
    /\ s \in Sessions /\ to \in SessionStates \ {"none"}
    /\ sessions' = [sessions EXCEPT ![s] = to]
    /\ \/ sessions[s] = "none" /\ to = "open" /\ \E i \in Used : s = First(i)
       \/ sessions[s] = "open" /\ to = "expired" /\ s \in Modern
       \/ sessions[s] = "open" /\ to = "active"
       \/ sessions[s] = "active" /\ to = "ended"

LEMMA TurnedBooks ==
    ASSUME IInv, NEW s, NEW to, Turned(s, to),
           UNCHANGED <<tenant, intents, removal, anomalies, receipts>>
    PROVE  sessions' \in [Sessions -> SessionStates] /\ Books' /\ Grows
<1>1. /\ sessions \in [Sessions -> SessionStates] /\ s \in Sessions /\ sessions'[s] = to
      /\ \A t \in Sessions : t # s => sessions'[t] = sessions[t]
      /\ sessions' \in [Sessions -> SessionStates]
  BY DEF Turned, IInv, TypeOK
<1>2. /\ Used' = Used /\ Used \subseteq Intents /\ Unresolved' = Unresolved
  BY DEF Used, Unresolved
<1>3. \A i \in Intents : First(i) \in Sessions /\ First(i) \in Modern /\ <<i, 2>> \in Sessions
  BY SessionFacts
<1>4. \A i \in Intents : First(i) # <<i, 2>>
  BY DEF First
<1>5. \A i \in Intents : Settled(i) => Settled(i)'
  BY <1>1, <1>3 DEF Turned, Settled
<1>6. Grows
  BY <1>1, <1>2 DEF Turned, Grows, Complete, SessionStates
<1>7. RowsNumbered' /\ OwnSession'
  BY <1>2 DEF IInv, Books, RowsNumbered, OwnSession
<1>8. KeysHold'
  <2> SUFFICES ASSUME NEW i \in Intents
               PROVE  sessions'[<<i, 2>>] = "none" /\ (sessions'[First(i)] # "none" => i \in Used)
    BY <1>2 DEF KeysHold
  <2>1. sessions[<<i, 2>>] = "none" /\ (sessions[First(i)] # "none" => i \in Used)
    BY DEF IInv, Books, KeysHold
  <2>2. s # <<i, 2>>
    <3>1. \A j \in Intents : First(j) = <<i, 2>> => FALSE
      BY DEF First
    <3> QED
      BY <1>2, <2>1, <3>1 DEF Turned
  <2>3. s = First(i) => i \in Used
    <3>1. \A j \in Used : First(j) = First(i) => j = i
      BY DEF First
    <3> QED
      BY <2>1, <3>1 DEF Turned
  <2> QED
    BY <1>1, <1>3, <2>1, <2>2, <2>3
<1>9. ClosedSettled' /\ OneUnsettled'
  BY <1>2, <1>5 DEF IInv, Books, ClosedSettled, OneUnsettled
<1>10. RunningIsKnown'
  <2> SUFFICES ASSUME NEW t \in Modern, sessions'[t] = "active", tenant.sub # t,
                      t[1] \notin Unresolved
               PROVE  anomalies[t] = "open"
    BY <1>2 DEF RunningIsKnown
  <2>1. t \in Sessions /\ t[1] \in Intents
    BY SessionFacts
  <2>2. CASE sessions[t] = "active"
    BY <2>2 DEF IInv, Books, RunningIsKnown
  <2>3. CASE sessions[t] # "active"
    <3>1. s = t /\ sessions[t] = "open"
      BY <1>1, <2>1, <2>3 DEF Turned
    <3>2. t = First(t[1]) /\ t[1] \in Used
      BY <3>1, SessionFacts DEF IInv, Books, KeysHold
    <3>3. Settled(t[1])
      BY <3>2 DEF IInv, Books, ClosedSettled
    <3> QED
      BY <3>1, <3>2, <3>3 DEF Settled
  <2> QED
    BY <2>2, <2>3
<1>11. BoundTrue'
  BY <1>6, SubTyped DEF IInv, Books, BoundTrue, Grows
<1>12. LegacyPaid' /\ LegacyKnown'
  <2>1. LegacyPaid'
    BY <1>6, SessionFacts DEF IInv, Books, LegacyPaid, Grows
  <2>2. \A t \in Legacy : sessions'[t] = "active" /\ receipts[t] = "cleared" => sessions[t] = "active"
    BY <1>1, SessionFacts DEF IInv, Books, LegacyPaid, Turned, Complete
  <2>3. LegacyKnown'
    BY <2>2 DEF IInv, Books, LegacyKnown
  <2> QED
    BY <2>1, <2>3
<1>13. Gone'
  <2>1. \A i \in Used : sessions[First(i)] \in {"expired", "ended"} =>
            sessions'[First(i)] \in {"expired", "ended"}
    BY <1>2, <1>3, <1>6 DEF Grows
  <2>2. \A t \in Legacy : sessions'[t] = "active" /\ sessions[t] # "active" =>
            tenant.sub # t /\ receipts[t] = "none" /\ anomalies[t] = "none"
    <3> SUFFICES ASSUME NEW t \in Legacy, sessions'[t] = "active", sessions[t] # "active"
                 PROVE  tenant.sub # t /\ receipts[t] = "none" /\ anomalies[t] = "none"
      OBVIOUS
    <3>1. t \in Sessions /\ t # None
      BY SessionFacts
    <3>2. sessions[t] \notin Complete
      BY <1>1, <3>1 DEF Turned, Complete
    <3> QED
      BY <3>1, <3>2 DEF IInv, Books, BoundTrue, LegacyPaid
  <2> QED
    BY <1>2, <2>1, <2>2 DEF IInv, Books, Gone
<1> QED
  BY <1>1, <1>6, <1>7, <1>8, <1>9, <1>10, <1>11, <1>12, <1>13 DEF Books

LEMMA CreatesKeeps ==
    ASSUME IInv, NEW r \in Requests, StripeCreates(r)
    PROVE  Preserved
<1> PICK h \in Handler : h = handlers[r]
  BY HandlerFits DEF StripeCreates
<1> PICK s : s = First(h.intent)
  OBVIOUS
<1>1. /\ h.pc = "create" /\ h.intent \in Used /\ handlers[r] # Idle
      /\ \/ sessions[s] # "none" /\ sessions' = sessions
         \/ sessions[s] = "none" /\ sessions' = [sessions EXCEPT ![s] = "open"]
      /\ handlers' = [handlers EXCEPT ![r] = Sent(h, s, sessions'[s])]
      /\ UNCHANGED <<tenant, intents, leases, operation, removal, anomalies,
                     receipts, forgotten>>
  BY CreatesStep
<1>2. s \in Sessions /\ s \in Modern /\ s # None /\ s \notin Legacy
  BY <1>1, SessionFacts DEF Used
<1>3. sessions' \in [Sessions -> SessionStates] /\ Books' /\ Grows
  <2>1. CASE sessions' = sessions
    <3>1. Books'
      BY <1>1, <2>1 DEF IInv, Books, RowsNumbered, OwnSession, KeysHold, ClosedSettled,
         OneUnsettled, RunningIsKnown, BoundTrue, LegacyPaid, LegacyKnown, Gone, Used,
         Unresolved, Settled
    <3> QED
      BY <1>1, <2>1, <3>1 DEF Grows, IInv, TypeOK, Used
  <2>2. CASE sessions[s] = "none" /\ sessions' = [sessions EXCEPT ![s] = "open"]
    <3>1. Turned(s, "open")
      BY <1>1, <1>2, <2>2 DEF Turned, SessionStates
    <3> QED
      BY <1>1, <3>1, TurnedBooks
  <2> QED
    BY <1>1, <2>1, <2>2
<1> PICK state \in SessionStates : state = sessions'[s]
  BY <1>2, <1>3
<1> PICK g : g = Sent(h, s, state)
  OBVIOUS
<1>4. /\ g \in Handler /\ g.pc = "create" /\ g.target = s /\ g.since = sessions'[s]
      /\ g.kind = h.kind /\ g.intent = h.intent /\ g.session = h.session /\ (g.fresh <=> h.fresh)
  BY <1>1, <1>2, SentParts
<1>5. Stays(h) /\ (h.fresh => Current(h))
  BY <1>1, HandlerFits
<1>6. Stays(g)'
  BY <1>1, <1>2, <1>4, <1>5 DEF Stays, Calling, Complete, Used
<1>7. g.fresh => Current(g)'
  BY <1>1, <1>4, <1>5 DEF Stays, Calling, Current
<1>8. Fits(g)'
  BY <1>6, <1>7 DEF Fits
<1>9. /\ handlers' \in [Requests -> Handler \cup {Idle}] /\ Passes(r) /\ Goes(r)
  BY <1>1, <1>4, <1>8, WaitsStep
<1>10. TypeOK'
  BY <1>1, <1>3, <1>9 DEF IInv, TypeOK
<1>11. HandlersFit' /\ Verified'
  BY <1>1, <1>3, <1>9, <1>10, PassesFit
<1> QED
  BY <1>1, <1>3, <1>10, <1>11 DEF IInv, Preserved, TenantStep

(* The handlers wait while the world goes on. *)
LEMMA WorldKeeps ==
    ASSUME IInv, sessions' \in [Sessions -> SessionStates], forgotten' \in [Intents -> BOOLEAN],
           Books', Grows, Untouched, handlers' = handlers,
           \A r \in Requests, h \in Handler : handlers[r] = h /\ h.pc = "create" =>
               forgotten'[h.intent] = forgotten[h.intent]
    PROVE  Preserved
<1>1. UNCHANGED <<tenant, intents, leases, operation, removal, anomalies, receipts>>
  BY DEF Untouched
<1>2. TypeOK'
  BY <1>1 DEF IInv, TypeOK
<1>3. HandlersFit'
  <2> SUFFICES ASSUME NEW r \in Requests, NEW h \in Handler, handlers[r] = h
               PROVE  Fits(h)'
    BY DEF HandlersFit
  <2>1. Fits(h)
    BY DEF IInv, HandlersFit
  <2> QED
    BY <1>1, <1>2, <2>1, FitsKept DEF IInv
<1>4. \A s \in Sessions : sessions[s] = "ended" => sessions'[s] = "ended"
  BY DEF Grows
<1>5. Verified'
  BY <1>1, <1>4 DEF IInv, Verified, Checking
<1> QED
  BY <1>1, <1>2, <1>3, <1>5 DEF IInv, Preserved, TenantStep

LEMMA TurnsKeeps ==
    ASSUME IInv, NEW s \in Sessions, SessionExpires(s) \/ CustomerPays(s) \/ SubscriptionEnds(s)
    PROVE  Preserved
<1>1. UNCHANGED <<handlers, forgotten>> /\ Untouched
  BY DEF SessionExpires, CustomerPays, SubscriptionEnds, Turns
<1>2. Turned(s, "expired") \/ Turned(s, "active") \/ Turned(s, "ended")
  BY DEF SessionExpires, CustomerPays, SubscriptionEnds, Turns, Turned, SessionStates
<1>3. sessions' \in [Sessions -> SessionStates] /\ Books' /\ Grows
  BY <1>1, <1>2, TurnedBooks DEF Untouched
<1> QED
  BY <1>1, <1>3, WorldKeeps DEF IInv, TypeOK

LEMMA KeyKeeps ==
    ASSUME IInv, NEW i \in Intents, KeyRunsOut(i)
    PROVE  Preserved
<1>1. /\ UNCHANGED <<sessions, handlers>> /\ Untouched
      /\ forgotten' = [forgotten EXCEPT ![i] = TRUE]
      /\ \A r \in Requests :
             handlers[r] # Idle /\ handlers[r].pc = "create" => handlers[r].intent # i
  BY DEF KeyRunsOut
<1>2. UNCHANGED <<tenant, intents, leases, operation, removal, anomalies, receipts>>
  BY <1>1 DEF Untouched
<1>3. forgotten' \in [Intents -> BOOLEAN]
  BY <1>1 DEF IInv, TypeOK
<1>4. Books'
  BY <1>1, <1>2 DEF IInv, Books, RowsNumbered, OwnSession, KeysHold, ClosedSettled, OneUnsettled,
     RunningIsKnown, BoundTrue, LegacyPaid, LegacyKnown, Gone, Used, Unresolved, Settled
<1>5. Grows
  BY <1>1, <1>2 DEF Grows, Used
<1>6. \A r \in Requests, h \in Handler : handlers[r] = h /\ h.pc = "create" =>
          forgotten'[h.intent] = forgotten[h.intent]
  <2> SUFFICES ASSUME NEW r \in Requests, NEW h \in Handler, handlers[r] = h, h.pc = "create"
               PROVE  forgotten'[h.intent] = forgotten[h.intent]
    OBVIOUS
  <2>1. h.intent # i /\ handlers[r] # Idle
    BY <1>1, HandlerParts
  <2>2. h.intent \in Intents
    BY <2>1, HandlerFits DEF Stays, Calling, Used
  <2> QED
    BY <1>1, <2>1, <2>2 DEF IInv, TypeOK
<1> QED
  BY <1>1, <1>3, <1>4, <1>5, <1>6, WorldKeeps DEF IInv, TypeOK

-----------------------------------------------------------------------------
(* The invariant                                                             *)

LEMMA InitHolds == Init => IInv
<1> SUFFICES ASSUME Init PROVE IInv
  OBVIOUS
<1>1. /\ \A i \in Intents : intents[i] = NoIntent
      /\ \A s \in Sessions : anomalies[s] = "none"
      /\ \A s \in Legacy : receipts[s] = "none"
      /\ \A r \in Requests : handlers[r] = Idle
      /\ \A s \in Sessions : sessions[s] = IF s \in Legacy THEN "open" ELSE "none"
      /\ removal = NoRemoval /\ tenant.here /\ tenant.sub = None /\ tenant.status = "trial"
  BY DEF Init
<1>2. NoIntent.state = "none" /\ NoIntent.session = None
  BY DEF NoIntent
<1>3. Used = {}
  BY <1>1, <1>2 DEF Used
<1>4. TypeOK
  <2>1. tenant \in Tenant
    <3> PICK c \in {Customer, None} :
            tenant = [here |-> TRUE, sub |-> None, cust |-> c, status |-> "trial"]
      BY DEF Init
    <3> QED
      BY DEF Tenant
  <2>2. NoIntent \in Intent
    BY HostingAssumption DEF NoIntent, Intent, OpenStates
  <2>3. intents \in [Intents -> Intent]
    BY <2>2 DEF Init
  <2>4. removal.state = "no" /\ removal.by = None
    BY <1>1 DEF NoRemoval
  <2> QED
    <3>1. /\ leases \in [Intents -> Requests \cup {None}] /\ operation \in Requests \cup {None}
          /\ anomalies \in [Sessions -> {"none", "open", "resolved"}]
          /\ receipts \in [Legacy -> {"none", "pending", "cleared"}]
          /\ handlers \in [Requests -> Handler \cup {Idle}]
          /\ forgotten \in [Intents -> BOOLEAN]
      BY DEF Init
    <3>2. sessions \in [Sessions -> SessionStates]
      BY DEF Init, SessionStates
    <3> QED
      BY <2>1, <2>3, <2>4, <3>1, <3>2 DEF TypeOK
<1>5. RowsNumbered
  <2>1. 0 \in 0..MaxIntents /\ 1..0 = {}
    BY HostingAssumption
  <2> QED
    BY <1>3, <2>1 DEF RowsNumbered
<1>6. OwnSession /\ ClosedSettled /\ OneUnsettled
  BY <1>1, <1>2, <1>3 DEF OwnSession, ClosedSettled, OneUnsettled
<1>7. KeysHold
  BY <1>1, SessionFacts DEF KeysHold
<1>8. RunningIsKnown
  BY <1>1, SessionFacts DEF RunningIsKnown
<1>9. BoundTrue /\ LegacyPaid /\ LegacyKnown /\ Gone
  BY <1>1, SessionFacts DEF BoundTrue, LegacyPaid, LegacyKnown, Gone
<1>10. HandlersFit /\ Verified
  BY <1>1, HandlerParts DEF HandlersFit, Verified
<1> QED
  BY <1>4, <1>5, <1>6, <1>7, <1>8, <1>9, <1>10 DEF IInv, Books

LEMMA NextKeeps ==
    ASSUME IInv, Next
    PROVE  Preserved
<1>1. ASSUME NEW r \in Requests, Handle(r) PROVE Preserved
  BY <1>1, StartKeeps, ActKeeps, EventKeeps, LegacyEventKeeps, NoticeKeeps, AnomalyKeeps,
     UnbilledKeeps, BilledKeeps
     DEF Handle
<1>2. ASSUME NEW r \in Requests, Return(r) PROVE Preserved
  BY <1>2, PrevKeeps, SessionKeeps, CheckKeeps, SubKeeps, PreviousKeeps, LegacyKeeps,
     LegacyPrevKeeps, SubscriptionKeeps, ResolveKeeps, VerifyKeeps, FailsKeeps
     DEF Return
<1>3. ASSUME Outside PROVE Preserved
  BY <1>3, CreatesKeeps, TurnsKeeps, KeyKeeps, LapseKeeps, CrashKeeps DEF Outside
<1> QED
  BY <1>1, <1>2, <1>3 DEF Next

LEMMA StutterKeeps ==
    ASSUME IInv, UNCHANGED vars
    PROVE  Preserved
<1>1. UNCHANGED <<tenant, intents, leases, operation, removal, anomalies, receipts, handlers,
                  sessions, forgotten>>
  BY DEF vars
<1>2. TypeOK'
  BY <1>1 DEF IInv, TypeOK
<1> QED
  BY <1>1, <1>2, QuietKeeps

(* Every reachable state has the inductive invariant. *)
THEOREM Invariant == Spec => []IInv
<1>1. Init => IInv
  BY InitHolds
<1>2. IInv /\ [Next]_vars => IInv'
  BY NextKeeps, StutterKeeps DEF Preserved
<1> QED
  BY <1>1, <1>2, PTL DEF Spec

-----------------------------------------------------------------------------
(* The promises                                                              *)

(* Every row and every handler in flight has the shape that the tables and   *)
(* the code give it.                                                         *)
THEOREM TypeCorrect == Spec => []TypeOK
<1>1. IInv => TypeOK
  BY DEF IInv
<1> QED
  BY <1>1, Invariant, PTL

LEMMA OneOpen ==
    ASSUME IInv
    PROVE  OnePayable
<1> DEFINE open == {s \in Modern : sessions[s] = "open"}
<1>1. \A s \in open : s = First(s[1]) /\ s[1] \in Used /\ ~Settled(s[1])
  BY SessionFacts DEF IInv, Books, KeysHold, Settled
<1>2. \A s, t \in open : s = t
  BY <1>1 DEF IInv, Books, OneUnsettled
<1>3. Cardinality(open) <= 1
  <2>1. CASE open = {}
    BY <2>1, FS_EmptySet
  <2>2. CASE open # {}
    <3> PICK s : open = {s}
      BY <1>2, <2>2
    <3> QED
      BY FS_Singleton
  <2> QED
    BY <2>1, <2>2
<1> QED
  BY <1>3 DEF OnePayable

(* However starts, returns, notices and retries of a shop cross, lose their  *)
(* answers or their leases, at most one checkout that it started can still   *)
(* be paid.                                                                  *)
THEOREM NeverAskedTwice == Spec => []OnePayable
<1>1. IInv => OnePayable
  BY OneOpen
<1> QED
  BY <1>1, Invariant, PTL

(* No subscription runs that the shop's rows have lost sight of.             *)
THEOREM RunningAlwaysKnown == Spec => []RunningIsKnown
<1>1. IInv => RunningIsKnown
  BY DEF IInv, Books
<1> QED
  BY <1>1, Invariant, PTL

(* When the shop's rows are removed, nothing that they knew of can charge    *)
(* its customer any more, whatever was paid while the removal was checked.   *)
THEOREM RemovedAlwaysUnbilled == Spec => []RemovedIsUnbilled
<1>1. ASSUME IInv PROVE RemovedIsUnbilled
  <2> SUFFICES ASSUME ~tenant.here PROVE RemovedIsUnbilled
    BY DEF RemovedIsUnbilled
  <2>1. \A i \in Used : sessions[First(i)] \in {"expired", "ended"}
    BY <1>1 DEF IInv, Books, Gone
  <2>2. \A s \in Modern : sessions[s] # "none" => s = First(s[1]) /\ s[1] \in Used
    BY <1>1, SessionFacts DEF IInv, Books, KeysHold
  <2>3. \A s \in Modern : sessions[s] \notin {"open", "active"}
    BY <2>1, <2>2
  <2> QED
    BY <1>1, <2>3 DEF IInv, Books, Gone, RemovedIsUnbilled
<1> QED
  BY <1>1, Invariant, PTL

(* A step that binds the shop to another subscription finds the one before   *)
(* ended at Stripe, not only in an answer that was right some time ago.      *)
THEOREM ActiveAlwaysBound == Spec => ActiveStaysBound
<1>1. IInv /\ [Next]_vars => TenantStep
  BY NextKeeps, StutterKeeps DEF Preserved
<1>2. TenantStep =>
          [tenant'.sub # tenant.sub /\ tenant.sub # None => sessions[tenant.sub] = "ended"]_vars
  BY DEF TenantStep
<1> QED
  BY <1>1, <1>2, Invariant, PTL DEF Spec, ActiveStaysBound

(* A late answer never brings back a subscription that is known to have      *)
(* ended.                                                                    *)
THEOREM NeverOlderAnswer == Spec => NoOlderAnswer
<1>1. IInv /\ [Next]_vars => TenantStep
  BY NextKeeps, StutterKeeps DEF Preserved
<1>2. TenantStep =>
          [tenant'.sub = tenant.sub /\ tenant.sub # None /\ tenant.status = "ended"
              => tenant'.status = "ended"]_vars
  BY DEF TenantStep
<1> QED
  BY <1>1, <1>2, Invariant, PTL DEF Spec, NoOlderAnswer
=============================================================================
