---------------------------- MODULE HostingPromises ----------------------------
(* What Hosting promises. *)
EXTENDS Hosting

(* The shop is never asked to pay twice: of all the checkouts it started, at *)
(* most one can still be paid.                                               *)
OnePayable == Cardinality({s \in Modern : sessions[s] = "open"}) <= 1

(* No subscription runs that the shop's records lost: it is bound, its       *)
(* checkout is unresolved, or it is under review.                            *)
RunningIsKnown ==
    \A s \in Modern : sessions[s] = "active" =>
        \/ tenant.sub = s
        \/ s[1] \in Unresolved
        \/ anomalies[s] = "open"

(* A shop is removed only when nothing can charge it any more, of what it    *)
(* started itself and of the older payments it has seen.                     *)
RemovedIsUnbilled ==
    ~tenant.here =>
        /\ \A s \in Modern : sessions[s] \notin {"open", "active"}
        /\ \A s \in Legacy : sessions[s] = "active" =>
               tenant.sub # s /\ receipts[s] = "none" /\ anomalies[s] = "none"

(* A subscription gives way to another one only when it has ended. *)
ActiveStaysBound ==
    [][tenant'.sub # tenant.sub /\ tenant.sub # None => sessions[tenant.sub] = "ended"]_vars

(* What was written of a subscription is never overwritten by an earlier     *)
(* answer: once it is known to have ended it stays so.                       *)
NoOlderAnswer ==
    [][tenant'.sub = tenant.sub /\ tenant.sub # None /\ tenant.status = "ended"
        => tenant'.status = "ended"]_vars
=============================================================================
