----------------------------- MODULE Webhooks -----------------------------
(***************************************************************************)
(* One delivery to a webhook subscription (server.mjs, webhook_deliveries):*)
(* the attempt that dispatchSubscriptions makes at once, the retries of    *)
(* the tick and a manager's Redeliver.                                     *)
(*                                                                         *)
(* An attempt takes 10 seconds at most, the back-off is 30 or more and the *)
(* claim of the tick 60.  The first attempt and a Redeliver do not claim,  *)
(* so the tick may start another next to them.                             *)
(***************************************************************************)
EXTENDS Integers, Bags

CONSTANTS MaxPresses, MaxCrashes

VARIABLES
    status, attempts,   \* the row of webhook_deliveries
    due,                \* its next_attempt_at has passed
    tries,              \* bag of attempts in flight: what each will write as attempts
    active,             \* of the subscription
    presses, crashes

vars == <<status, attempts, due, tries, active, presses, crashes>>

MaxAttempts == 3
Final == {"delivered", "failed"}

Init ==
    /\ status = "pending" /\ attempts = 0 /\ due = TRUE
    /\ tries \in {SetToBag({1}), EmptyBag}      \* EmptyBag: died after the INSERT
    /\ active = TRUE /\ presses = 0 /\ crashes = 0

Starts(n) == tries' = tries (+) SetToBag({n})

-----------------------------------------------------------------------------
\* Broken variant: only what has failed once is tried again.
RescuedRetrying == {"retrying"}

(* A process that died before the first answer leaves "pending". *)
Rescued == {"retrying", "pending"}

Number == attempts + 1

(* retryDueWebhooks *)
Retry ==
    /\ active /\ status \in Rescued /\ due /\ attempts < MaxAttempts
    /\ due' = FALSE
    /\ Starts(Number)
    /\ UNCHANGED <<status, attempts, active, presses, crashes>>

(* attemptWebhookDelivery, when the receiver has answered or has not: each   *)
(* attempt overwrites what another one wrote.                                *)
Answered(n, ok) ==
    /\ tries' = tries (-) SetToBag({n})
    /\ attempts' = n
    /\ status' = IF ok THEN "delivered" ELSE IF n < MaxAttempts THEN "retrying" ELSE "failed"
    /\ due' = FALSE
    /\ UNCHANGED <<active, presses, crashes>>

(* The back-off or the claim is over; what was in flight has ended by then. *)
FallsDue ==
    /\ ~due /\ status \notin Final /\ tries = EmptyBag
    /\ due' = TRUE
    /\ UNCHANGED <<status, attempts, tries, active, presses, crashes>>

Press == presses < MaxPresses /\ presses' = presses + 1

(* POST /api/developers/deliveries/:id/redeliver *)
Redeliver ==
    /\ Press /\ active
    /\ status' = "pending" /\ attempts' = 0 /\ due' = TRUE
    /\ Starts(1)
    /\ UNCHANGED <<active, crashes>>

(* The subscription is paused or taken up again. *)
Pause ==
    /\ Press
    /\ active' = ~active
    /\ UNCHANGED <<status, attempts, due, tries, crashes>>

Crash ==
    /\ crashes < MaxCrashes /\ tries # EmptyBag
    /\ crashes' = crashes + 1
    /\ tries' = EmptyBag
    /\ UNCHANGED <<status, attempts, due, active, presses>>

Next ==
    \/ Retry \/ FallsDue \/ Redeliver \/ Pause \/ Crash
    \/ \E n \in BagToSet(tries), ok \in BOOLEAN : Answered(n, ok)

Spec == Init /\ [][Next]_vars
=============================================================================
