------------------------------ MODULE Outbox ------------------------------
(***************************************************************************)
(* One message of the outbox (email_log): the send that queueEmail or      *)
(* queueSms starts by itself, and people who press Send (server.mjs,       *)
(* POST /api/outbox/:id/send).                                             *)
(*                                                                         *)
(* A claim (sending_at) says when the last send began and not whose it is: *)
(* it is free again after five minutes, and whichever send ends first      *)
(* clears it.  Nothing bounds a send: the time-outs are of one step of the *)
(* conversation or of a silence, and the transport queues the messages of  *)
(* a shop behind three connections (lib/notify.mjs).                       *)
(***************************************************************************)
EXTENDS Integers

CONSTANTS
    Senders,     \* people with the outbox open
    Automatic,   \* the send that is started with the row
    MaxPresses, MaxCrashes

ASSUME OutboxAssumption ==
    /\ Automatic \notin Senders /\ MaxPresses \in Nat /\ MaxCrashes \in Nat

VARIABLES
    kind,        \* "email" or "sms"
    claim,       \* sending_at: "none", "held", "old"
    delivered,
    stale,       \* payment_stale, or its invoice under review
    sends,       \* for each sender, "idle", "asked" or "taken" by the relay
    taken,       \* external: times the relay took the message
    unknown,     \* occasions on which it took it and the shop was not told
    outlived,    \* claims that ran out while the message was being sent
    presses, crashes

vars == <<kind, claim, delivered, stale, sends, taken, unknown, outlived, presses, crashes>>

Everyone == Senders \cup {Automatic}

\* queueEmail claims the row for the send it starts, queueSms does not.
FirstClaim(deliver) == IF deliver /\ kind = "email" THEN "held" ELSE "none"

\* deliver is FALSE when follow-ups are left to people.
Init ==
    /\ kind \in {"email", "sms"}
    /\ \E deliver \in BOOLEAN :
          /\ claim = FirstClaim(deliver)
          /\ sends = [s \in Everyone |-> IF deliver /\ s = Automatic THEN "asked" ELSE "idle"]
    /\ delivered = FALSE /\ stale = FALSE
    /\ taken = 0 /\ unknown = 0 /\ outlived = 0 /\ presses = 0 /\ crashes = 0

-----------------------------------------------------------------------------
\* Broken variant: Send looks at "delivered" only.
FreeUnclaimed == ~delivered

(* The UPDATE that claims the row. *)
Free == ~delivered /\ claim # "held"

Send(s) ==
    /\ presses < MaxPresses /\ sends[s] = "idle"
    /\ ~stale /\ Free
    /\ claim' = "held"
    /\ sends' = [sends EXCEPT ![s] = "asked"]
    /\ presses' = presses + 1
    /\ UNCHANGED <<kind, delivered, stale, taken, unknown, outlived, crashes>>

(* External: the relay. *)
Takes(s) ==
    /\ sends[s] = "asked"
    /\ sends' = [sends EXCEPT ![s] = "taken"]
    /\ taken' = taken + 1
    /\ UNCHANGED <<kind, claim, delivered, stale, unknown, outlived, presses, crashes>>

(* markDelivery and the end of Send: delivered, not taken, or taken with an  *)
(* answer that was lost on its way.  Both write over what another send of    *)
(* the message has written, its claim included.                              *)
Answered(s) ==
    /\ sends[s] # "idle"
    /\ \/ sends[s] = "taken" /\ delivered' = TRUE /\ UNCHANGED unknown
       \/ delivered' = FALSE
          /\ unknown' = unknown + (IF sends[s] = "taken" THEN 1 ELSE 0)
    /\ sends' = [sends EXCEPT ![s] = "idle"]
    /\ claim' = "none"
    /\ UNCHANGED <<kind, stale, taken, outlived, presses, crashes>>

InFlight == {s \in Everyone : sends[s] # "idle"}

(* The process dies, or the outcome of one send cannot be written. *)
Lost(gone) ==
    /\ crashes < MaxCrashes /\ gone # {}
    /\ crashes' = crashes + 1
    /\ unknown' = unknown + (IF \E s \in gone : sends[s] = "taken" THEN 1 ELSE 0)
    /\ sends' = [s \in Everyone |-> IF s \in gone THEN "idle" ELSE sends[s]]
    /\ UNCHANGED <<kind, claim, delivered, stale, taken, outlived, presses>>

(* Five minutes, whether or not the send that claimed the row has ended.     *)
ClaimAges ==
    /\ claim = "held"
    /\ claim' = "old"
    /\ outlived' = outlived + (IF InFlight = {} THEN 0 ELSE 1)
    /\ UNCHANGED <<kind, delivered, stale, sends, taken, unknown, presses, crashes>>

(* PaymentReversals marks what is not delivered. *)
PaymentChanges ==
    /\ ~stale /\ ~delivered
    /\ stale' = TRUE
    /\ UNCHANGED <<kind, claim, delivered, sends, taken, unknown, outlived, presses, crashes>>

Next ==
    \/ \E s \in Senders : Send(s)
    \/ \E s \in Everyone : Takes(s) \/ Answered(s)
    \/ Lost(InFlight) \/ \E s \in Everyone : Lost({s} \cap InFlight)
    \/ ClaimAges \/ PaymentChanges

Spec == Init /\ [][Next]_vars

-----------------------------------------------------------------------------
(* The relay takes an email once, and once more at most for every time it    *)
(* took it without the shop being told and for every claim that ran out      *)
(* while the message was being sent, although a late answer clears the claim *)
(* of a newer send and writes "not delivered" over its delivery.  An SMS may *)
(* go once more: the send that starts with it claims nothing.                *)
SentOnce == taken <= (IF kind = "sms" THEN 2 ELSE 1) + unknown + outlived
=============================================================================
