----------------------------- MODULE OrderMoney -----------------------------
(***************************************************************************)
(* What online collection promises about the money of one order, without   *)
(* saying how: one checkout at a time is reserved, the customer is charged *)
(* at most once for it and only while it is reserved, and it ends either   *)
(* uncharged and expired, or charged, paid and on the books exactly once.  *)
(***************************************************************************)
EXTENDS Naturals

CONSTANT Checkouts

VARIABLES
    checkout,   \* the fate of each checkout
    charges,    \* how often the provider took the customer's money for it
    bookings    \* how often that money was put on an invoice

money == <<checkout, charges, bookings>>

Init ==
    /\ checkout = [c \in Checkouts |-> "unused"]
    /\ charges = [c \in Checkouts |-> 0]
    /\ bookings = [c \in Checkouts |-> 0]

Reserve(c) ==
    /\ checkout[c] = "unused"
    /\ \A d \in Checkouts : checkout[d] # "reserved"
    /\ checkout' = [checkout EXCEPT ![c] = "reserved"]
    /\ UNCHANGED <<charges, bookings>>

Charge(c) ==
    /\ checkout[c] = "reserved" /\ charges[c] = 0
    /\ charges' = [charges EXCEPT ![c] = 1]
    /\ UNCHANGED <<checkout, bookings>>

Expire(c) ==
    /\ checkout[c] = "reserved" /\ charges[c] = 0
    /\ checkout' = [checkout EXCEPT ![c] = "expired"]
    /\ UNCHANGED <<charges, bookings>>

Book(c) ==
    /\ checkout[c] = "reserved" /\ charges[c] = 1
    /\ checkout' = [checkout EXCEPT ![c] = "paid"]
    /\ bookings' = [bookings EXCEPT ![c] = 1]
    /\ UNCHANGED charges

Next == \E c \in Checkouts : Reserve(c) \/ Charge(c) \/ Expire(c) \/ Book(c)

Spec == Init /\ [][Next]_money
=============================================================================
