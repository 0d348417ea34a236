----------------------- MODULE PaymentReversalsProofs -----------------------
(* Theorems of PaymentReversals, for every value of its constants. *)
EXTENDS ReversalPromises, Sums, TLAPS

USE ReversalsAssumption

(* The order in which the provider moves a refund. *)
Rank == [none |-> 0, pending |-> 1, succeeded |-> 2, failed |-> 3]

AtMost(s, t) == Rank[s] <= Rank[t]

LEMMA Ranks ==
    /\ \A s \in Statuses : Rank[s] \in 0..3 /\ AtMost(s, s)
    /\ \A s, t, u \in Statuses : AtMost(s, t) /\ AtMost(t, u) => AtMost(s, u)
    /\ \A s, t \in Statuses : AtMost(s, t) /\ s # t => <<s, t>> \in Later
    /\ \A s \in Statuses : AtMost("none", s) /\ AtMost(s, "failed")
<1>1. \A s \in Statuses : Rank[s] \in 0..3
  BY DEF Statuses, Rank
<1>2. \A s, t \in Statuses : AtMost(s, t) /\ s # t => <<s, t>> \in Later
  BY DEF Statuses, Rank, AtMost, Later
<1>3. \A s \in Statuses : AtMost("none", s) /\ AtMost(s, "failed")
  BY DEF Statuses, Rank, AtMost
<1> QED
  BY <1>1, <1>2, <1>3 DEF AtMost

-----------------------------------------------------------------------------
(* The part of the types that the order of the answers rests on. *)
Shapes ==
    /\ refunds \in [Refunds -> [status : Statuses, amount : Amounts \cup {0}]]
    /\ DOMAIN rows = Refunds
    /\ \A id \in Refunds : rows[id].status \in Statuses
    /\ handlers \subseteq Handlers

(* One handler for a refund: reversalInFlight. *)
OneAtATime == \A g, h \in handlers : g.id = h.id => g = h

(* What is in the books is no later than what a handler read, and that no    *)
(* later than what the provider says.  The middle one is why the next row    *)
(* cannot be an earlier answer: a second handler of the refund, which could  *)
(* have read before the last row was written, does not exist.                *)
Ordered ==
    /\ \A id \in Refunds : AtMost(rows[id].status, refunds[id].status)
    /\ \A h \in handlers : h.got # "none" =>
          /\ AtMost(rows[h.id].status, h.got)
          /\ AtMost(h.got, refunds[h.id].status)

IInv == Shapes /\ OneAtATime /\ Ordered

LEMMA InitIInv == Init => IInv
  BY Ranks DEF Init, IInv, Shapes, OneAtATime, Ordered, Statuses

(* A handler starts: it is the only one of its refund. *)
LEMMA NoticeKeeps ==
    ASSUME IInv, NEW id \in Refunds, NEW noticed \in BOOLEAN, ReversalNotice(id, noticed)
    PROVE  IInv'
<1> DEFINE new == [id |-> id, noticed |-> noticed, got |-> "none"]
<1>1. /\ handlers' = handlers \cup {new} /\ UNCHANGED <<refunds, rows>>
      /\ \A h \in handlers : h.id # id
  BY DEF ReversalNotice, books, Chained
<1>2. new \in Handlers
  BY DEF Handlers, Statuses
<1>3. Shapes'
  BY <1>1, <1>2 DEF IInv, Shapes
<1>4. OneAtATime'
  BY <1>1 DEF IInv, OneAtATime
<1>5. Ordered'
  BY <1>1 DEF IInv, Ordered
<1> QED
  BY <1>3, <1>4, <1>5 DEF IInv

(* The provider answers: with what it says now, which no row is later than. *)
LEMMA ReadKeeps ==
    ASSUME IInv, NEW h \in handlers, RefundRead(h)
    PROVE  IInv'
<1> DEFINE new == [h EXCEPT !.got = refunds[h.id].status]
<1>1. /\ handlers' = (handlers \ {h}) \cup {new}
      /\ UNCHANGED <<refunds, rows>>
  BY DEF RefundRead, books
<1>2. h \in Handlers /\ h.id \in Refunds /\ refunds[h.id].status \in Statuses
  BY DEF IInv, Shapes, Handlers
<1>3. new \in Handlers /\ new.id = h.id /\ new.got = refunds[h.id].status
  BY <1>2 DEF Handlers
<1>4. Shapes'
  BY <1>1, <1>3 DEF IInv, Shapes
<1>5. OneAtATime'
  BY <1>1, <1>3 DEF IInv, OneAtATime
<1>6. Ordered'
  BY <1>1, <1>2, <1>3, Ranks DEF IInv, Ordered
<1> QED
  BY <1>4, <1>5, <1>6 DEF IInv

(* A handler ends, whether or not it writes its row. *)
LEMMA ReverseKeeps ==
    ASSUME IInv, NEW h \in handlers, Reverse(h)
    PROVE  IInv' /\ \A id \in Refunds : AtMost(rows[id].status, rows'[id].status)
<1>1. h.id \in Refunds /\ h.got \in Statuses
  BY DEF IInv, Shapes, Handlers
<1>2. /\ handlers' = handlers \ {h} /\ refunds' = refunds /\ h.got # "none"
      /\ \/ rows' = rows
         \/ \E target : rows' = [rows EXCEPT ![h.id] = [status |-> h.got, applied |-> target]]
  BY DEF Reverse, Reverses
<1>3. /\ DOMAIN rows' = Refunds
      /\ \A id \in Refunds \ {h.id} : rows'[id] = rows[id]
      /\ rows'[h.id].status \in {rows[h.id].status, h.got}
  <2>1. DOMAIN rows = Refunds
    BY DEF IInv, Shapes
  <2>2. CASE rows' = rows
    BY <2>1, <2>2
  <2>3. ASSUME NEW target, rows' = [rows EXCEPT ![h.id] = [status |-> h.got, applied |-> target]]
        PROVE  /\ DOMAIN rows' = Refunds
               /\ \A id \in Refunds \ {h.id} : rows'[id] = rows[id]
               /\ rows'[h.id].status \in {rows[h.id].status, h.got}
    BY <1>1, <2>1, <2>3
  <2> QED
    BY <1>2, <2>2, <2>3
<1>4. Shapes'
  BY <1>1, <1>2, <1>3 DEF IInv, Shapes
<1>5. OneAtATime'
  BY <1>2 DEF IInv, OneAtATime
<1>6. /\ AtMost(rows[h.id].status, h.got)
      /\ AtMost(h.got, refunds[h.id].status)
  BY <1>2 DEF IInv, Ordered
<1>7. \A id \in Refunds : AtMost(rows[id].status, rows'[id].status)
  BY <1>1, <1>3, <1>6, Ranks DEF IInv, Shapes
<1>8. \A id \in Refunds : AtMost(rows'[id].status, refunds'[id].status)
  BY <1>1, <1>2, <1>3, <1>6 DEF IInv, Ordered
<1>9. \A g \in handlers' : g.id # h.id /\ g.id \in Refunds
  BY <1>2 DEF IInv, OneAtATime, Shapes, Handlers
<1>10. Ordered'
  BY <1>2, <1>3, <1>8, <1>9 DEF IInv, Ordered
<1> QED
  BY <1>4, <1>5, <1>7, <1>10 DEF IInv

(* Handlers that vanish leave the rest in order. *)
LEMMA FewerKeep ==
    ASSUME IInv, handlers' \subseteq handlers, UNCHANGED <<refunds, rows>>
    PROVE  IInv'
  BY DEF IInv, Shapes, OneAtATime, Ordered

(* The provider only moves a refund on. *)
LEMMA TurnKeeps ==
    ASSUME IInv, NEW id \in Refunds, NEW status \in Statuses, NEW amount \in Amounts \cup {0},
           AtMost(refunds[id].status, status), Turns(id, status, amount)
    PROVE  IInv'
<1>1. /\ refunds' = [refunds EXCEPT ![id] = [status |-> status, amount |-> amount]]
      /\ UNCHANGED <<rows, handlers>>
  BY DEF Turns, books
<1>2. Shapes'
  BY <1>1 DEF IInv, Shapes
<1>3. OneAtATime'
  BY <1>1 DEF IInv, OneAtATime
<1>4. \A x \in Refunds : AtMost(refunds[x].status, refunds'[x].status) /\ refunds'[x].status \in Statuses
  BY <1>1, Ranks DEF IInv, Shapes
<1>5. \A h \in handlers : h.id \in Refunds /\ h.got \in Statuses
  BY DEF IInv, Shapes, Handlers
<1>6. Ordered'
  BY <1>1, <1>4, <1>5, Ranks DEF IInv, Ordered, Shapes
<1> QED
  BY <1>2, <1>3, <1>6 DEF IInv

LEMMA OutsideKeeps == IInv /\ Outside => IInv'
<1> SUFFICES ASSUME IInv, Outside PROVE IInv'
  OBVIOUS
<1>1. PICK id \in Refunds :
         \/ \E amount \in Amounts, status \in {"pending", "succeeded"} : RefundAsked(id, amount, status)
         \/ RefundSucceeds(id) \/ RefundFails(id)
  BY DEF Outside
<1>2. refunds[id].status \in Statuses /\ refunds[id].amount \in Amounts \cup {0}
  BY DEF IInv, Shapes
<1>3. CASE \E amount \in Amounts, status \in {"pending", "succeeded"} : RefundAsked(id, amount, status)
  BY <1>3, Ranks, TurnKeeps DEF RefundAsked, Statuses
<1>4. CASE RefundSucceeds(id)
  <2>1. AtMost("pending", "succeeded")
    BY DEF AtMost, Rank
  <2> QED
    BY <1>2, <1>4, <2>1, TurnKeeps DEF RefundSucceeds, Statuses
<1>5. CASE RefundFails(id)
  BY <1>2, <1>5, Ranks, TurnKeeps DEF RefundFails, Statuses
<1> QED
  BY <1>1, <1>3, <1>4, <1>5

(* Every step keeps the order, and moves the row of a refund only on. *)
LEMMA NextIInv ==
    IInv /\ [Next]_vars =>
        IInv' /\ \A id \in Refunds : AtMost(rows[id].status, rows'[id].status)
<1> SUFFICES ASSUME IInv, [Next]_vars
             PROVE  IInv' /\ \A id \in Refunds : AtMost(rows[id].status, rows'[id].status)
  OBVIOUS
<1>1. rows' = rows => \A id \in Refunds : AtMost(rows[id].status, rows'[id].status)
  BY Ranks DEF IInv, Shapes
<1>2. CASE \E id \in Refunds, noticed \in BOOLEAN : ReversalNotice(id, noticed)
  BY <1>1, <1>2, NoticeKeeps DEF ReversalNotice, books
<1>3. CASE \E h \in handlers : RefundRead(h)
  BY <1>1, <1>3, ReadKeeps DEF RefundRead, books
<1>4. CASE \E h \in handlers : Reverse(h)
  BY <1>4, ReverseKeeps
<1>5. CASE \E h \in handlers : CallFails(h)
  BY <1>1, <1>5, FewerKeep DEF CallFails, books
<1>6. CASE PaymentEvidence \/ ClearReview \/ Crash \/ UNCHANGED vars
  BY <1>1, <1>6, FewerKeep DEF PaymentEvidence, ClearReview, Crash, vars, books
<1>7. CASE Outside
  BY <1>1, <1>7, OutsideKeeps DEF Outside, RefundAsked, RefundSucceeds, RefundFails, Turns, books
<1> QED
  BY <1>2, <1>3, <1>4, <1>5, <1>6, <1>7 DEF Next, Handle

(* The books follow a refund in the order the provider moved it, however its *)
(* notices were delayed, repeated or lost.                                   *)
THEOREM AnswersInOrder == Spec => NoEarlierAnswer
<1>1. IInv /\ [Next]_vars =>
        [\A id \in Refunds : rows'[id].status # rows[id].status =>
            <<rows[id].status, rows'[id].status>> \in Later]_vars
  <2> SUFFICES ASSUME IInv, [Next]_vars, NEW id \in Refunds, rows'[id].status # rows[id].status
               PROVE  <<rows[id].status, rows'[id].status>> \in Later
    OBVIOUS
  <2>1. /\ AtMost(rows[id].status, rows'[id].status)
        /\ rows[id].status \in Statuses /\ rows'[id].status \in Statuses
    BY NextIInv DEF IInv, Shapes
  <2> QED
    BY <2>1, Ranks
<1> QED
  BY <1>1, InitIInv, NextIInv, PTL DEF Spec, NoEarlierAnswer

-----------------------------------------------------------------------------
(* The review *)

LEMMA PendingKept == PendingIsReviewed /\ [Next]_vars /\ DOMAIN rows = Refunds => PendingIsReviewed'
<1> SUFFICES ASSUME PendingIsReviewed, [Next]_vars, DOMAIN rows = Refunds PROVE PendingIsReviewed'
  OBVIOUS
<1>1. CASE UNCHANGED <<rows, review>>
  BY <1>1 DEF PendingIsReviewed
<1>2. CASE \E h \in handlers : Reverse(h)
  BY <1>1, <1>2 DEF Reverse, Reverses, PendingIsReviewed, invoice
<1>3. CASE PaymentEvidence
  BY <1>3 DEF PaymentEvidence, PendingIsReviewed, invoice
<1>4. CASE ClearReview
  BY <1>4 DEF ClearReview, MayClear, PendingIsReviewed, books
<1>5. [Next]_vars => \/ UNCHANGED <<rows, review>> \/ (\E h \in handlers : Reverse(h))
                     \/ PaymentEvidence \/ ClearReview
  BY DEF Next, Handle, ReversalNotice, RefundRead, CallFails, Crash, Outside, RefundAsked,
         RefundSucceeds, RefundFails, Turns, vars, books, invoice
<1> QED
  BY <1>1, <1>2, <1>3, <1>4, <1>5

(* While a refund is known to be pending, the invoice is under review: what  *)
(* sets a row under way also sets the review, and what clears the review     *)
(* looks at every row.                                                       *)
THEOREM PendingHeld == Spec => []PendingIsReviewed
<1>1. Init => PendingIsReviewed
  BY DEF Init, PendingIsReviewed
<1>2. IInv => DOMAIN rows = Refunds
  BY DEF IInv, Shapes
<1> QED
  BY <1>1, <1>2, InitIInv, NextIInv, PendingKept, PTL DEF Spec

(* The announcement of a paid invoice follows the books and not the order of *)
(* the notices: the latch is open whenever the invoice is unpaid, and it     *)
(* never closes under a review.                                              *)
THEOREM AnnouncedRightly == Spec => AnnouncedWhenPaid
<1> DEFINE Latch == notified => Net >= Due
<1>1. Init => Latch
  BY DEF Init
<1>2. Latch /\ [Next]_vars => Latch'
  <2> SUFFICES ASSUME Latch, [Next]_vars PROVE Latch'
    OBVIOUS
  <2>1. CASE UNCHANGED <<notified, booked, returned>>
    BY <2>1 DEF Net
  <2>2. CASE \E h \in handlers : Reverse(h)
    BY <2>1, <2>2 DEF Reverse, Reverses, Net, Synced, invoice
  <2>3. CASE PaymentEvidence
    <3>1. booked = 1 => UNCHANGED <<notified, booked, returned>>
      BY <2>3 DEF PaymentEvidence, BookedOnce, invoice
    <3>2. booked # 1 => /\ notified' = Announced(notified, review', Paid + Sum(returned))
                        /\ booked' = 1 /\ returned' = returned
      BY <2>3 DEF PaymentEvidence, BookedOnce
    <3>3. booked # 1 => Net' = Paid + Sum(returned)
      BY <3>2 DEF Net
    <3> QED
      BY <2>1, <3>1, <3>2, <3>3 DEF Announced, Synced, MayAnnounce
  <2>4. CASE ClearReview
    BY <2>4 DEF ClearReview, Announced, Synced, MayAnnounce, Net, books
  <2>5. [Next]_vars => \/ UNCHANGED <<notified, booked, returned>> \/ (\E h \in handlers : Reverse(h))
                       \/ PaymentEvidence \/ ClearReview
    BY DEF Next, Handle, ReversalNotice, RefundRead, CallFails, Crash, Outside, RefundAsked,
           RefundSucceeds, RefundFails, Turns, vars, books, invoice
  <2> QED
    BY <2>1, <2>2, <2>3, <2>4, <2>5
<1>3. [Next]_vars => [~notified /\ notified' => ~review']_vars
  BY DEF Next, Handle, ReversalNotice, RefundRead, Reverse, Reverses, CallFails, PaymentEvidence,
         ClearReview, Crash, Outside, RefundAsked, RefundSucceeds, RefundFails, Turns,
         Announced, Synced, MayAnnounce, vars, books, invoice
<1> QED
  BY <1>1, <1>2, <1>3, PTL DEF Spec, AnnouncedWhenPaid
-----------------------------------------------------------------------------
(* The books                                                                 *)

(* What each refund took from the invoice is what its row says, and all of   *)
(* them together no more than the payment once that is booked.  Before it is *)
(* booked, nothing is: a refund that comes first books the payment too.      *)
Ledger ==
    /\ booked \in {0, 1}
    /\ rows \in [Refunds -> [status : Statuses, applied : 0..Paid]]
    /\ returned \in [Refunds -> Int]
    /\ \A id \in Refunds : returned[id] = 0 - rows[id].applied
    /\ Sum(returned) >= 0 - Paid * booked

LEMMA SumIsSumOf ==
    ASSUME NEW v
    PROVE  Sum(v) = SumOf(v, Refunds)
  BY DEF Sum, SumOf

LEMMA LedgerInit == Init => Ledger
<1> SUFFICES ASSUME Init PROVE Ledger
  OBVIOUS
<1>1. \A x \in Refunds : returned[x] \in Int /\ returned[x] = 0 - returned[x]
  BY DEF Init
<1>2. SumOf(returned, Refunds) = 0 - SumOf(returned, Refunds) /\ SumOf(returned, Refunds) \in Int
  BY <1>1, SumOpposite, SumType
<1>3. SumOf(returned, Refunds) = 0
  BY <1>2
<1> QED
  BY <1>1, <1>3, SumIsSumOf DEF Init, Ledger, Statuses

(* The rows of the other refunds say what was taken for them. *)
LEMMA OthersReturned ==
    ASSUME Ledger, NEW id \in Refunds
    PROVE  /\ OthersApplied(id) \in Int
           /\ SumOf(returned, Refunds \ {id}) = 0 - OthersApplied(id)
<1> DEFINE applied == [other \in Refunds |-> rows[other].applied]
<1>1. IsFiniteSet(Refunds \ {id})
  BY FS_RemoveElement
<1>2. OthersApplied(id) = SumOf(applied, Refunds \ {id})
  <2>1. \A g :
            g = [s \in SUBSET (Refunds \ {id}) |-> IF s = {} THEN 0
                    ELSE rows[FirstOf(s)].applied + g[RestOf(s)]]
        <=> Accumulates(g, applied, Refunds \ {id})
    <3>1. \A s \in SUBSET (Refunds \ {id}) :
              s # {} => rows[FirstOf(s)].applied = applied[FirstOf(s)]
      BY FirstAndRest
    <3> QED
      BY <3>1 DEF Accumulates
  <2>2. OthersApplied(id) =
            (CHOOSE g : g = [s \in SUBSET (Refunds \ {id}) |-> IF s = {} THEN 0
                    ELSE rows[FirstOf(s)].applied + g[RestOf(s)]])[Refunds \ {id}]
    BY DEF OthersApplied, MapThenSumSet, MapThenFoldSet, FirstOf, RestOf
  <2>3. OthersApplied(id) = (CHOOSE g : Accumulates(g, applied, Refunds \ {id}))[Refunds \ {id}]
    BY <2>1, <2>2
  <2> QED
    BY <2>3, SumUnfolds DEF Accumulated
<1>3. \A x \in Refunds \ {id} : applied[x] \in Int /\ returned[x] = 0 - applied[x]
  BY DEF Ledger
<1> HIDE DEF applied
<1>4. SumOf(applied, Refunds \ {id}) \in Int
  BY <1>1, <1>3, SumType
<1>5. SumOf(returned, Refunds \ {id}) = 0 - SumOf(applied, Refunds \ {id})
  BY <1>1, <1>3, SumOpposite
<1> QED
  BY <1>2, <1>4, <1>5

(* A refund is applied only where it fits beside the others. *)
LEMMA ReverseBalances ==
    ASSUME IInv, Ledger, NEW h \in handlers, Reverse(h)
    PROVE  Ledger'
<1> DEFINE target == Applied(h.got, refunds[h.id].amount)
<1>1. PICK id \in Refunds : id = h.id /\ h.got \in Statuses
  BY DEF IInv, Shapes, Handlers
<1>2. target \in 0..Paid
  <2>1. refunds[id].amount \in 0..Paid
    <3>1. PICK amount : amount = refunds[id].amount /\ amount \in Amounts \cup {0}
      BY DEF IInv, Shapes
    <3>2. Paid \in Nat /\ Amounts \subseteq 1..Paid
      OBVIOUS
    <3>3. amount \in 0..Paid
      BY <3>1, <3>2
    <3> QED
      BY <3>1, <3>3
  <2> QED
    BY <1>1, <2>1 DEF Applied
<1> HIDE DEF target
<1>3. CASE UNCHANGED <<booked, rows, returned>>
  BY <1>3 DEF Ledger
<1>4. CASE Fits(id, target) /\ Reverses(id, h.got, target)
  <2>1. /\ booked' = 1 /\ rows' = [rows EXCEPT ![id] = [status |-> h.got, applied |-> target]]
        /\ returned' = [returned EXCEPT ![id] = @ + (rows[id].applied - target)]
    BY <1>4 DEF Reverses, BookedOnce, Delta
  <2>2. rows' \in [Refunds -> [status : Statuses, applied : 0..Paid]]
    BY <1>1, <1>2, <2>1 DEF Ledger
  <2>3. /\ returned[id] = 0 - rows[id].applied /\ rows[id].applied \in 0..Paid
        /\ returned[id] \in Int
    BY DEF Ledger
  <2>4. returned'[id] = 0 - target /\ \A x \in Refunds \ {id} : returned'[x] = returned[x]
    BY <1>2, <2>1, <2>3 DEF Ledger
  <2>5. /\ returned' \in [Refunds -> Int]
        /\ \A x \in Refunds : returned'[x] = 0 - rows'[x].applied
    BY <1>2, <2>1, <2>3, <2>4 DEF Ledger
  <2>6. PICK new : new = returned'
    OBVIOUS
  <2>7. /\ IsFiniteSet(Refunds \ {id}) /\ \A x \in Refunds : new[x] \in Int
        /\ \A x \in Refunds \ {id} : new[x] = returned[x]
    BY <2>4, <2>5, <2>6, FS_RemoveElement
  <2>8. SumOf(new, Refunds) = new[id] + SumOf(new, Refunds \ {id})
    BY <2>7, SumAdd
  <2>9. SumOf(new, Refunds \ {id}) = SumOf(returned, Refunds \ {id})
    BY <2>7, SumSame
  <2>10. SumOf(new, Refunds) = 0 - target - OthersApplied(id)
    BY <1>2, <2>4, <2>6, <2>8, <2>9, OthersReturned
  <2>11. Sum(returned') >= 0 - Paid * booked'
    <3>1. Sum(returned') = 0 - target - OthersApplied(id) /\ OthersApplied(id) \in Int
      BY <2>6, <2>10, OthersReturned, SumIsSumOf
    <3>2. OthersApplied(id) + target <= Paid /\ Paid * booked' = Paid
      BY <1>4, <2>1 DEF Fits
    <3> QED
      BY <1>2, <3>1, <3>2
  <2> QED
    BY <2>1, <2>2, <2>5, <2>11 DEF Ledger
<1> QED
  BY <1>1, <1>3, <1>4 DEF Reverse, target

(* The books of the invoice are one payment less what was returned, and the  *)
(* returns are within the payment: a refund that does not fit is refused     *)
(* until the one that it follows is out of the books.                        *)
THEOREM BooksAlwaysFollow == Spec => []BooksFollowRefunds
<1>1. Ledger => BooksFollowRefunds
  <2>1. Ledger => Sum(returned) \in Int /\ Paid * booked \in Int
    BY SumType, SumIsSumOf DEF Ledger
  <2> QED
    BY <2>1 DEF Ledger, BooksFollowRefunds, Net
<1>2. IInv /\ Ledger /\ [Next]_vars => Ledger'
  <2> SUFFICES ASSUME IInv, Ledger, [Next]_vars PROVE Ledger'
    OBVIOUS
  <2>1. CASE \E h \in handlers : Reverse(h)
    BY <2>1, ReverseBalances
  <2>2. CASE booked' \in {booked, 1} /\ UNCHANGED <<rows, returned>>
    <3>1. booked' \in {0, 1} /\ Sum(returned') = Sum(returned) /\ Sum(returned) \in Int
      BY <2>2, SumType, SumIsSumOf DEF Ledger
    <3>2. Sum(returned') >= 0 - Paid * booked'
      <4>1. booked' = booked \/ booked' = 1
        BY <2>2
      <4>2. Paid * 0 = 0 /\ Paid * 1 = Paid /\ Paid \in Nat
        OBVIOUS
      <4> QED
        BY <3>1, <4>1, <4>2 DEF Ledger
    <3> QED
      BY <2>2, <3>1, <3>2 DEF Ledger
  <2> QED
    BY <2>1, <2>2
    DEF Next, Handle, ReversalNotice, RefundRead, CallFails, PaymentEvidence, BookedOnce,
        ClearReview, Crash, Outside, RefundAsked, RefundSucceeds, RefundFails, Turns, vars, books
<1> QED
  BY <1>1, <1>2, InitIInv, LedgerInit, NextIInv, PTL DEF Spec
=============================================================================
