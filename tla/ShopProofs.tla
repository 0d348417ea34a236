----------------------------- MODULE ShopProofs -----------------------------
(***************************************************************************)
(* Theorems of the message and of the rule in ShopPromises, for every      *)
(* number of senders, records, steps, waits, presses and crashes.          *)
(***************************************************************************)
EXTENDS ShopPromises, Sequences, FiniteSetTheorems, WellFoundedInduction, TLAPS

USE OutboxAssumption, RuleAssumption

-----------------------------------------------------------------------------
(* The message                                                               *)

Asked == {s \in Everyone : sends[s] = "asked"}
\* The places at first: the send that starts with an SMS claims none.
Claimless == IF kind = "sms" THEN 2 ELSE 1

\* Send is accepted, or will be without a claim that runs out under a send.
Room == ~delivered /\ (claim = "held" => InFlight = {})
MayOpen == IF Room THEN 1 ELSE 0

Shapes ==
    /\ sends \in [Everyone -> {"idle", "asked", "taken"}]
    /\ taken \in Nat /\ unknown \in Nat /\ outlived \in Nat
    /\ IsFiniteSet(Asked)

(* What the relay took, what it may still take from the sends under way, and *)
(* the one Send that may follow: whichever ends first and whatever it writes *)
(* over, only a lost answer or a claim that runs out makes room for one more.*)
Accounted ==
    taken + Cardinality(Asked) + MayOpen <= Claimless + unknown + outlived

IInv == Shapes /\ Accounted

LEMMA AskedIsCounted == IInv => Cardinality(Asked) \in Nat /\ MayOpen \in 0..1
BY FS_CardinalityType DEF IInv, Shapes, MayOpen

LEMMA InitIInv == Init => IInv
<1> SUFFICES ASSUME Init PROVE IInv
  OBVIOUS
<1>1. PICK deliver \in BOOLEAN :
        /\ claim = FirstClaim(deliver)
        /\ sends = [s \in Everyone |-> IF deliver /\ s = Automatic THEN "asked" ELSE "idle"]
  BY DEF Init
<1>2. Asked = IF deliver THEN {Automatic} ELSE {}
  BY <1>1 DEF Asked, Everyone
<1>3. IsFiniteSet(Asked) /\ Cardinality(Asked) = IF deliver THEN 1 ELSE 0
  BY <1>2, FS_EmptySet, FS_Singleton
<1>4. deliver /\ kind = "email" => MayOpen = 0
  BY <1>1 DEF FirstClaim, MayOpen, Room, InFlight, Everyone
<1>5. kind \in {"email", "sms"} /\ taken = 0 /\ unknown = 0 /\ outlived = 0
  BY DEF Init
<1>6. Shapes
  BY <1>1, <1>3, <1>5 DEF Shapes, Everyone
<1>7. Accounted
  BY <1>3, <1>4, <1>5 DEF Accounted, Claimless, MayOpen
<1> QED
  BY <1>6, <1>7 DEF IInv

(* Send takes the place that a free claim leaves.                            *)
LEMMA SendKeeps ==
    ASSUME IInv, NEW s \in Senders, Send(s)
    PROVE  IInv'
<1>1. s \in Everyone
  BY DEF Everyone
<1>2. /\ sends[s] = "idle" /\ sends' = [sends EXCEPT ![s] = "asked"] /\ claim' = "held"
      /\ ~delivered /\ claim # "held"
      /\ UNCHANGED <<kind, delivered, taken, unknown, outlived>>
  BY DEF Send, Free
<1>3. Asked' = Asked \cup {s} /\ s \notin Asked
  BY <1>1, <1>2 DEF IInv, Shapes, Asked, Everyone
<1>4. IsFiniteSet(Asked') /\ Cardinality(Asked') = Cardinality(Asked) + 1
  BY <1>3, FS_AddElement DEF IInv, Shapes
<1>5. MayOpen = 1
  BY <1>2 DEF MayOpen, Room
<1>6. s \in InFlight'
  BY <1>1, <1>2 DEF IInv, Shapes, InFlight, Everyone
<1>7. MayOpen' = 0
  BY <1>2, <1>6 DEF MayOpen, Room
<1>8. Shapes'
  BY <1>1, <1>2, <1>4 DEF IInv, Shapes, Everyone
<1>9. Accounted'
  BY <1>2, <1>4, <1>5, <1>7, AskedIsCounted DEF IInv, Shapes, Accounted, Claimless
<1> QED
  BY <1>8, <1>9 DEF IInv

LEMMA TakesKeeps ==
    ASSUME IInv, NEW s \in Everyone, Takes(s)
    PROVE  IInv'
<1>1. /\ sends[s] = "asked" /\ sends' = [sends EXCEPT ![s] = "taken"]
      /\ taken' = taken + 1 /\ UNCHANGED <<kind, claim, delivered, unknown, outlived>>
  BY DEF Takes
<1>2. Asked' = Asked \ {s} /\ s \in Asked
  BY <1>1 DEF IInv, Shapes, Asked, Everyone
<1>3. IsFiniteSet(Asked') /\ Cardinality(Asked') = Cardinality(Asked) - 1
  BY <1>2, FS_RemoveElement DEF IInv, Shapes
<1>4. InFlight' = InFlight
  BY <1>1 DEF IInv, Shapes, InFlight, Everyone
<1>5. MayOpen' = MayOpen
  BY <1>1, <1>4 DEF MayOpen, Room
<1>6. Shapes'
  BY <1>1, <1>3 DEF IInv, Shapes, Everyone
<1>7. Accounted'
  BY <1>1, <1>3, <1>5, AskedIsCounted DEF IInv, Shapes, Accounted, Claimless
<1> QED
  BY <1>6, <1>7 DEF IInv

(* The end of a send frees the row, whoever has claimed it: with a delivery  *)
(* nobody may send again, and without one the send that ended gives back its *)
(* own place, or the answer that was lost accounts for it.                   *)
LEMMA AnsweredKeeps ==
    ASSUME IInv, NEW s \in Everyone, Answered(s)
    PROVE  IInv'
<1>1. /\ sends[s] # "idle" /\ sends' = [sends EXCEPT ![s] = "idle"]
      /\ UNCHANGED <<kind, taken, outlived>>
      /\ \/ sends[s] = "taken" /\ delivered' = TRUE /\ unknown' = unknown
         \/ delivered' = FALSE /\ unknown' = unknown + (IF sends[s] = "taken" THEN 1 ELSE 0)
  BY DEF Answered
<1>2. sends' \in [Everyone -> {"idle", "asked", "taken"}]
  BY <1>1 DEF IInv, Shapes
<1>3. Asked' = Asked \ {s}
  BY <1>1 DEF IInv, Shapes, Asked, Everyone
<1>4. MayOpen' \in 0..1 /\ (delivered' = TRUE => MayOpen' = 0)
  BY DEF MayOpen, Room
<1>5. CASE sends[s] = "taken"
  <2>1. Asked' = Asked
    BY <1>3, <1>5 DEF Asked
  <2>2. unknown' \in Nat /\ MayOpen' + unknown <= 1 + unknown'
        /\ (MayOpen' = 0 \/ unknown' = unknown + 1) /\ unknown <= unknown'
    BY <1>1, <1>4, <1>5 DEF IInv, Shapes
  <2>3. Shapes'
    BY <1>1, <1>2, <2>1, <2>2 DEF IInv, Shapes, Everyone
  <2>4. Accounted'
    BY <1>1, <1>4, <2>1, <2>2, AskedIsCounted DEF IInv, Shapes, Accounted, Claimless
  <2> QED
    BY <2>3, <2>4 DEF IInv
<1>6. CASE sends[s] = "asked"
  <2>1. s \in Asked /\ unknown' = unknown
    BY <1>1, <1>6 DEF Asked, IInv, Shapes
  <2>2. IsFiniteSet(Asked') /\ Cardinality(Asked') = Cardinality(Asked) - 1
    BY <1>3, <2>1, FS_RemoveElement DEF IInv, Shapes
  <2>3. Shapes'
    BY <1>1, <1>2, <2>1, <2>2 DEF IInv, Shapes, Everyone
  <2>4. Accounted'
    BY <1>1, <1>4, <2>1, <2>2, AskedIsCounted DEF IInv, Shapes, Accounted, Claimless
  <2> QED
    BY <2>3, <2>4 DEF IInv
<1> QED
  BY <1>1, <1>5, <1>6 DEF IInv, Shapes

(* A crash, or an outcome that cannot be written: the claim of the sends it  *)
(* ends is left, and each had a place of its own or was taken.               *)
LEMMA LostKeeps ==
    ASSUME IInv, NEW gone \in SUBSET InFlight, Lost(gone)
    PROVE  IInv'
<1>1. /\ sends' = [t \in Everyone |-> IF t \in gone THEN "idle" ELSE sends[t]]
      /\ unknown' = unknown + (IF \E t \in gone : sends[t] = "taken" THEN 1 ELSE 0)
      /\ gone # {} /\ UNCHANGED <<kind, claim, delivered, taken, outlived>>
  BY DEF Lost
<1>2. unknown' \in Nat
  BY <1>1 DEF IInv, Shapes
<1>3. Asked' \subseteq Asked
  BY <1>1 DEF Asked, Everyone
<1>4. IsFiniteSet(Asked') /\ Cardinality(Asked') <= Cardinality(Asked)
  BY <1>3, FS_Subset DEF IInv, Shapes
<1>5. Cardinality(Asked') \in Nat /\ MayOpen' \in 0..1
  BY <1>4, FS_CardinalityType DEF MayOpen
<1>6. unknown' = unknown + 1 \/ (unknown' = unknown /\ Cardinality(Asked') < Cardinality(Asked))
  <2>1. CASE \E t \in gone : sends[t] = "taken"
    BY <1>1, <2>1
  <2>2. CASE ~\E t \in gone : sends[t] = "taken"
    <3>1. PICK t \in gone : t \in Everyone /\ sends[t] = "asked"
      BY <1>1, <2>2 DEF InFlight, IInv, Shapes
    <3>2. t \in Asked /\ t \notin Asked'
      BY <1>1, <3>1 DEF Asked, Everyone
    <3>3. Cardinality(Asked') < Cardinality(Asked)
      BY <1>3, <1>4, <1>5, <3>2, FS_Subset, AskedIsCounted DEF IInv, Shapes
    <3> QED
      BY <1>1, <2>2, <3>3 DEF IInv, Shapes
  <2> QED
    BY <2>1, <2>2
<1>7. Shapes'
  BY <1>1, <1>2, <1>4 DEF IInv, Shapes, Everyone
<1>8. Accounted'
  BY <1>1, <1>2, <1>4, <1>5, <1>6, AskedIsCounted DEF IInv, Shapes, Accounted, Claimless
<1> QED
  BY <1>7, <1>8 DEF IInv

(* A claim that ages under no send opens nothing that was not open.          *)
LEMMA ClaimAgesKeeps == IInv /\ ClaimAges => IInv'
<1> SUFFICES ASSUME IInv, ClaimAges PROVE IInv'
  OBVIOUS
<1>1. /\ claim = "held" /\ outlived' = outlived + (IF InFlight = {} THEN 0 ELSE 1)
      /\ UNCHANGED <<kind, delivered, sends, taken, unknown>>
  BY DEF ClaimAges
<1>2. Asked' = Asked /\ InFlight' = InFlight /\ MayOpen' \in 0..1
  BY <1>1 DEF Asked, InFlight, MayOpen, Everyone
<1>3. Shapes'
  BY <1>1, <1>2 DEF IInv, Shapes, Everyone
<1>4. CASE InFlight = {}
  <2>1. outlived' = outlived
    BY <1>1, <1>4 DEF IInv, Shapes
  <2>2. MayOpen' = MayOpen
    BY <1>1, <1>2, <1>4 DEF MayOpen, Room
  <2> QED
    BY <1>1, <1>2, <1>3, <2>1, <2>2 DEF IInv, Accounted, Claimless
<1>5. CASE InFlight # {}
  <2>1. outlived' = outlived + 1
    BY <1>1, <1>5
  <2>2. Accounted'
    BY <1>1, <1>2, <2>1, AskedIsCounted DEF IInv, Shapes, Accounted, Claimless
  <2> QED
    BY <1>3, <2>2 DEF IInv
<1> QED
  BY <1>4, <1>5

LEMMA NextIInv == IInv /\ [Next]_vars => IInv'
<1> SUFFICES ASSUME IInv, [Next]_vars PROVE IInv'
  OBVIOUS
<1>1. ASSUME UNCHANGED <<kind, claim, delivered, sends, taken, unknown, outlived>>
      PROVE  IInv'
  <2>1. Asked' = Asked /\ InFlight' = InFlight
    BY <1>1 DEF Asked, InFlight, Everyone
  <2>2. Claimless' = Claimless /\ MayOpen' = MayOpen
    BY <1>1, <2>1 DEF Claimless, MayOpen, Room
  <2> QED
    BY <1>1, <2>1, <2>2 DEF IInv, Shapes, Accounted, Everyone
<1>2. CASE UNCHANGED vars
  BY <1>1, <1>2 DEF vars
<1>3. CASE Next
  <2>1. CASE \E s \in Senders : Send(s)
    BY <2>1, SendKeeps
  <2>2. CASE \E s \in Everyone : Takes(s) \/ Answered(s)
    BY <2>2, TakesKeeps, AnsweredKeeps
  <2>3. CASE Lost(InFlight) \/ \E s \in Everyone : Lost({s} \cap InFlight)
    BY <2>3, LostKeeps
  <2>4. CASE ClaimAges
    BY <2>4, ClaimAgesKeeps
  <2>5. CASE PaymentChanges
    BY <1>1, <2>5 DEF PaymentChanges
  <2> QED
    BY <1>3, <2>1, <2>2, <2>3, <2>4, <2>5 DEF Next
<1> QED
  BY <1>2, <1>3

(* However many people press Send, whenever the process dies and however     *)
(* long a send takes, the relay takes a message once more only for an answer *)
(* that was lost or for a claim that ran out while the message was being     *)
(* sent.                                                                     *)
THEOREM MessageSentOnce == Spec => []SentOnce
<1>1. IInv => SentOnce
  BY AskedIsCounted DEF IInv, Shapes, Accounted, Claimless, SentOnce
<1> QED
  BY <1>1, InitIInv, NextIInv, PTL DEF Spec

-----------------------------------------------------------------------------
(* The rule                                                                  *)

Steps == 1..Last

Line == [status : {"ran", "error", "skipped", "retry"}, next : Nat, skip : BOOLEAN]

Rest ==
    [state : {"live"} \cup A!Parked, of : Records, next : Nat, attempts : Nat, due : BOOLEAN]

Rests == Rest \cup {A!Absent}

RuleShapes ==
    /\ there \in [Records -> BOOLEAN]
    /\ log \in [Records -> Seq(Line)]
    /\ pending \in [Ids -> Rests]
    /\ queued \in [Records -> [Steps -> Nat]] /\ repeats \in [Records -> Nat]

(* The lines a tick goes on from, once the errors among them are released.   *)
Open(lines) == {k \in DOMAIN lines : lines[k].status \in {"retry", "error"}}

(* The first step of the next run of a rule with these lines.                *)
Onward(lines) == IF Open(lines) = {} THEN 1 ELSE lines[A!Max(Open(lines))].next

Ran(lines) == \E k \in DOMAIN lines : lines[k].status = "ran"

(* A run of the rule could still do step i.                                  *)
MayRun(e, i) == rule # "deleted" /\ there[e] /\ ~Ran(log[e]) /\ i >= Onward(log[e])

Chance(e, i) == IF MayRun(e, i) THEN 1 ELSE 0

(* The waiting sequences that could still do step i.                         *)
Owed(rows, e, i) ==
    {p \in Ids : rows[p].state # "absent" /\ rows[p].of = e /\ rows[p].next <= i}

(* What was queued of a step, and what could still queue it.                 *)
Budget(e, i) == queued[e][i] + Chance(e, i) + Cardinality(Owed(pending, e, i))

InBudget == \A e \in Records, i \in Steps : Budget(e, i) <= 1 + repeats[e]

RuleInv == RuleShapes /\ InBudget

-----------------------------------------------------------------------------
(* Smallest and largest                                                      *)

Below == {p \in Nat \X Nat : p[1] < p[2]}

(* A nonempty set of numbers has a smallest one.                             *)
LEMMA Smallest ==
    ASSUME NEW T \in SUBSET Nat, T # {}
    PROVE  \E m \in T : \A n \in T : ~(n < m)
<1>1. OpToRel(<, Nat) = Below
  BY DEF OpToRel, Below
<1>2. PICK m \in T : \A n \in T : <<n, m>> \notin Below
  BY <1>1, WFMin, NatLessThanWellFounded
<1> QED
  BY <1>2 DEF Below

(* A run stops at a step or past the end.                                    *)
LEMMA StopType ==
    ASSUME NEW from \in Nat
    PROVE  A!Stop(from) \in 1..(Last + 1)
<1> DEFINE T == {i \in Waits : i >= from} \cup {Last + 1}
<1>1. T \in SUBSET (1..(Last + 1)) /\ T # {}
  <2>1. Last + 1 \in T /\ Last + 1 \in 1..(Last + 1)
    OBVIOUS
  <2>2. \A i \in Waits : i \in 1..(Last + 1)
    OBVIOUS
  <2>3. \A i \in T : i = Last + 1 \/ i \in Waits
    OBVIOUS
  <2> QED
    BY <2>1, <2>2, <2>3
<1> HIDE DEF T
<1>2. PICK m \in T : \A n \in T : ~(n < m)
  BY <1>1, Smallest
<1>3. \A n \in T : m =< n
  BY <1>1, <1>2
<1>4. A!Min(T) \in T
  BY <1>2, <1>3 DEF A!Min
<1> QED
  BY <1>1, <1>4 DEF A!Stop, T

(* The largest of some lines is one of them.                                 *)
LEMMA LargestType ==
    ASSUME NEW n \in Nat, NEW T \in SUBSET (1..n), T # {}
    PROVE  A!Max(T) \in T
<1> DEFINE Back == {n - k : k \in T}
<1>1. Back \in SUBSET Nat /\ Back # {}
  <2>1. \A k \in T : k \in 1..n /\ n - k \in Nat
    OBVIOUS
  <2> QED
    BY <2>1
<1>2. PICK m \in Back : \A j \in Back : ~(j < m)
  BY <1>1, Smallest
<1>3. PICK k \in T : m = n - k
  OBVIOUS
<1>4. \A j \in T : k >= j
  <2> SUFFICES ASSUME NEW j \in T PROVE k >= j
    OBVIOUS
  <2>1. ~(n - j < n - k)
    BY <1>2, <1>3
  <2>2. j \in 1..n /\ k \in 1..n
    OBVIOUS
  <2> QED
    BY <2>1, <2>2
<1> QED
  BY <1>3, <1>4 DEF A!Max

(* A line that is added last is the largest.                                 *)
LEMMA LargestLast ==
    ASSUME NEW n \in Nat, NEW T \in SUBSET (1..n)
    PROVE  A!Max(T \cup {n + 1}) = n + 1
<1>1. \A x \in T \cup {n + 1} : (\A y \in T \cup {n + 1} : x >= y) => x = n + 1
  OBVIOUS
<1>2. \A y \in T \cup {n + 1} : n + 1 >= y
  OBVIOUS
<1> QED
  BY <1>1, <1>2 DEF A!Max

(* The sequences that wait are finitely many.                                *)
LEMMA OwedFinite ==
    ASSUME NEW rows, NEW e, NEW i
    PROVE  /\ IsFiniteSet(Owed(rows, e, i)) /\ Cardinality(Owed(rows, e, i)) \in Nat
           /\ Owed(rows, e, i) \subseteq Ids
<1>1. Owed(rows, e, i) \subseteq Ids
  BY DEF Owed
<1> QED
  BY <1>1, FS_Subset, FS_CardinalityType

(* Fewer wait when one leaves and nobody comes.                              *)
LEMMA Fewer ==
    ASSUME NEW Q, IsFiniteSet(Q), NEW x \in Q, NEW T, T \subseteq Q \ {x}
    PROVE  Cardinality(T) + 1 <= Cardinality(Q)
<1>1. IsFiniteSet(Q \ {x}) /\ Cardinality(Q \ {x}) = Cardinality(Q) - 1
  BY FS_RemoveElement
<1>2. Cardinality(T) <= Cardinality(Q \ {x})
  BY <1>1, FS_Subset
<1>3. Cardinality(Q) \in Nat /\ Cardinality(T) \in Nat
  BY <1>1, FS_CardinalityType, FS_Subset
<1> QED
  BY <1>1, <1>2, <1>3

(* One that comes is one more.                                               *)
LEMMA OneMore ==
    ASSUME NEW Q, IsFiniteSet(Q), NEW x, NEW T, T \subseteq Q \cup {x}
    PROVE  Cardinality(T) <= Cardinality(Q) + 1
<1>1. IsFiniteSet(Q \cup {x}) /\ Cardinality(Q \cup {x}) <= Cardinality(Q) + 1
  <2>1. Cardinality(Q) \in Nat
    BY FS_CardinalityType
  <2>2. /\ IsFiniteSet(Q \cup {x})
        /\ Cardinality(Q \cup {x}) = IF x \in Q THEN Cardinality(Q) ELSE Cardinality(Q) + 1
    BY FS_AddElement
  <2> QED
    BY <2>1, <2>2
<1>2. Cardinality(T) <= Cardinality(Q \cup {x})
  BY <1>1, FS_Subset
<1>3. Cardinality(Q) \in Nat /\ Cardinality(T) \in Nat /\ Cardinality(Q \cup {x}) \in Nat
  BY <1>1, FS_CardinalityType, FS_Subset
<1> QED
  BY <1>1, <1>2, <1>3

(* No more wait when none comes.                                             *)
LEMMA NoMore ==
    ASSUME NEW Q, IsFiniteSet(Q), NEW T, T \subseteq Q
    PROVE  Cardinality(T) <= Cardinality(Q)
  BY FS_Subset

(* Who comes for a record when the wait "to" of another one begins.          *)
Added(e, to, m, f, i) == IF f = e /\ to \in Waits /\ to < i THEN {m} ELSE {}

(* The INSERT of a wait adds a sequence for one record, from one step on.    *)
LEMMA WaitRows ==
    ASSUME NEW rows \in [Ids -> Rests], NEW e \in Records, NEW to \in Nat
    PROVE  /\ A!WithWait(rows, e, to) \in [Ids -> Rests]
           /\ \E m : \A f : \A i \in Steps : Owed(A!WithWait(rows, e, to), f, i) \subseteq
                 Owed(rows, f, i) \cup Added(e, to, m, f, i)
<1>1. CASE to \notin Waits
  BY <1>1 DEF A!WithWait
<1>2. CASE to \in Waits
  <2> DEFINE new == A!Row(e, to + 1)
  <2>1. PICK m : A!WithWait(rows, e, to) = [rows EXCEPT ![m] = new]
    BY <1>2 DEF A!WithWait
  <2>2. /\ new \in Rests /\ new.of = e /\ new.next = to + 1
    BY DEF A!Row, Rests, Rest
  <2> HIDE DEF new
  <2>3. [rows EXCEPT ![m] = new] \in [Ids -> Rests]
    BY <2>2
  <2>4. ASSUME NEW f, NEW i \in Steps, NEW p \in Owed([rows EXCEPT ![m] = new], f, i)
        PROVE  p \in Owed(rows, f, i) \cup Added(e, to, m, f, i)
    <3>1. p # m => p \in Owed(rows, f, i)
      BY <2>4 DEF Owed
    <3>2. p = m => f = e /\ to + 1 <= i
      BY <2>2, <2>4 DEF Owed
    <3>3. to + 1 <= i => to < i
      BY DEF Steps
    <3> QED
      BY <1>2, <3>1, <3>2, <3>3 DEF Added
  <2>5. \A f : \A i \in Steps : Owed([rows EXCEPT ![m] = new], f, i) \subseteq
            Owed(rows, f, i) \cup Added(e, to, m, f, i)
    BY <2>4
  <2> QED
    BY <2>1, <2>3, <2>5
<1> QED
  BY <1>1, <1>2

-----------------------------------------------------------------------------
(* The lines of the log                                                      *)

(* The first step of the next run is a number.                               *)
LEMMA OnwardType ==
    ASSUME NEW s \in Seq(Line)
    PROVE  /\ Onward(s) \in Nat
           /\ Open(s) # {} => A!Max(Open(s)) \in Open(s)
<1>1. Len(s) \in Nat /\ Open(s) \in SUBSET (1..Len(s))
  BY DEF Open
<1>2. Open(s) # {} => A!Max(Open(s)) \in Open(s)
  BY <1>1, LargestType
<1>3. \A k \in Open(s) : s[k].next \in Nat
  <2>1. \A k \in DOMAIN s : s[k] \in Line
    OBVIOUS
  <2> QED
    BY <2>1 DEF Open, Line
<1> QED
  BY <1>2, <1>3 DEF Onward

(* What a line at the end of the log does to the next run.                   *)
LEMMA AppendLine ==
    ASSUME NEW s \in Seq(Line), NEW line \in Line, NEW t, t = Append(s, line)
    PROVE  /\ t \in Seq(Line)
           /\ Ran(t) <=> Ran(s) \/ line.status = "ran"
           /\ line.status = "skipped" => Onward(t) = Onward(s)
           /\ line.status = "error" => Onward(t) = line.next
<1>1. /\ Len(s) \in Nat /\ DOMAIN s = 1..Len(s) /\ DOMAIN t = 1..(Len(s) + 1)
      /\ t \in Seq(Line) /\ t[Len(s) + 1] = line
      /\ \A k \in 1..Len(s) : t[k] = s[k]
  OBVIOUS
<1>2. \A k : k \in 1..(Len(s) + 1) <=> (k \in 1..Len(s) \/ k = Len(s) + 1)
  BY <1>1
<1>3. Ran(t) <=> Ran(s) \/ line.status = "ran"
  BY <1>1, <1>2 DEF Ran
<1>4. ASSUME line.status = "skipped" PROVE Onward(t) = Onward(s)
  <2>1. Open(t) = Open(s)
    BY <1>1, <1>2, <1>4 DEF Open
  <2>2. \A k \in Open(s) : t[k] = s[k]
    BY <1>1 DEF Open
  <2> QED
    BY <2>1, <2>2, OnwardType DEF Onward
<1>5. ASSUME line.status = "error" PROVE Onward(t) = line.next
  <2>1. Open(t) = Open(s) \cup {Len(s) + 1}
    BY <1>1, <1>2, <1>5 DEF Open
  <2>2. Open(s) \in SUBSET (1..Len(s))
    BY <1>1 DEF Open
  <2>3. A!Max(Open(t)) = Len(s) + 1
    BY <1>1, <2>1, <2>2, LargestLast
  <2> QED
    BY <1>1, <2>1, <2>3 DEF Onward
<1> QED
  BY <1>1, <1>3, <1>4, <1>5

(* A released error leaves the next run where it was.                        *)
LEMMA RetryLine ==
    ASSUME NEW s \in Seq(Line), NEW k \in DOMAIN s, NEW t,
           t = [s EXCEPT ![k].status = "retry"]
    PROVE  /\ t \in Seq(Line)
           /\ s[k].status = "error" => (Ran(t) <=> Ran(s)) /\ Onward(t) = Onward(s)
<1>1. /\ Len(s) \in Nat /\ DOMAIN s = 1..Len(s) /\ DOMAIN t = DOMAIN s
      /\ \A j \in DOMAIN s : s[j] \in Line
  OBVIOUS
<1>2. \A j \in DOMAIN s : /\ t[j] \in Line /\ t[j].next = s[j].next
                          /\ t[j].status = IF j = k THEN "retry" ELSE s[j].status
  <2> SUFFICES ASSUME NEW j \in DOMAIN s
               PROVE  /\ t[j] \in Line /\ t[j].next = s[j].next
                      /\ t[j].status = IF j = k THEN "retry" ELSE s[j].status
    OBVIOUS
  <2>1. t[j] = IF j = k THEN [s[j] EXCEPT !.status = "retry"] ELSE s[j]
    OBVIOUS
  <2> QED
    BY <1>1, <2>1 DEF Line
<1>3. t \in Seq(Line)
  BY <1>1, <1>2
<1>4. ASSUME s[k].status = "error"
      PROVE  (Ran(t) <=> Ran(s)) /\ Onward(t) = Onward(s)
  <2>1. Open(t) = Open(s)
    BY <1>1, <1>2, <1>4 DEF Open
  <2>2. \A j \in Open(s) : t[j].next = s[j].next
    BY <1>2 DEF Open
  <2>3. Ran(t) <=> Ran(s)
    BY <1>1, <1>2, <1>4 DEF Ran
  <2> QED
    BY <2>1, <2>2, <2>3, OnwardType DEF Onward
<1> QED
  BY <1>3, <1>4

-----------------------------------------------------------------------------
(* What a step adds to the budget of one record and step                     *)

Within(f, i) == Budget(f, i) <= 1 + repeats[f]

(* What is queued comes out of what could be, or of a repetition.            *)
LEMMA Spending ==
    ASSUME RuleShapes, RuleShapes', NEW f \in Records, NEW i \in Steps, Within(f, i),
           NEW a \in {0, 1}, queued'[f][i] = queued[f][i] + a,
           NEW r \in {0, 1}, repeats'[f] = repeats[f] + r,
           a + Chance(f, i)' + Cardinality(Owed(pending, f, i)')
               <= Chance(f, i) + Cardinality(Owed(pending, f, i)) + r
    PROVE  Within(f, i)'
<1>1. queued[f][i] \in Nat /\ queued'[f][i] \in Nat /\ repeats[f] \in Nat
  BY DEF RuleShapes
<1>2. /\ Cardinality(Owed(pending, f, i)) \in Nat
      /\ Cardinality(Owed(pending, f, i)') \in Nat
  <2>1. PICK rows : rows = pending'
    OBVIOUS
  <2>2. Owed(pending, f, i)' = Owed(rows, f, i)
    BY <2>1 DEF Owed
  <2> QED
    BY <2>2, OwedFinite
<1>3. Chance(f, i) \in {0, 1} /\ Chance(f, i)' \in {0, 1}
  BY DEF Chance
<1>4. queued[f][i] + Chance(f, i) + Cardinality(Owed(pending, f, i)) <= 1 + repeats[f]
  BY DEF Within, Budget
<1>5. queued'[f][i] + Chance(f, i)' + Cardinality(Owed(pending, f, i)') <= 1 + repeats'[f]
  BY <1>1, <1>2, <1>3, <1>4
<1> QED
  BY <1>5 DEF Within, Budget

(* A record that a step does not touch.                                      *)
LEMMA Untouched ==
    ASSUME RuleShapes, RuleShapes', NEW f \in Records, NEW i \in Steps, Within(f, i),
           queued'[f] = queued[f], repeats'[f] = repeats[f],
           MayRun(f, i)' => MayRun(f, i),
           Owed(pending, f, i)' \subseteq Owed(pending, f, i)
    PROVE  Within(f, i)'
<1>1. /\ Cardinality(Owed(pending, f, i)') <= Cardinality(Owed(pending, f, i))
      /\ Cardinality(Owed(pending, f, i)) \in Nat /\ Cardinality(Owed(pending, f, i)') \in Nat
  <2>1. IsFiniteSet(Owed(pending, f, i)) /\ Cardinality(Owed(pending, f, i)) \in Nat
    BY OwedFinite
  <2>2. PICK T : T = Owed(pending, f, i)'
    OBVIOUS
  <2>3. Cardinality(T) <= Cardinality(Owed(pending, f, i)) /\ Cardinality(T) \in Nat
    BY <2>1, <2>2, FS_Subset, FS_CardinalityType
  <2> QED
    BY <2>1, <2>2, <2>3
<1>2. Chance(f, i) \in {0, 1} /\ Chance(f, i)' \in {0, 1} /\ Chance(f, i)' <= Chance(f, i)
  BY DEF Chance
<1>3. queued'[f][i] = queued[f][i] + 0 /\ repeats'[f] = repeats[f] + 0
  BY DEF RuleShapes
<1>4. 0 + Chance(f, i)' + Cardinality(Owed(pending, f, i)')
        <= Chance(f, i) + Cardinality(Owed(pending, f, i)) + 0
  BY <1>1, <1>2
<1> QED
  BY <1>3, <1>4, Spending

(* The messages of some steps of a record.                                   *)
LEMMA QueuesType ==
    ASSUME RuleShapes, NEW e \in Records, NEW ran, A!Queues(e, ran)
    PROVE  /\ queued' \in [Records -> [Steps -> Nat]]
           /\ \A f \in Records \ {e} : queued'[f] = queued[f]
           /\ \A i \in Steps : queued'[e][i] = queued[e][i] + (IF i \in ran THEN 1 ELSE 0)
<1>1. \A i \in Steps : queued[e][i] \in Nat
  BY DEF RuleShapes
<1>2. PICK g : g = [i \in Steps |-> queued[e][i] + (IF i \in ran THEN 1 ELSE 0)]
  OBVIOUS
<1>3. queued' = [queued EXCEPT ![e] = g]
  BY <1>2 DEF A!Queues, A!Steps, Steps
<1>4. g \in [Steps -> Nat]
  BY <1>1, <1>2
<1> QED
  BY <1>2, <1>3, <1>4 DEF RuleShapes

(* A line in the log of a record.                                            *)
LEMMA LoggedType ==
    ASSUME RuleShapes, NEW e \in Records,
           NEW how \in {"ran", "error", "skipped", "retry"}, NEW next \in Nat,
           NEW skip \in BOOLEAN, A!Logged(e, how, next, skip)
    PROVE  /\ log' \in [Records -> Seq(Line)]
           /\ \A f \in Records \ {e} : log'[f] = log[f]
           /\ Ran(log'[e]) <=> Ran(log[e]) \/ how = "ran"
           /\ how = "skipped" => Onward(log'[e]) = Onward(log[e])
           /\ how = "error" => Onward(log'[e]) = next
<1>1. PICK line : line = [status |-> how, next |-> next, skip |-> skip]
  OBVIOUS
<1>2. line \in Line /\ line.status = how /\ line.next = next
  BY <1>1 DEF Line
<1>3. log[e] \in Seq(Line) /\ log' = [log EXCEPT ![e] = Append(log[e], line)]
  BY <1>1 DEF RuleShapes, A!Logged
<1>4. log'[e] = Append(log[e], line) /\ \A f \in Records \ {e} : log'[f] = log[f]
  BY <1>3 DEF RuleShapes
<1>5. /\ log'[e] \in Seq(Line)
      /\ Ran(log'[e]) <=> Ran(log[e]) \/ how = "ran"
      /\ how = "skipped" => Onward(log'[e]) = Onward(log[e])
      /\ how = "error" => Onward(log'[e]) = next
  BY <1>2, <1>3, <1>4, AppendLine
<1>6. log' \in [Records -> Seq(Line)]
  BY <1>3, <1>5, <1>4 DEF RuleShapes
<1> QED
  BY <1>4, <1>5, <1>6

(* One sequence more waits at most, and only for what comes after "to".      *)
LEMMA WaitCount ==
    ASSUME NEW rows, NEW new, NEW e, NEW i \in Steps, NEW to \in Nat, NEW m,
           Owed(new, e, i) \subseteq Owed(rows, e, i) \cup Added(e, to, m, e, i)
    PROVE  Cardinality(Owed(new, e, i))
               <= Cardinality(Owed(rows, e, i)) + (IF to < i THEN 1 ELSE 0)
<1>1. IsFiniteSet(Owed(rows, e, i)) /\ Cardinality(Owed(rows, e, i)) \in Nat
  BY OwedFinite
<1>2. CASE to < i
  <2>1. Owed(new, e, i) \subseteq Owed(rows, e, i) \cup {m}
    BY DEF Added
  <2> QED
    BY <1>1, <1>2, <2>1, OneMore
<1>3. CASE ~(to < i)
  <2>1. Owed(new, e, i) \subseteq Owed(rows, e, i)
    BY <1>3 DEF Added
  <2>2. Cardinality(Owed(new, e, i)) <= Cardinality(Owed(rows, e, i))
    BY <1>1, <2>1, NoMore
  <2> QED
    BY <1>1, <1>3, <2>2
<1> QED
  BY <1>2, <1>3

(* Nobody comes for another record.                                          *)
LEMMA NobodyComes ==
    ASSUME NEW rows, NEW new, NEW e, NEW f, f # e, NEW i, NEW to, NEW m,
           Owed(new, f, i) \subseteq Owed(rows, f, i) \cup Added(e, to, m, f, i)
    PROVE  Owed(new, f, i) \subseteq Owed(rows, f, i)
  BY DEF Added

(* A rule that fires goes on where its log says, and its log stays.          *)
LEMMA FireStarts ==
    ASSUME RuleShapes, NEW e \in Records, A!Fire(e)
    PROVE  /\ rule = "on" /\ there[e] /\ ~Ran(log[e])
           /\ A!ResumeAt(e) = Onward(log[e]) /\ A!ResumeAt(e) \in Nat
<1>1. \A k \in DOMAIN log[e] : log[e][k].status \notin {"ran", "error"}
  BY DEF A!Fire, A!Latched
<1>2. Open(log[e]) = {k \in DOMAIN log[e] : log[e][k].status = "retry"}
  BY <1>1 DEF Open
<1>3. A!ResumeAt(e) = Onward(log[e])
  BY <1>2 DEF A!ResumeAt, Onward
<1>4. log[e] \in Seq(Line)
  BY DEF RuleShapes
<1> QED
  BY <1>1, <1>3, <1>4, OnwardType DEF A!Fire, Ran

(* Firing the rule.                                                          *)
LEMMA FireKeeps ==
    ASSUME RuleInv, NEW e \in Records, A!Fire(e)
    PROVE  RuleInv'
<1>1. /\ rule = "on" /\ there[e] /\ ~Ran(log[e]) /\ RuleShapes
      /\ UNCHANGED <<rule, there, repeats>>
  BY FireStarts DEF RuleInv, A!Fire, A!records
<1>2. PICK from \in Nat : from = Onward(log[e]) /\ from = A!ResumeAt(e)
  BY <1>1, FireStarts
<1>0. PICK to \in from..A!Stop(from) :
          \E skips \in SUBSET (from..(to - 1)) : A!Fires(e, to, skips)
  BY <1>2 DEF A!Fire
<1>3. PICK skips \in SUBSET (from..(to - 1)) : A!Fires(e, to, skips)
  BY <1>0
<1>4. to \in Nat /\ from <= to /\ to <= Last + 1
  BY <1>2, <1>3, StopType
<1>5. PICK ran : ran = (from..(to - 1)) \ skips
  OBVIOUS
<1>6. PICK idle \in BOOLEAN : idle <=> skips = from..(to - 1) /\ to \notin Waits
  OBVIOUS
<1>7. A!Queues(e, ran)
  BY <1>2, <1>3, <1>5 DEF A!Fires
<1>8. \/ /\ to = A!Stop(from) /\ pending' = A!WithWait(pending, e, to)
         /\ A!Logged(e, IF idle THEN "skipped" ELSE "ran", 1, skips # {})
      \/ A!Logged(e, "error", to, skips # {}) /\ UNCHANGED pending
      \/ /\ A!Logged(e, "ran", 1, FALSE)
         /\ pending' = pending \/ pending' = A!WithWait(pending, e, to)
  BY <1>2, <1>3, <1>6 DEF A!Fires
<1>9. PICK new : new = pending'
  OBVIOUS
<1>10. /\ new \in [Ids -> Rests]
       /\ \E m : \A f : \A i \in Steps :
             Owed(new, f, i) \subseteq Owed(pending, f, i) \cup Added(e, to, m, f, i)
  <2>1. CASE new = pending
    BY <1>1, <2>1 DEF RuleShapes
  <2>2. CASE new = A!WithWait(pending, e, to)
    BY <1>1, <1>4, <2>2, WaitRows DEF RuleShapes
  <2> QED
    BY <1>8, <1>9, <2>1, <2>2
<1>11. PICK m : \A f : \A i \in Steps :
             Owed(new, f, i) \subseteq Owed(pending, f, i) \cup Added(e, to, m, f, i)
  BY <1>10
<1>12. /\ log' \in [Records -> Seq(Line)]
       /\ \A f \in Records \ {e} : log'[f] = log[f]
       /\ \/ Ran(log'[e])
          \/ Onward(log'[e]) = to /\ new = pending
          \/ idle /\ Onward(log'[e]) = from
  <2>1. (skips # {}) \in BOOLEAN /\ 1 \in Nat /\ FALSE \in BOOLEAN
    OBVIOUS
  <2>2. CASE A!Logged(e, IF idle THEN "skipped" ELSE "ran", 1, skips # {})
    <3>1. CASE idle
      BY <1>1, <1>2, <2>1, <2>2, <3>1, LoggedType
    <3>2. CASE ~idle
      BY <1>1, <2>1, <2>2, <3>2, LoggedType
    <3> QED
      BY <3>1, <3>2
  <2>3. CASE A!Logged(e, "error", to, skips # {}) /\ UNCHANGED pending
    BY <1>1, <1>4, <1>9, <2>1, <2>3, LoggedType
  <2>4. CASE A!Logged(e, "ran", 1, FALSE)
    BY <1>1, <2>1, <2>4, LoggedType
  <2> QED
    BY <1>8, <2>2, <2>3, <2>4
<1>13. RuleShapes'
  BY <1>1, <1>7, <1>9, <1>10, <1>12, QueuesType DEF RuleShapes
<1>14. ASSUME NEW f \in Records, NEW i \in Steps
       PROVE  Within(f, i)'
  <2>1. Within(f, i)
    BY DEF RuleInv, InBudget, Within
  <2>2. Owed(pending, f, i)' = Owed(new, f, i)
    BY <1>9 DEF Owed
  <2>3. CASE f # e
    <3>1. Owed(pending, f, i)' \subseteq Owed(pending, f, i)
      BY <1>11, <2>2, <2>3, NobodyComes
    <3>2. queued'[f] = queued[f] /\ repeats'[f] = repeats[f] /\ log'[f] = log[f]
      BY <1>1, <1>7, <1>12, <2>3, QueuesType
    <3>3. MayRun(f, i)' => MayRun(f, i)
      BY <1>1, <3>2 DEF MayRun
    <3> QED
      BY <1>1, <1>13, <2>1, <3>1, <3>2, <3>3, Untouched
  <2>4. CASE f = e
    <3>1. PICK a \in {0, 1} : a = IF i \in ran THEN 1 ELSE 0
      OBVIOUS
    <3>2. queued'[e][i] = queued[e][i] + a /\ repeats'[e] = repeats[e] + 0
      BY <1>1, <1>7, <3>1, QueuesType DEF RuleShapes
    <3>3. a = 1 => from <= i /\ i < to /\ ~idle
      BY <1>3, <1>4, <1>5, <1>6, <3>1 DEF Steps
    <3>4. PICK c, d \in Nat : /\ c = Cardinality(Owed(pending, e, i))
                              /\ d = Cardinality(Owed(new, e, i))
      BY OwedFinite
    <3>5. d <= c + (IF to < i THEN 1 ELSE 0)
      BY <1>4, <1>11, <3>4, WaitCount
    <3>6. Chance(e, i) = IF i >= from THEN 1 ELSE 0
      BY <1>1, <1>2 DEF Chance, MayRun
    <3>7. new = pending => d = c
      BY <3>4
    <3>8. \/ Chance(e, i)' = 0
          \/ Chance(e, i)' = (IF i >= to THEN 1 ELSE 0) /\ d = c
          \/ Chance(e, i)' = (IF i >= from THEN 1 ELSE 0) /\ idle /\ d <= c
      <4>1. CASE Ran(log'[e])
        BY <4>1 DEF Chance, MayRun
      <4>2. CASE ~Ran(log'[e]) /\ Onward(log'[e]) = to /\ new = pending
        BY <1>1, <3>7, <4>2 DEF Chance, MayRun
      <4>3. CASE ~Ran(log'[e]) /\ idle /\ Onward(log'[e]) = from
        <5>1. Owed(new, e, i) \subseteq Owed(pending, e, i)
          BY <1>6, <1>11, <4>3 DEF Added
        <5>2. d <= c
          BY <3>4, <5>1, NoMore, OwedFinite
        <5> QED
          BY <1>1, <4>3, <5>2 DEF Chance, MayRun
      <4> QED
        BY <1>12, <4>1, <4>2, <4>3
    <3>9. a + Chance(e, i)' + d <= Chance(e, i) + c + 0
      BY <1>4, <3>3, <3>5, <3>6, <3>8 DEF Steps
    <3> QED
      BY <1>1, <1>13, <2>1, <2>2, <2>4, <3>2, <3>4, <3>9, Spending
  <2> QED
    BY <2>3, <2>4
<1> QED
  BY <1>13, <1>14 DEF RuleInv, InBudget, Within

(* A sequence that is put somewhere else in its steps, or is parked, counts  *)
(* for its record from there on.                                             *)
LEMMA RowMoves ==
    ASSUME NEW rows \in [Ids -> Rests], NEW p \in Ids, rows[p] \in Rest,
           NEW row \in Rest, row.of = rows[p].of, rows[p].next <= row.next
    PROVE  /\ [rows EXCEPT ![p] = row] \in [Ids -> Rests]
           /\ \A f : \A i \in Steps :
                Owed([rows EXCEPT ![p] = row], f, i) \subseteq
                   (IF f = rows[p].of /\ i < row.next THEN Owed(rows, f, i) \ {p}
                    ELSE Owed(rows, f, i))
<1>1. rows[p].state # "absent" /\ rows[p].next \in Nat /\ row.next \in Nat
  BY DEF Rest, A!Parked
<1>2. [rows EXCEPT ![p] = row] \in [Ids -> Rests]
  BY DEF Rests
<1>3. ASSUME NEW f, NEW i \in Steps, NEW q \in Owed([rows EXCEPT ![p] = row], f, i)
      PROVE  q \in Owed(rows, f, i) /\ (f = rows[p].of /\ i < row.next => q # p)
  <2>1. CASE q # p
    BY <1>3, <2>1 DEF Owed
  <2>2. CASE q = p
    <3>1. row.of = f /\ row.next <= i
      BY <1>3, <2>2 DEF Owed
    <3>2. rows[p].next <= i /\ ~(i < row.next)
      BY <1>1, <3>1 DEF Steps
    <3> QED
      BY <1>1, <2>2, <3>1, <3>2 DEF Owed
  <2> QED
    BY <2>1, <2>2
<1> QED
  BY <1>2, <1>3

(* A sequence that is deleted counts no more.                                *)
LEMMA RowLeaves ==
    ASSUME NEW rows \in [Ids -> Rests], NEW p \in Ids
    PROVE  /\ [rows EXCEPT ![p] = A!Absent] \in [Ids -> Rests]
           /\ \A f, i : Owed([rows EXCEPT ![p] = A!Absent], f, i) \subseteq Owed(rows, f, i) \ {p}
<1>1. A!Absent.state = "absent" /\ A!Absent \in Rests
  BY DEF A!Absent, Rests
<1> QED
  BY <1>1 DEF Owed

(* Whether step i was reached between the first and the last.                *)
Reached(first, i, to) == IF first <= i /\ i < to THEN 1 ELSE 0

(* The sequences go from "rows" to "new": those of e owe no longer what was  *)
(* done from step "first" to "to", except for "again", and the others owe no *)
(* more than before.                                                         *)
Moves(rows, new, e, first, to, again) ==
    /\ new \in [Ids -> Rests]
    /\ \A f : \A i \in Steps : f # e => Owed(new, f, i) \subseteq Owed(rows, f, i)
    /\ \A i \in Steps :
         Cardinality(Owed(new, e, i)) + Reached(first, i, to)
             <= Cardinality(Owed(rows, e, i)) + again

(* The steps a sequence did are no more before it.                           *)
LEMMA MoveCount ==
    ASSUME NEW rows \in [Ids -> Rests], NEW p \in Ids, rows[p] \in Rest,
           NEW row \in Rest, row.of = rows[p].of, rows[p].next <= row.next, NEW i \in Steps
    PROVE  Cardinality(Owed([rows EXCEPT ![p] = row], rows[p].of, i))
               + Reached(rows[p].next, i, row.next)
           <= Cardinality(Owed(rows, rows[p].of, i))
<1>1. PICK Q, T : /\ Q = Owed(rows, rows[p].of, i)
                  /\ T = Owed([rows EXCEPT ![p] = row], rows[p].of, i)
  OBVIOUS
<1>2. IsFiniteSet(Q) /\ Cardinality(Q) \in Nat /\ Cardinality(T) \in Nat
  BY <1>1, OwedFinite
<1>3. T \subseteq (IF i < row.next THEN Q \ {p} ELSE Q)
  BY <1>1, RowMoves
<1>4. CASE rows[p].next <= i /\ i < row.next
  <2>1. p \in Q
    BY <1>1, <1>4 DEF Owed, Rest, A!Parked
  <2>2. Cardinality(T) + 1 <= Cardinality(Q)
    BY <1>2, <1>3, <1>4, <2>1, Fewer
  <2> QED
    BY <1>1, <1>4, <2>2 DEF Reached
<1>5. CASE ~(rows[p].next <= i /\ i < row.next)
  <2>1. Cardinality(T) <= Cardinality(Q)
    BY <1>2, <1>3, NoMore
  <2> QED
    BY <1>1, <1>2, <1>5, <2>1 DEF Reached
<1> QED
  BY <1>4, <1>5

(* A sequence that was put on.                                               *)
LEMMA MoveOn ==
    ASSUME NEW rows \in [Ids -> Rests], NEW p \in Ids, rows[p] \in Rest,
           NEW row \in Rest, row.of = rows[p].of, rows[p].next <= row.next
    PROVE  Moves(rows, [rows EXCEPT ![p] = row], rows[p].of, rows[p].next, row.next, 0)
<1>1. PICK new : new = [rows EXCEPT ![p] = row]
  OBVIOUS
<1>2. /\ new \in [Ids -> Rests]
      /\ \A f : \A i \in Steps : Owed(new, f, i) \subseteq Owed(rows, f, i)
  BY <1>1, RowMoves
<1>3. ASSUME NEW i \in Steps
      PROVE  Cardinality(Owed(new, rows[p].of, i)) + Reached(rows[p].next, i, row.next)
                 <= Cardinality(Owed(rows, rows[p].of, i)) + 0
  <2>1. Cardinality(Owed(new, rows[p].of, i)) + Reached(rows[p].next, i, row.next)
            <= Cardinality(Owed(rows, rows[p].of, i))
    BY <1>1, MoveCount
  <2>2. Cardinality(Owed(rows, rows[p].of, i)) \in Nat
    BY OwedFinite
  <2> QED
    BY <2>1, <2>2
<1> QED
  BY <1>1, <1>2, <1>3 DEF Moves

(* What is done again may be any step.                                       *)
LEMMA MovesAgain ==
    ASSUME NEW rows, NEW new, NEW e, NEW first, NEW next, NEW to,
           Moves(rows, new, e, first, next, 0)
    PROVE  Moves(rows, new, e, first, to, 1)
<1>1. ASSUME NEW i \in Steps
      PROVE  Cardinality(Owed(new, e, i)) + Reached(first, i, to)
                 <= Cardinality(Owed(rows, e, i)) + 1
  <2>1. Cardinality(Owed(rows, e, i)) \in Nat /\ Cardinality(Owed(new, e, i)) \in Nat
    BY OwedFinite
  <2>2. Reached(first, i, to) \in {0, 1} /\ Reached(first, i, next) \in {0, 1}
    BY DEF Reached
  <2>3. Cardinality(Owed(new, e, i)) + Reached(first, i, next)
            <= Cardinality(Owed(rows, e, i)) + 0
    BY DEF Moves
  <2> QED
    BY <2>1, <2>2, <2>3
<1> QED
  BY <1>1 DEF Moves

(* A finished sequence with the wait that it leaves.                         *)
LEMMA EndCount ==
    ASSUME NEW rows \in [Ids -> Rests], NEW p \in Ids, rows[p] \in Rest,
           NEW to \in Nat, rows[p].next <= to
    PROVE  Moves(rows, A!WithWait([rows EXCEPT ![p] = A!Absent], rows[p].of, to),
                 rows[p].of, rows[p].next, to, 0)
<1>1. PICK e, left, new : /\ e = rows[p].of /\ left = [rows EXCEPT ![p] = A!Absent]
                          /\ new = A!WithWait(left, e, to)
  OBVIOUS
<1>2. e \in Records /\ rows[p].next \in Nat /\ rows[p].state # "absent"
  BY <1>1 DEF Rest, A!Parked
<1>3. left \in [Ids -> Rests] /\ \A f, i : Owed(left, f, i) \subseteq Owed(rows, f, i) \ {p}
  BY <1>1, RowLeaves
<1>4. new \in [Ids -> Rests]
  BY <1>1, <1>2, <1>3, WaitRows
<1>5. PICK m : \A f : \A i \in Steps :
          Owed(new, f, i) \subseteq Owed(left, f, i) \cup Added(e, to, m, f, i)
  BY <1>1, <1>2, <1>3, WaitRows
<1>6. ASSUME NEW f, NEW i \in Steps, f # e PROVE Owed(new, f, i) \subseteq Owed(rows, f, i)
  BY <1>3, <1>5, <1>6 DEF Added
<1>7. ASSUME NEW i \in Steps
      PROVE  Cardinality(Owed(new, e, i)) + Reached(rows[p].next, i, to)
                 <= Cardinality(Owed(rows, e, i)) + 0
  <2>1. PICK c, d, b \in Nat : /\ c = Cardinality(Owed(rows, e, i))
                               /\ d = Cardinality(Owed(new, e, i))
                               /\ b = Cardinality(Owed(left, e, i))
    BY OwedFinite
  <2>2. d <= b + (IF to < i THEN 1 ELSE 0)
    BY <1>5, <2>1, WaitCount
  <2>3. IsFiniteSet(Owed(rows, e, i)) /\ Owed(left, e, i) \subseteq Owed(rows, e, i) \ {p}
    BY <1>3, OwedFinite
  <2>4. b <= c
    BY <2>1, <2>3, NoMore
  <2>5. ASSUME rows[p].next <= i PROVE b + 1 <= c
    <3>1. p \in Owed(rows, e, i)
      BY <1>1, <1>2, <2>5 DEF Owed
    <3> QED
      BY <2>1, <2>3, <3>1, Fewer
  <2>6. d + Reached(rows[p].next, i, to) <= c
    BY <1>2, <2>2, <2>4, <2>5 DEF Reached, Steps
  <2> QED
    BY <2>1, <2>6
<1> QED
  BY <1>1, <1>4, <1>6, <1>7 DEF Moves

(* A claimed sequence with its progress, and the wait that was inserted      *)
(* before the process died.                                                  *)
LEMMA WaitTwice ==
    ASSUME NEW rows \in [Ids -> Rests], NEW p \in Ids, rows[p] \in Rest,
           NEW row \in Rest, row.of = rows[p].of, rows[p].next <= row.next,
           NEW to \in Nat, row.next = to
    PROVE  Moves(rows, A!WithWait([rows EXCEPT ![p] = row], rows[p].of, to),
                 rows[p].of, rows[p].next, to, 1)
<1>1. PICK e, left, new : /\ e = rows[p].of /\ left = [rows EXCEPT ![p] = row]
                          /\ new = A!WithWait(left, e, to)
  OBVIOUS
<1>2. e \in Records /\ rows[p].next \in Nat
  BY <1>1 DEF Rest
<1>3. left \in [Ids -> Rests] /\ \A f : \A i \in Steps : Owed(left, f, i) \subseteq Owed(rows, f, i)
  BY <1>1, RowMoves
<1>4. new \in [Ids -> Rests]
  BY <1>1, <1>2, <1>3, WaitRows
<1>5. PICK m : \A f : \A i \in Steps :
          Owed(new, f, i) \subseteq Owed(left, f, i) \cup Added(e, to, m, f, i)
  BY <1>1, <1>2, <1>3, WaitRows
<1>6. ASSUME NEW f, NEW i \in Steps, f # e PROVE Owed(new, f, i) \subseteq Owed(rows, f, i)
  BY <1>3, <1>5, <1>6 DEF Added
<1>7. ASSUME NEW i \in Steps
      PROVE  Cardinality(Owed(new, e, i)) + Reached(rows[p].next, i, to)
                 <= Cardinality(Owed(rows, e, i)) + 1
  <2>1. PICK c, d, b \in Nat : /\ c = Cardinality(Owed(rows, e, i))
                               /\ d = Cardinality(Owed(new, e, i))
                               /\ b = Cardinality(Owed(left, e, i))
    BY OwedFinite
  <2>2. d <= b + (IF to < i THEN 1 ELSE 0)
    BY <1>5, <2>1, WaitCount
  <2>3. b + Reached(rows[p].next, i, to) <= c
    BY <1>1, <2>1, MoveCount
  <2>4. Reached(rows[p].next, i, to) \in {0, 1}
    BY DEF Reached
  <2>5. d + Reached(rows[p].next, i, to) <= c + 1
    BY <2>2, <2>3, <2>4
  <2> QED
    BY <2>1, <2>5
<1> QED
  BY <1>1, <1>4, <1>6, <1>7 DEF Moves

(* What a resumption leaves of its record e, from step "first" to "to": what *)
(* it did it no longer owes, unless the process died in it.                  *)
Resumed(e, first, to, again) ==
    /\ Moves(pending, pending', e, first, to, again)
    /\ log' \in [Records -> Seq(Line)] /\ repeats' \in [Records -> Nat]
    /\ \A f \in Records : f # e => log'[f] = log[f] /\ repeats'[f] = repeats[f]
    /\ log'[e] = log[e] \/ Ran(log'[e])
    /\ repeats'[e] = repeats[e] + again

(* A claimed sequence, put on and perhaps parked, is still one.              *)
LEMMA ClaimedRest ==
    ASSUME NEW row \in Rest, NEW next \in Nat, NEW count \in Nat,
           NEW state \in {"live"} \cup A!Parked
    PROVE  /\ [A!Claimed(row) EXCEPT !.next = next, !.attempts = count] \in Rest
           /\ [A!Claimed(row) EXCEPT !.next = next, !.attempts = count, !.state = state] \in Rest
           /\ [A!Claimed(row) EXCEPT !.state = state] \in Rest
  BY DEF A!Claimed, Rest

(* The three ways a resumption ends.                                         *)
LEMMA ResumeMoves ==
    ASSUME RuleShapes, NEW p \in Ids, pending[p].state = "live",
           NEW to \in pending[p].next..A!Stop(pending[p].next), NEW skip \in BOOLEAN,
           \/ /\ to = A!Stop(pending[p].next) /\ A!Ends(p, to)
              /\ A!Logged(pending[p].of, "ran", 1, skip) /\ UNCHANGED repeats
           \/ to < A!Stop(pending[p].next) /\ A!Throws(p, to)
           \/ A!DiesInside(p, to)
    PROVE  \E again \in {0, 1} : Resumed(pending[p].of, pending[p].next, to, again)
<1>1. pending \in [Ids -> Rests] /\ pending[p] \in Rest
  BY DEF RuleShapes, Rests, A!Absent
<1>2. PICK rows, e, row, first : /\ rows = pending /\ row = pending[p]
                                 /\ e = pending[p].of /\ first = pending[p].next
  OBVIOUS
<1>3. /\ e \in Records /\ first \in Nat /\ row.attempts + 1 \in Nat /\ row.state = "live"
      /\ rows \in [Ids -> Rests] /\ row \in Rest /\ rows[p] \in Rest /\ rows[p] = row
      /\ rows[p].of = e /\ rows[p].next = first
  BY <1>1, <1>2 DEF Rest
<1>4. to \in Nat /\ first <= to
  BY <1>2, <1>3, StopType
<1>5. PICK new, count : new = pending' /\ count \in Nat /\ count = row.attempts + 1
  BY <1>3
<1>6. Moves(rows, A!WithWait([rows EXCEPT ![p] = A!Absent], e, to), e, first, to, 0)
  BY <1>3, <1>4, EndCount
<1>7. CASE A!Ends(p, to) /\ A!Logged(e, "ran", 1, skip) /\ UNCHANGED repeats
  <2>1. new = A!WithWait([rows EXCEPT ![p] = A!Absent], e, to)
    BY <1>2, <1>5, <1>7 DEF A!Ends
  <2>2. /\ log' \in [Records -> Seq(Line)] /\ Ran(log'[e])
        /\ \A f \in Records \ {e} : log'[f] = log[f]
    BY <1>3, <1>7, LoggedType
  <2>3. Moves(pending, pending', e, first, to, 0)
    BY <1>2, <1>5, <1>6, <2>1
  <2>4. repeats'[e] = repeats[e] + 0
    BY <1>3, <1>7 DEF RuleShapes
  <2>5. Resumed(e, first, to, 0)
    BY <1>7, <2>2, <2>3, <2>4 DEF Resumed, RuleShapes
  <2> QED
    BY <1>2, <2>5
<1>8. CASE A!Throws(p, to)
  <2>1. PICK state \in {"live"} \cup A!Parked :
            pending' = [pending EXCEPT ![p] =
                [A!Claimed(row) EXCEPT !.next = to, !.attempts = count, !.state = state]]
    <3>1. (IF A!Tries(row) >= A!MaxAttempts THEN "failed" ELSE A!Claimed(row).state)
              \in {"live"} \cup A!Parked
      BY <1>3 DEF A!Claimed, A!Parked, Rest
    <3> QED
      BY <1>2, <1>5, <1>8, <3>1 DEF A!Throws, A!Progress, A!Tries
  <2>2. PICK left : left =
            [A!Claimed(row) EXCEPT !.next = to, !.attempts = count, !.state = state]
    OBVIOUS
  <2>3. left \in Rest
    BY <1>3, <1>4, <1>5, <2>2, ClaimedRest
  <2>4. left.of = e /\ left.next = to
    BY <1>3, <2>2 DEF A!Claimed, Rest
  <2>5. Moves(rows, [rows EXCEPT ![p] = left], e, first, to, 0)
    BY <1>3, <1>4, <2>3, <2>4, MoveOn
  <2>6. Moves(pending, pending', e, first, to, 0)
    BY <1>2, <2>1, <2>2, <2>5
  <2>7. log' = log /\ repeats' = repeats /\ repeats'[e] = repeats[e] + 0
    BY <1>3, <1>8 DEF A!Throws, RuleShapes
  <2>8. Resumed(e, first, to, 0)
    BY <2>6, <2>7 DEF Resumed, RuleShapes
  <2> QED
    BY <1>2, <2>8
<1>9. CASE A!DiesInside(p, to)
  <2> DEFINE left(next) == [A!Claimed(row) EXCEPT !.next = next, !.attempts = count]
  <2>1. \A next \in Nat : left(next) \in Rest /\ left(next).of = e /\ left(next).next = next
    <3> SUFFICES ASSUME NEW next \in Nat
                 PROVE  left(next) \in Rest /\ left(next).of = e /\ left(next).next = next
      OBVIOUS
    <3>1. left(next) \in Rest
      BY <1>3, <1>5, ClaimedRest, "live" \in {"live"} \cup A!Parked
    <3> QED
      BY <1>3, <3>1 DEF A!Claimed, Rest
  <2>2. PICK back : back \in Nat /\ back = (IF to > first THEN to - 1 ELSE to) /\ first <= back
    BY <1>3, <1>4
  <2>3. \/ \E next \in {to, back} : pending' = [pending EXCEPT ![p] = left(next)]
        \/ pending' = A!WithWait([pending EXCEPT ![p] = left(to)], e, to)
        \/ pending' = A!WithWait([pending EXCEPT ![p] = A!Absent], e, to)
    BY <1>2, <1>5, <1>9, <2>2 DEF A!DiesInside, A!Ends, A!Tries
  <2> HIDE DEF left
  <2>4. repeats' = [repeats EXCEPT ![e] = @ + 1] /\ log' = log
    BY <1>2, <1>9 DEF A!DiesInside
  <2>5. Moves(rows, new, e, first, to, 1)
    <3>1. ASSUME NEW next \in {to, back}, new = [rows EXCEPT ![p] = left(next)]
          PROVE  Moves(rows, new, e, first, to, 1)
      <4>1. next \in Nat /\ first <= next
        BY <1>4, <2>2
      <4>2. PICK rest \in Rest : rest = left(next) /\ rest.of = e /\ rest.next = next
        BY <2>1, <4>1
      <4>3. Moves(rows, [rows EXCEPT ![p] = rest], e, first, next, 0)
        BY <1>3, <4>1, <4>2, MoveOn
      <4> QED
        BY <3>1, <4>2, <4>3, MovesAgain
    <3>2. ASSUME new = A!WithWait([rows EXCEPT ![p] = left(to)], e, to)
          PROVE  Moves(rows, new, e, first, to, 1)
      <4>1. PICK rest \in Rest : rest = left(to) /\ rest.of = e /\ rest.next = to
        BY <1>4, <2>1
      <4>2. Moves(rows, A!WithWait([rows EXCEPT ![p] = rest], e, to), e, first, to, 1)
        BY <1>3, <1>4, <4>1, WaitTwice
      <4> QED
        BY <3>2, <4>1, <4>2
    <3>3. ASSUME new = A!WithWait([rows EXCEPT ![p] = A!Absent], e, to)
          PROVE  Moves(rows, new, e, first, to, 1)
      BY <1>6, <3>3, MovesAgain
    <3> QED
      BY <1>2, <1>5, <2>3, <3>1, <3>2, <3>3
  <2>6. /\ repeats' \in [Records -> Nat] /\ repeats'[e] = repeats[e] + 1
        /\ \A f \in Records : f # e => repeats'[f] = repeats[f]
    BY <1>3, <2>4 DEF RuleShapes
  <2>7. Moves(pending, pending', e, first, to, 1)
    BY <1>2, <1>5, <2>5
  <2>8. Resumed(e, first, to, 1)
    BY <2>4, <2>6, <2>7 DEF Resumed, RuleShapes
  <2> QED
    BY <1>2, <2>8
<1> QED
  BY <1>2, <1>7, <1>8, <1>9

(* A step that queues nothing, and lets nothing be done that was not due.    *)
LEMMA NothingQueued ==
    ASSUME RuleInv, UNCHANGED <<queued, repeats>>, there' \in [Records -> BOOLEAN],
           pending' \in [Ids -> Rests], log' \in [Records -> Seq(Line)],
           \A f \in Records : \A i \in Steps : Owed(pending', f, i) \subseteq Owed(pending, f, i),
           \A f \in Records : \A i \in Steps : MayRun(f, i)' => MayRun(f, i)
    PROVE  RuleInv'
<1>1. RuleShapes /\ RuleShapes'
  BY DEF RuleInv, RuleShapes
<1>2. ASSUME NEW f \in Records, NEW i \in Steps PROVE Within(f, i)'
  <2>1. Within(f, i)
    BY DEF RuleInv, InBudget, Within
  <2>2. Owed(pending, f, i)' \subseteq Owed(pending, f, i)
    BY DEF Owed
  <2> QED
    BY <1>1, <2>1, <2>2, Untouched
<1> QED
  BY <1>1, <1>2 DEF RuleInv, InBudget, Within

(* A row of a sequence may change its state, its attempts and when it is due.*)
LEMMA RowStays ==
    ASSUME RuleInv, NEW p \in Ids, pending[p] \in Rest, NEW row \in Rest,
           row.of = pending[p].of, row.next = pending[p].next,
           pending' = [pending EXCEPT ![p] = row],
           UNCHANGED <<rule, there, log, queued, repeats>>
    PROVE  RuleInv'
<1>1. PICK rows, new : rows = pending /\ new = pending'
  OBVIOUS
<1>2. /\ rows \in [Ids -> Rests] /\ rows[p] \in Rest /\ row.of = rows[p].of
      /\ rows[p].next <= row.next
  BY <1>1 DEF RuleInv, RuleShapes, Rest
<1>3. /\ [rows EXCEPT ![p] = row] \in [Ids -> Rests]
      /\ \A f : \A i \in Steps :
           Owed([rows EXCEPT ![p] = row], f, i) \subseteq
              (IF f = rows[p].of /\ i < row.next THEN Owed(rows, f, i) \ {p}
               ELSE Owed(rows, f, i))
  BY <1>2, RowMoves
<1>4. pending' \in [Ids -> Rests]
  BY <1>1, <1>3
<1>5. \A f \in Records : \A i \in Steps : Owed(pending', f, i) \subseteq Owed(pending, f, i)
  BY <1>1, <1>3
<1>6. \A f \in Records : \A i \in Steps : MayRun(f, i)' => MayRun(f, i)
  BY DEF MayRun
<1>7. there' \in [Records -> BOOLEAN] /\ log' \in [Records -> Seq(Line)]
  BY DEF RuleInv, RuleShapes
<1> QED
  BY <1>4, <1>5, <1>6, <1>7, NothingQueued

(* Going on with a waiting sequence.                                         *)
LEMMA ContinuesKeeps ==
    ASSUME RuleInv, NEW p \in Ids, pending[p].state = "live", A!Continues(p),
           UNCHANGED <<rule, there>>
    PROVE  RuleInv'
<1>1. RuleShapes /\ pending[p] \in Rest
  BY DEF RuleInv, RuleShapes, Rests, A!Absent
<1>2. PICK e, first : e = pending[p].of /\ first = pending[p].next
  OBVIOUS
<1>3. e \in Records /\ first \in Nat
  BY <1>1, <1>2 DEF Rest
<1>4. PICK to \in first..A!Stop(first) :
          \E skips \in SUBSET (first..(to - 1)) :
            /\ A!Queues(e, (first..(to - 1)) \ skips)
            /\ \/ to = A!Stop(first) /\ A!Ends(p, to) /\ A!Logged(e, "ran", 1, skips # {})
                  /\ UNCHANGED <<repeats, crashes>>
               \/ to < A!Stop(first) /\ A!Throws(p, to)
               \/ A!DiesInside(p, to)
  BY <1>2 DEF A!Continues
<1>5. PICK skips \in SUBSET (first..(to - 1)) :
            /\ A!Queues(e, (first..(to - 1)) \ skips)
            /\ \/ to = A!Stop(first) /\ A!Ends(p, to) /\ A!Logged(e, "ran", 1, skips # {})
                  /\ UNCHANGED <<repeats, crashes>>
               \/ to < A!Stop(first) /\ A!Throws(p, to)
               \/ A!DiesInside(p, to)
  BY <1>4
<1>6. PICK ran, skip : ran = (first..(to - 1)) \ skips /\ skip = (skips # {}) /\ skip \in BOOLEAN
  OBVIOUS
<1>7. PICK again \in {0, 1} : Resumed(e, first, to, again)
  BY <1>1, <1>2, <1>5, <1>6, ResumeMoves
<1>8. /\ queued' \in [Records -> [Steps -> Nat]]
      /\ \A f \in Records \ {e} : queued'[f] = queued[f]
      /\ \A i \in Steps : queued'[e][i] = queued[e][i] + (IF i \in ran THEN 1 ELSE 0)
  BY <1>1, <1>3, <1>5, <1>6, QueuesType
<1>9. PICK new : new = pending' /\ Moves(pending, new, e, first, to, again)
  BY <1>7 DEF Resumed
<1>10. RuleShapes'
  BY <1>1, <1>7, <1>8, <1>9 DEF RuleShapes, Resumed, Moves
<1>11. ASSUME NEW f \in Records, NEW i \in Steps PROVE Within(f, i)'
  <2>1. Within(f, i)
    BY DEF RuleInv, InBudget, Within
  <2>2. Owed(pending, f, i)' = Owed(new, f, i)
    BY <1>9 DEF Owed
  <2>3. CASE f # e
    <3>1. Owed(pending, f, i)' \subseteq Owed(pending, f, i)
      BY <1>9, <2>2, <2>3 DEF Moves
    <3>2. queued'[f] = queued[f] /\ log'[f] = log[f] /\ repeats'[f] = repeats[f]
      BY <1>7, <1>8, <2>3 DEF Resumed
    <3>3. MayRun(f, i)' => MayRun(f, i)
      BY <3>2 DEF MayRun
    <3> QED
      BY <1>1, <1>10, <2>1, <3>1, <3>2, <3>3, Untouched
  <2>4. CASE f = e
    <3>1. PICK a \in {0, 1} : a = IF i \in ran THEN 1 ELSE 0
      OBVIOUS
    <3>2. queued'[e][i] = queued[e][i] + a /\ repeats'[e] = repeats[e] + again
      BY <1>7, <1>8, <3>1 DEF Resumed
    <3>3. a <= Reached(first, i, to)
      <4>1. to \in Int
        BY <1>3, <1>4, StopType
      <4> QED
        BY <1>3, <1>6, <3>1, <4>1 DEF Reached, Steps
    <3>4. PICK c, d : /\ c \in Nat /\ d \in Nat /\ c = Cardinality(Owed(pending, e, i))
                      /\ d = Cardinality(Owed(new, e, i))
      BY OwedFinite
    <3>5. d + Reached(first, i, to) <= c + again
      BY <1>9, <3>4 DEF Moves
    <3>6. /\ Chance(e, i) \in {0, 1} /\ Chance(e, i)' \in {0, 1}
          /\ Chance(e, i)' <= Chance(e, i)
      BY <1>7 DEF Chance, MayRun, Resumed
    <3>7. a + Chance(e, i)' + d <= Chance(e, i) + c + again
      <4>1. Reached(first, i, to) \in {0, 1}
        BY DEF Reached
      <4> QED
        BY <3>3, <3>4, <3>5, <3>6, <4>1
    <3> QED
      BY <1>1, <1>10, <2>1, <2>2, <2>4, <3>2, <3>4, <3>7, Spending
  <2> QED
    BY <2>3, <2>4
<1> QED
  BY <1>10, <1>11 DEF RuleInv, InBudget, Within

(* A tick's look at a waiting sequence: go on, park it or put it off.        *)
LEMMA ResumeKeeps ==
    ASSUME RuleInv, NEW p \in Ids, A!Resume(p)
    PROVE  RuleInv'
<1>1. /\ pending[p].state = "live" /\ UNCHANGED <<rule, there>>
      /\ \/ A!Continues(p)
         \/ \E state \in {"live", "payment_review", "orphaned"} : A!Left(p, state)
  BY DEF A!Resume, A!records
<1>2. pending[p] \in Rest
  BY <1>1 DEF RuleInv, RuleShapes, Rests, A!Absent
<1>3. ASSUME NEW state \in {"live", "payment_review", "orphaned"}, A!Left(p, state)
      PROVE  RuleInv'
  <2>1. PICK row : row = [A!Claimed(pending[p]) EXCEPT !.state = state]
    OBVIOUS
  <2>2. row \in Rest /\ row.of = pending[p].of /\ row.next = pending[p].next
    BY <1>2, <2>1 DEF A!Claimed, Rest, A!Parked
  <2>3. pending' = [pending EXCEPT ![p] = row] /\ UNCHANGED <<log, queued, repeats>>
    BY <1>3, <2>1 DEF A!Left
  <2> QED
    BY <1>1, <1>2, <2>2, <2>3, RowStays
<1> QED
  BY <1>1, <1>3, ContinuesKeeps

(* The wait of a sequence, or its claim, runs out.                           *)
LEMMA FallsDueKeeps ==
    ASSUME RuleInv, NEW p \in Ids, A!FallsDue(p)
    PROVE  RuleInv'
<1>1. pending[p] \in Rest
  BY DEF A!FallsDue, RuleInv, RuleShapes, Rests, A!Absent
<1>2. PICK row : row = [pending[p] EXCEPT !.due = TRUE]
  OBVIOUS
<1>3. row \in Rest /\ row.of = pending[p].of /\ row.next = pending[p].next
  BY <1>1, <1>2 DEF Rest
<1>4. pending' = [pending EXCEPT ![p] = row]
      /\ UNCHANGED <<rule, there, log, queued, repeats>>
  BY <1>2 DEF A!FallsDue, A!records
<1> QED
  BY <1>1, <1>3, <1>4, RowStays

(* A manager has a sequence go on.                                           *)
LEMMA ResumePendingKeeps ==
    ASSUME RuleInv, NEW p \in Ids, A!ResumePending(p)
    PROVE  RuleInv'
<1>1. pending[p] \in Rest
  BY DEF A!ResumePending, RuleInv, RuleShapes, Rests
<1>2. PICK row : row = [pending[p] EXCEPT !.state = "live", !.attempts = 0, !.due = TRUE]
  OBVIOUS
<1>3. row \in Rest /\ row.of = pending[p].of /\ row.next = pending[p].next
  BY <1>1, <1>2 DEF Rest
<1>4. pending' = [pending EXCEPT ![p] = row]
      /\ UNCHANGED <<rule, there, log, queued, repeats>>
  BY <1>2 DEF A!ResumePending, A!records
<1> QED
  BY <1>1, <1>3, <1>4, RowStays

(* A manager cancels a sequence.                                             *)
LEMMA CancelPendingKeeps ==
    ASSUME RuleInv, NEW p \in Ids, A!CancelPending(p)
    PROVE  RuleInv'
<1>1. PICK rows : rows = pending /\ rows \in [Ids -> Rests]
  BY DEF RuleInv, RuleShapes
<1>2. /\ pending' = [rows EXCEPT ![p] = A!Absent]
      /\ UNCHANGED <<rule, there, log, queued, repeats>>
  BY <1>1 DEF A!CancelPending, A!records
<1>3. /\ [rows EXCEPT ![p] = A!Absent] \in [Ids -> Rests]
      /\ \A f, i : Owed([rows EXCEPT ![p] = A!Absent], f, i) \subseteq Owed(rows, f, i) \ {p}
  BY <1>1, RowLeaves
<1>4. /\ pending' \in [Ids -> Rests]
      /\ \A f \in Records : \A i \in Steps : Owed(pending', f, i) \subseteq Owed(pending, f, i)
  BY <1>1, <1>2, <1>3
<1>5. /\ there' \in [Records -> BOOLEAN] /\ log' \in [Records -> Seq(Line)]
      /\ \A f \in Records : \A i \in Steps : MayRun(f, i)' => MayRun(f, i)
  BY <1>2 DEF RuleInv, RuleShapes, MayRun
<1> QED
  BY <1>2, <1>4, <1>5, NothingQueued

(* A manager has a run done again: from where it failed, or, which counts as *)
(* a repetition, from the first step.                                        *)
LEMMA RetryKeeps ==
    ASSUME RuleInv, NEW e \in Records, NEW k, A!Retry(e, k)
    PROVE  RuleInv'
<1>1. /\ k \in DOMAIN log[e] /\ log' = [log EXCEPT ![e][k].status = "retry"]
      /\ repeats' = [repeats EXCEPT ![e] =
            @ + (IF log[e][k].status = "error" THEN 0 ELSE 1)]
      /\ UNCHANGED <<rule, there, pending, queued>>
  BY DEF A!Retry, A!records
<1>2. RuleShapes /\ log[e] \in Seq(Line) /\ repeats[e] \in Nat
  BY DEF RuleInv, RuleShapes
<1>3. PICK lines : lines = [log[e] EXCEPT ![k].status = "retry"]
  OBVIOUS
<1>4. /\ lines \in Seq(Line)
      /\ log[e][k].status = "error" =>
            (Ran(lines) <=> Ran(log[e])) /\ Onward(lines) = Onward(log[e])
  BY <1>1, <1>2, <1>3, RetryLine
<1>5. /\ log' = [log EXCEPT ![e] = lines] /\ log'[e] = lines
      /\ \A f \in Records : f # e => log'[f] = log[f]
  BY <1>1, <1>2, <1>3 DEF RuleShapes
<1>6. PICK r \in {0, 1} : r = IF log[e][k].status = "error" THEN 0 ELSE 1
  OBVIOUS
<1>7. /\ repeats' \in [Records -> Nat] /\ repeats'[e] = repeats[e] + r
      /\ \A f \in Records : f # e => repeats'[f] = repeats[f]
  BY <1>1, <1>2, <1>6 DEF RuleShapes
<1>8. log' \in [Records -> Seq(Line)]
  BY <1>2, <1>4, <1>5 DEF RuleShapes
<1>9. RuleShapes'
  BY <1>1, <1>2, <1>7, <1>8 DEF RuleShapes
<1>10. ASSUME NEW f \in Records, NEW i \in Steps PROVE Within(f, i)'
  <2>1. Within(f, i)
    BY DEF RuleInv, InBudget, Within
  <2>2. Owed(pending, f, i)' = Owed(pending, f, i)
    BY <1>1 DEF Owed
  <2>3. CASE f # e
    <3>1. MayRun(f, i)' => MayRun(f, i)
      BY <1>1, <1>5, <2>3 DEF MayRun
    <3>2. queued'[f] = queued[f] /\ repeats'[f] = repeats[f]
      BY <1>1, <1>7, <2>3
    <3> QED
      BY <1>2, <1>9, <2>1, <2>2, <3>1, <3>2, Untouched
  <2>4. CASE f = e
    <3>1. PICK c : c \in Nat /\ c = Cardinality(Owed(pending, e, i))
      BY OwedFinite
    <3>2. /\ Chance(e, i) \in {0, 1} /\ Chance(e, i)' \in {0, 1}
          /\ Chance(e, i)' <= Chance(e, i) + r
      <4>1. CASE log[e][k].status = "error"
        <5>1. MayRun(e, i)' <=> MayRun(e, i)
          BY <1>1, <1>4, <1>5, <4>1 DEF MayRun
        <5> QED
          BY <1>6, <4>1, <5>1 DEF Chance
      <4>2. CASE log[e][k].status # "error"
        BY <1>6, <4>2 DEF Chance
      <4> QED
        BY <4>1, <4>2
    <3>3. 0 + Chance(e, i)' + c <= Chance(e, i) + c + r
      BY <3>1, <3>2
    <3>4. queued'[e][i] = queued[e][i] + 0
      BY <1>1, <1>2 DEF RuleShapes
    <3> QED
      BY <1>2, <1>7, <1>9, <2>1, <2>2, <2>4, <3>1, <3>3, <3>4, Spending
  <2> QED
    BY <2>3, <2>4
<1> QED
  BY <1>9, <1>10 DEF RuleInv, InBudget, Within

(* A sequence whose rule or record is gone is parked.                        *)
LEMMA OrphanedRows ==
    ASSUME NEW rows \in [Ids -> Rests], NEW gone
    PROVE  /\ A!Orphaned(rows, gone) \in [Ids -> Rests]
           /\ \A f, i : Owed(A!Orphaned(rows, gone), f, i) \subseteq Owed(rows, f, i)
<1>1. PICK new : new = A!Orphaned(rows, gone)
  OBVIOUS
<1>2. DOMAIN new = Ids /\ new = [p \in Ids |-> new[p]]
  BY <1>1 DEF A!Orphaned
<1>3. ASSUME NEW p \in Ids
      PROVE  /\ new[p] \in Rests
             /\ new[p].state # "absent" =>
                   rows[p].state # "absent" /\ new[p].of = rows[p].of /\ new[p].next = rows[p].next
  <2>1. CASE rows[p].state = "live" /\ rows[p].of \in gone
    <3>1. new[p] = [rows[p] EXCEPT !.state = "orphaned"]
      BY <1>1, <2>1 DEF A!Orphaned
    <3>2. rows[p] \in Rest
      BY <2>1 DEF Rests, A!Absent
    <3> QED
      BY <2>1, <3>1, <3>2 DEF Rests, Rest, A!Parked
  <2>2. CASE ~(rows[p].state = "live" /\ rows[p].of \in gone)
    <3>1. new[p] = rows[p]
      BY <1>1, <2>2 DEF A!Orphaned
    <3> QED
      BY <3>1
  <2> QED
    BY <2>1, <2>2
<1>4. new \in [Ids -> Rests]
  BY <1>2, <1>3
<1>5. \A f, i : Owed(new, f, i) \subseteq Owed(rows, f, i)
  BY <1>3 DEF Owed
<1> QED
  BY <1>1, <1>4, <1>5

(* The rule is switched on or off, or deleted with its lines.                *)
LEMMA SetRuleKeeps ==
    ASSUME RuleInv, NEW to, A!SetRule(to)
    PROVE  RuleInv'
<1>1. RuleShapes /\ rule # "deleted" /\ rule' = to /\ UNCHANGED <<there, queued, repeats>>
  BY DEF A!SetRule, A!records, RuleInv
<1>2. /\ pending' \in [Ids -> Rests]
      /\ \A f, i : Owed(pending', f, i) \subseteq Owed(pending, f, i)
  BY <1>1, OrphanedRows DEF A!SetRule, RuleShapes
<1>3. log' \in [Records -> Seq(Line)]
  <2>1. <<>> \in Seq(Line)
    OBVIOUS
  <2> QED
    BY <1>1, <2>1 DEF A!SetRule, RuleShapes
<1>4. \A f \in Records : \A i \in Steps : MayRun(f, i)' => MayRun(f, i)
  BY <1>1 DEF A!SetRule, MayRun
<1>5. there' \in [Records -> BOOLEAN]
  BY <1>1 DEF RuleShapes
<1> QED
  BY <1>1, <1>2, <1>3, <1>4, <1>5, NothingQueued

(* A record is deleted with its lines.                                       *)
LEMMA DeleteRecordKeeps ==
    ASSUME RuleInv, NEW e \in Records, A!DeleteRecord(e)
    PROVE  RuleInv'
<1>1. /\ RuleShapes /\ UNCHANGED <<rule, queued, repeats>>
      /\ there' = [there EXCEPT ![e] = FALSE] /\ log' = [log EXCEPT ![e] = <<>>]
      /\ pending' = A!Orphaned(pending, {e})
  BY DEF A!DeleteRecord, RuleInv
<1>2. /\ pending' \in [Ids -> Rests]
      /\ \A f, i : Owed(pending', f, i) \subseteq Owed(pending, f, i)
  BY <1>1, OrphanedRows DEF RuleShapes
<1>3. log' \in [Records -> Seq(Line)] /\ there' \in [Records -> BOOLEAN]
  <2>1. <<>> \in Seq(Line)
    OBVIOUS
  <2> QED
    BY <1>1, <2>1 DEF RuleShapes
<1>4. ASSUME NEW f \in Records, NEW i \in Steps, MayRun(f, i)' PROVE MayRun(f, i)
  <2>1. f # e
    BY <1>1, <1>4 DEF MayRun, RuleShapes
  <2>2. log'[f] = log[f] /\ there'[f] = there[f]
    BY <1>1, <2>1 DEF RuleShapes
  <2> QED
    BY <1>1, <1>4, <2>2 DEF MayRun
<1> QED
  BY <1>1, <1>2, <1>3, <1>4, NothingQueued

(* Nothing that the budget is about changes.                                 *)
LEMMA EngineRests ==
    ASSUME RuleInv, UNCHANGED <<rule, there, log, pending, queued, repeats>>
    PROVE  RuleInv'
  BY DEF RuleInv, RuleShapes, InBudget, Budget, Chance, MayRun, Owed

(* Every step of the rule keeps the budget.                                  *)
LEMMA RuleStepKeeps ==
    ASSUME RuleInv, A!Next
    PROVE  RuleInv'
<1>1. ASSUME NEW e \in Records, A!SetReview(e) PROVE RuleInv'
  BY <1>1, EngineRests DEF A!SetReview
<1>2. CASE A!Tick
  BY <1>2, FireKeeps, ResumeKeeps DEF A!Tick
<1>3. CASE A!Manage
  BY <1>1, <1>3, ResumePendingKeeps, CancelPendingKeeps, DeleteRecordKeeps, RetryKeeps,
     SetRuleKeeps DEF A!Manage
<1> QED
  BY <1>2, <1>3, FallsDueKeeps DEF A!Next

(* Nothing is queued, and all sequences are free to begin.                   *)
LEMMA RuleInit == A!Init => RuleInv
<1> SUFFICES ASSUME A!Init PROVE RuleInv
  OBVIOUS
<1>1. <<>> \in Seq(Line) /\ A!Absent \in Rests /\ A!Absent.state = "absent"
  BY DEF Rests, A!Absent
<1>2. RuleShapes
  BY <1>1 DEF A!Init, A!Steps, Steps, RuleShapes
<1>3. ASSUME NEW e \in Records, NEW i \in Steps PROVE Budget(e, i) <= 1 + repeats[e]
  <2>1. Owed(pending, e, i) = {}
    BY <1>1 DEF A!Init, Owed
  <2>2. Cardinality(Owed(pending, e, i)) = 0
    BY <2>1, FS_EmptySet
  <2>3. queued[e][i] = 0 /\ repeats[e] = 0
    BY DEF A!Init, A!Steps, Steps
  <2>4. Chance(e, i) \in {0, 1}
    BY DEF Chance
  <2> QED
    BY <2>2, <2>3, <2>4 DEF Budget
<1> QED
  BY <1>2, <1>3 DEF RuleInv, InBudget

(* A step of the shop is a step of the rule, or leaves the engine alone.     *)
LEMMA PartsKeep == RuleInv /\ [PartsNext]_all => RuleInv'
<1> SUFFICES ASSUME RuleInv, [PartsNext]_all PROVE RuleInv'
  OBVIOUS
<1>1. A!Next \/ UNCHANGED engine
  BY DEF PartsNext, RuleStep, OutboxStep, DeliveryStep, JobStep, ConversationStep, all
<1> QED
  BY <1>1, RuleStepKeeps, EngineRests DEF engine

(* What is queued is always within the budget.                              *)
LEMMA RuleInvariant == PartsSpec => []RuleInv
<1>1. PartsInit => RuleInv
  BY RuleInit DEF PartsInit
<1> QED
  BY <1>1, PartsKeep, PTL DEF PartsSpec

(***************************************************************************)
(* However a rule's runs throw, die, wait, are resumed, parked, cancelled  *)
(* and retried, it queues the message of a step once, and again only where *)
(* the process died in a tick or somebody asked for a run that had not     *)
(* failed: for every number of records, steps, waits, presses and crashes. *)
(***************************************************************************)
THEOREM OncePerStepHolds == PartsSpec => []OncePerStep
<1>1. RuleInv => OncePerStep
  <2> SUFFICES ASSUME RuleInv, NEW e \in Records, NEW i \in Steps
               PROVE  queued[e][i] <= 1 + repeats[e]
    BY DEF OncePerStep, Steps
  <2>1. queued[e][i] + Chance(e, i) + Cardinality(Owed(pending, e, i)) <= 1 + repeats[e]
    BY DEF RuleInv, InBudget, Budget
  <2>2. /\ queued[e][i] \in Nat /\ repeats[e] \in Nat /\ Chance(e, i) \in {0, 1}
        /\ Cardinality(Owed(pending, e, i)) \in Nat
    BY OwedFinite DEF RuleInv, RuleShapes, Chance
  <2> QED
    BY <2>1, <2>2
<1> QED
  BY <1>1, RuleInvariant, PTL

(***************************************************************************)
(* While an invoice is under review no step of any rule queues a message   *)
(* about it, whether the rule begins or a waiting sequence comes due       *)
(* (invoiceContextIssue in the tick).                                      *)
(***************************************************************************)
THEOREM ReviewedIsSilentHolds == PartsSpec => ReviewedIsSilent
<1>1. RuleInv /\ [PartsNext]_all =>
        [\A e \in Records : review[e] => queued'[e] = queued[e]]_all
  <2> SUFFICES ASSUME RuleInv, [PartsNext]_all, NEW e \in Records, review[e]
               PROVE  queued'[e] = queued[e]
    OBVIOUS
  <2>1. RuleShapes
    BY DEF RuleInv
  <2>2. ASSUME NEW f \in Records, A!Fire(f) PROVE queued'[e] = queued[e]
    <3>1. f # e
      BY <2>2 DEF A!Fire
    <3>2. \E ran : A!Queues(f, ran)
      BY <2>2 DEF A!Fire, A!Fires
    <3> QED
      BY <2>1, <3>1, <3>2, QueuesType
  <2>3. ASSUME NEW p \in Ids, A!Resume(p) PROVE queued'[e] = queued[e]
    <3>1. CASE A!Continues(p) /\ ~A!Issue(pending[p].of)
      <4>1. pending[p].of \in Records /\ pending[p].of # e
        BY <2>1, <2>3, <3>1 DEF A!Resume, A!Issue, RuleShapes, Rests, Rest, A!Absent
      <4>2. \E ran : A!Queues(pending[p].of, ran)
        BY <3>1 DEF A!Continues
      <4> QED
        BY <2>1, <4>1, <4>2, QueuesType
    <3>2. CASE UNCHANGED queued
      BY <3>2
    <3> QED
      BY <2>3, <3>1, <3>2 DEF A!Resume, A!Left
  <2>4. CASE A!Next
    <3>1. CASE A!Tick
      BY <2>2, <2>3, <3>1 DEF A!Tick
    <3>2. CASE A!Manage
      BY <3>2 DEF A!Manage, A!ResumePending, A!CancelPending, A!DeleteRecord, A!SetReview,
                  A!Retry, A!SetRule
    <3>3. CASE \E p \in Ids : A!FallsDue(p)
      BY <3>3 DEF A!FallsDue
    <3> QED
      BY <2>4, <3>1, <3>2, <3>3 DEF A!Next
  <2>5. A!Next \/ UNCHANGED engine
    BY DEF PartsNext, RuleStep, OutboxStep, DeliveryStep, JobStep, ConversationStep, all
  <2> QED
    BY <2>4, <2>5 DEF engine
<1> QED
  BY <1>1, RuleInvariant, PTL DEF PartsSpec, ReviewedIsSilent
=============================================================================
