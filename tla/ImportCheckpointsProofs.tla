----------------------- MODULE ImportCheckpointsProofs -----------------------
(* Theorems of ImportCheckpoints, for every number of databases, imports and *)
(* workers.                                                                  *)
EXTENDS ImportPromises, FiniteSetTheorems, TLAPS

(* A record the manager may hold: it sets back to the shop's own threshold,  *)
(* a worker that starts has not touched it and has nothing to do, and only a *)
(* worker in order is waited for.                                            *)
Sound(r) ==
    /\ r \in Record
    /\ r.saved
    /\ r.starting => ~r.enabled /\ ~r.pending
    /\ r.pending => ~r.failed

(* What a handler makes of r keeps its leases and, but for an exit, its      *)
(* worker; a threshold is only ever set back.                                *)
Same(r, s) == s.leases = r.leases /\ s.live = r.live

(* The imports that hold a lease of d *)
Leasing(d) ==
    {i \in Imports : import[i].db = d /\ import[i].at \in {"ready", "run", "pass", "stop"}}

Placed ==
    \A i \in Imports :
        IF import[i].at = "new" THEN import[i].db = None ELSE import[i].db \in Databases

LeasesCounted ==
    \A d \in Databases :
        IF Known(d) THEN record[d].leases = Cardinality(Leasing(d)) ELSE Leasing(d) = {}

OneThread ==
    \A d \in Databases : threads[d] = IF Known(d) /\ record[d].live THEN 1 ELSE 0

RecordsSound == \A d \in Databases : Known(d) => Sound(record[d])

AutoOwned == \A d \in Databases : auto[d] <=> ~(Known(d) /\ record[d].enabled)

PassPending == \A i \in Imports : import[i].at = "pass" => record[import[i].db].pending

DeletedUnknown == \A d \in Databases : deleted[d] => ~Known(d)

IInv ==
    /\ TypeOK /\ Placed /\ LeasesCounted /\ OneThread
    /\ RecordsSound /\ AutoOwned /\ PassPending /\ DeletedUnknown

-----------------------------------------------------------------------------
(* What the operators make of a record *)

LEMMA RestoredSound ==
    ASSUME NEW r, Sound(r), NEW ok \in BOOLEAN
    PROVE  /\ Sound(Restored(r, ok)) /\ Same(r, Restored(r, ok))
           /\ Restored(r, ok).pending = r.pending
           /\ Restored(r, ok).failed = r.failed
           /\ Restored(r, ok).closing = r.closing
           /\ Restored(r, ok).enabled <=> r.enabled /\ ~ok
BY DEF Sound, Same, Restored, Record

LEMMA ClosedSound ==
    ASSUME NEW r, Sound(r), NEW ok \in BOOLEAN
    PROVE  /\ Sound(Closed(r, ok)) /\ Same(r, Closed(r, ok))
           /\ Closed(r, ok).pending = r.pending
           /\ Closed(r, ok).failed = r.failed
           /\ Closed(r, ok).enabled <=> r.enabled /\ ~ok
BY DEF Sound, Same, Closed, Restored, Record

Abandoned(q, r) ==
    [q EXCEPT !.failed = TRUE, !.ready = TRUE, !.starting = FALSE, !.pending = FALSE,
              !.again = FALSE, !.terminating = @ \/ r.live]

LEMMA AbandonedSound ==
    ASSUME NEW q \in Record, NEW r \in Record
    PROVE  /\ Abandoned(q, r) \in Record
           /\ ~Abandoned(q, r).starting /\ ~Abandoned(q, r).pending
           /\ Same(q, Abandoned(q, r))
           /\ q.saved => Abandoned(q, r).saved
           /\ Abandoned(q, r).closing = q.closing
           /\ Abandoned(q, r).enabled <=> q.enabled
<1>1. Abandoned(q, r) \in Record
  <2>1. (q.terminating \/ r.live) \in BOOLEAN
    BY DEF Record
  <2> QED
    BY <2>1 DEF Record, Abandoned
<1>2. ~Abandoned(q, r).starting /\ ~Abandoned(q, r).pending
  BY DEF Record, Abandoned
<1>3. Same(q, Abandoned(q, r))
  BY DEF Record, Abandoned, Same
<1>4. q.saved => Abandoned(q, r).saved
  BY DEF Record, Abandoned
<1>5. Abandoned(q, r).closing = q.closing
  BY DEF Record, Abandoned
<1>6. Abandoned(q, r).enabled <=> q.enabled
  BY DEF Record, Abandoned
<1> QED
  BY <1>1, <1>2, <1>3, <1>4, <1>5, <1>6

LEMMA FallenSound ==
    ASSUME NEW r \in Record, r.saved, NEW ok \in BOOLEAN
    PROVE  /\ Sound(Fallen(r, ok)) /\ Same(r, Fallen(r, ok))
           /\ ~Fallen(r, ok).pending
           /\ Fallen(r, ok).closing = r.closing
           /\ Fallen(r, ok).enabled <=> r.enabled /\ ~ok
<1>1. Restored(r, ok) \in Record /\ Restored(r, ok).saved /\ Same(r, Restored(r, ok))
      /\ Restored(r, ok).closing = r.closing
      /\ (Restored(r, ok).enabled <=> r.enabled /\ ~ok)
  BY DEF Restored, Record, Same
<1>2. Fallen(r, ok) = Abandoned(Restored(r, ok), r)
  BY <1>1 DEF Fallen, Abandoned, Record
<1>3. /\ Fallen(r, ok) \in Record /\ ~Fallen(r, ok).starting /\ ~Fallen(r, ok).pending
      /\ Same(Restored(r, ok), Fallen(r, ok))
      /\ Fallen(r, ok).saved
      /\ Fallen(r, ok).closing = Restored(r, ok).closing
      /\ Fallen(r, ok).enabled <=> Restored(r, ok).enabled
  BY <1>1, <1>2, AbandonedSound
<1>4. Sound(Fallen(r, ok))
  BY <1>1, <1>3 DEF Sound
<1>5. Same(r, Fallen(r, ok)) /\ Fallen(r, ok).closing = r.closing
  BY <1>1, <1>3 DEF Same
<1>6. Fallen(r, ok).enabled <=> r.enabled /\ ~ok
  BY <1>1, <1>3
<1> QED
  BY <1>3, <1>4, <1>5, <1>6

Ended(q) == [q EXCEPT !.live = FALSE, !.starting = FALSE, !.ready = TRUE, !.closes = FALSE]

LEMMA EndedSound ==
    ASSUME NEW q, Sound(q)
    PROVE  /\ Sound(Ended(q)) /\ Ended(q).leases = q.leases /\ ~Ended(q).live
           /\ Ended(q).closing = q.closing
           /\ Ended(q).enabled <=> q.enabled
           /\ Ended(q).pending <=> q.pending
BY DEF Sound, Record, Ended

LEMMA ExitedSound ==
    ASSUME NEW r, Sound(r), NEW ok \in BOOLEAN
    PROVE  /\ Sound(Exited(r, ok))
           /\ Exited(r, ok).leases = r.leases /\ ~Exited(r, ok).live
           /\ Exited(r, ok).closing = r.closing
           /\ Exited(r, ok).enabled <=> r.enabled /\ ~ok
           /\ Exited(r, ok).pending => r.pending /\ (r.closing \/ r.failed)
<1>1. CASE r.closing \/ r.failed
  <2>1. Exited(r, ok) = Ended(Restored(r, ok))
    BY <1>1 DEF Exited, Ended
  <2> QED
    BY <1>1, <2>1, RestoredSound, EndedSound DEF Same
<1>2. CASE ~(r.closing \/ r.failed)
  <2>1. Exited(r, ok) = Ended(Fallen(r, ok))
    BY <1>2 DEF Exited, Ended
  <2> QED
    BY <1>2, <2>1, FallenSound, EndedSound DEF Same, Sound
<1> QED
  BY <1>1, <1>2

-----------------------------------------------------------------------------
(* Imports and their leases *)

LEMMA SubsetFinite ==
    ASSUME NEW S \in SUBSET Imports
    PROVE  /\ IsFiniteSet(S) /\ Cardinality(S) \in Nat
           /\ Cardinality(S) <= Cardinality(Imports)
           /\ Cardinality(S) = 0 <=> S = {}
<1>1. IsFiniteSet(S) /\ Cardinality(S) <= Cardinality(Imports)
  BY FS_Subset, CapacityAssumption
<1> QED
  BY <1>1, FS_CardinalityType, FS_EmptySet

LEMMA LeasingFinite ==
    ASSUME NEW d
    PROVE  /\ IsFiniteSet(Leasing(d)) /\ Cardinality(Leasing(d)) \in Nat
           /\ Cardinality(Leasing(d)) <= Cardinality(Imports)
           /\ Cardinality(Leasing(d)) = 0 => Leasing(d) = {}
<1>1. Leasing(d) \in SUBSET Imports
  BY DEF Leasing
<1> QED
  BY <1>1, SubsetFinite

(* An import with a lease knows a database with a record.                    *)
LEMMA LeaseKnown ==
    ASSUME IInv, NEW i \in Imports, import[i].at \in {"ready", "run", "pass", "stop"}
    PROVE  /\ import[i].db \in Databases /\ Known(import[i].db)
           /\ i \in Leasing(import[i].db) /\ record[import[i].db].leases # 0
<1>1. import[i].db \in Databases /\ i \in Leasing(import[i].db)
  BY DEF IInv, Placed, Leasing
<1>2. Known(import[i].db)
  BY <1>1 DEF IInv, LeasesCounted
<1>3. record[import[i].db].leases # 0
  BY <1>1, <1>2, LeasingFinite DEF IInv, LeasesCounted
<1> QED
  BY <1>1, <1>2, <1>3

LEMMA LeaseKnownNext ==
    ASSUME IInv', NEW i \in Imports, import'[i].at \in {"ready", "run", "pass", "stop"},
           NEW d, import'[i].db = d
    PROVE  Known(d)'
<1>1. d \in Databases /\ i \in Leasing(d)'
  BY DEF IInv, Placed, Leasing
<1> QED
  BY <1>1 DEF IInv, LeasesCounted

(* A record is stored, or forgotten with the threshold that it saved back.   *)
LEMMA StoredKeeps ==
    ASSUME IInv, NEW d \in Databases, Known(d), NEW r, Sound(r), Stored(d, r)
    PROVE  /\ record' \in [Databases -> Record \cup {None}]
           /\ auto' \in [Databases -> BOOLEAN]
           /\ \A e \in Databases : e # d => record'[e] = record[e] /\ auto'[e] = auto[e]
           /\ Known(d)' <=> ~Forgotten(r)
           /\ Known(d)' => record'[d] = r
           /\ RecordsSound' /\ AutoOwned'
<1>1. /\ record' = [record EXCEPT ![d] = IF Forgotten(r) THEN None ELSE r]
      /\ r \in Record /\ r # None
  BY RecordAssumption DEF Stored, Sound
<1>2. /\ record' \in [Databases -> Record \cup {None}]
      /\ \A e \in Databases : e # d => record'[e] = record[e]
      /\ record'[d] = IF Forgotten(r) THEN None ELSE r
  BY <1>1 DEF IInv, TypeOK
<1>3. /\ auto' = [auto EXCEPT ![d] = IF r.enabled THEN FALSE
                                    ELSE IF record[d].enabled THEN r.saved ELSE @]
      /\ r.saved \in BOOLEAN /\ r.saved
  BY DEF Stored, Sound, Record
<1>4. /\ auto' \in [Databases -> BOOLEAN]
      /\ \A e \in Databases : e # d => auto'[e] = auto[e]
  BY <1>3 DEF IInv, TypeOK
<1>5. auto'[d] <=> ~r.enabled
  BY <1>3 DEF IInv, TypeOK, AutoOwned
<1>6. Known(d)' <=> ~Forgotten(r)
  BY <1>1, <1>2 DEF Known
<1>7. RecordsSound'
  BY <1>1, <1>2 DEF IInv, RecordsSound, Known
<1>8. AutoOwned'
  BY <1>1, <1>2, <1>4, <1>5, <1>6 DEF IInv, AutoOwned, Known, Forgotten
<1> QED
  BY <1>2, <1>4, <1>6, <1>7, <1>8

Leased == {"ready", "run", "pass", "stop"}

LEMMA GoesKeeps ==
    ASSUME NEW at \in Points, NEW r, NEW outcome \in {"run", "stop"}
    PROVE  /\ Goes(at, r, outcome) \in Points
           /\ Goes(at, r, outcome) \in Leased <=> at \in Leased
           /\ Goes(at, r, outcome) = "new" <=> at = "new"
           /\ Goes(at, r, outcome) = "pass" => at = "pass" /\ ~Settles(r)
BY DEF Goes, Points, Leased

LEMMA EndingKeeps ==
    ASSUME NEW at \in {"no", "pump", "close", "done"}, NEW r
    PROVE  /\ Ending(at, r) \in {"no", "pump", "close", "done"}
           /\ Ending(at, r) = "no" <=> at = "no"
BY DEF Ending

(* Whatever a handler resolves, its imports keep their leases.               *)
LEMMA ResolvedKeeps ==
    ASSUME IInv, NEW d \in Databases, NEW r, NEW outcome \in {"run", "stop"},
           import' = [i \in Imports |->
                IF import[i].db = d THEN [import[i] EXCEPT !.at = Goes(@, r, outcome)]
                                    ELSE import[i]]
    PROVE  /\ import' \in [Imports -> [at : Points, db : Databases \cup {None}]]
           /\ Placed'
           /\ \A e \in Databases : Leasing(e)' = Leasing(e)
           /\ \A i \in Imports : import'[i].at = "pass" =>
                  /\ import[i].at = "pass" /\ import'[i].db = import[i].db
                  /\ import[i].db = d => ~Settles(r)
<1>1. \A i \in Imports :
          /\ import[i].at \in Points /\ import[i].db \in Databases \cup {None}
          /\ import'[i].at = IF import[i].db = d THEN Goes(import[i].at, r, outcome)
                                                ELSE import[i].at
          /\ import'[i].db = import[i].db
  BY DEF IInv, TypeOK
<1>2. \A i \in Imports :
          /\ import'[i].at \in Points
          /\ import'[i].at \in Leased <=> import[i].at \in Leased
          /\ import'[i].at = "new" <=> import[i].at = "new"
          /\ import'[i].at = "pass" =>
                 import[i].at = "pass" /\ (import[i].db = d => ~Settles(r))
  BY <1>1, GoesKeeps
<1>3. import' \in [Imports -> [at : Points, db : Databases \cup {None}]]
  <2>1. ASSUME NEW i \in Imports PROVE import'[i] \in [at : Points, db : Databases \cup {None}]
    <3>1. import[i] \in [at : Points, db : Databases \cup {None}]
      BY DEF IInv, TypeOK
    <3>2. import'[i] = [import[i] EXCEPT !.at = Goes(@, r, outcome)] \/ import'[i] = import[i]
      OBVIOUS
    <3>3. Goes(import[i].at, r, outcome) \in Points
      BY <1>1, GoesKeeps
    <3> QED
      BY <3>1, <3>2, <3>3
  <2> QED
    BY <2>1
<1>4. Placed'
  BY <1>1, <1>2 DEF IInv, Placed
<1>5. \A e \in Databases : Leasing(e)' = Leasing(e)
  BY <1>1, <1>2 DEF Leasing, Leased
<1> QED
  BY <1>1, <1>2, <1>3, <1>4, <1>5

(* The leases of a stored record are still those of its imports.             *)
LEMMA CountKept ==
    ASSUME IInv, NEW d \in Databases, Known(d), NEW r, Sound(r), Stored(d, r),
           r.leases = record[d].leases, \A e \in Databases : Leasing(e)' = Leasing(e)
    PROVE  LeasesCounted'
<1> SUFFICES ASSUME NEW e \in Databases
             PROVE  IF Known(e)' THEN record'[e].leases = Cardinality(Leasing(e))
                                 ELSE Leasing(e) = {}
  BY DEF LeasesCounted
<1>1. CASE e # d
  BY <1>1, StoredKeeps DEF IInv, LeasesCounted, Known
<1>2. CASE e = d
  <2>1. r.leases = Cardinality(Leasing(d))
    BY DEF IInv, LeasesCounted
  <2>2. Forgotten(r) => Leasing(d) = {}
    BY <2>1, LeasingFinite DEF Forgotten
  <2> QED
    BY <1>2, <2>1, <2>2, StoredKeeps
<1> QED
  BY <1>1, <1>2

(* What is left of the record when a handler settles who waits for it        *)
Left(d, r, ok) == IF Closes(d, r) THEN Closed(r, ok) ELSE r

LEMMA LeftSound ==
    ASSUME NEW d, NEW r, Sound(r), NEW ok \in BOOLEAN
    PROVE  /\ Sound(Left(d, r, ok)) /\ Same(r, Left(d, r, ok))
           /\ Left(d, r, ok).pending = r.pending
           /\ Left(d, r, ok).failed = r.failed
           /\ Left(d, r, ok).enabled => r.enabled
BY ClosedSound DEF Left, Same

LEMMA ResumesKeeps ==
    ASSUME IInv, NEW d \in Databases, Known(d), NEW r, Sound(r),
           r.leases = record[d].leases, NEW ok \in BOOLEAN,
           NEW outcome \in {"run", "stop"}, Resumes(d, r, ok, outcome),
           threads' \in [Databases -> Nat],
           \A e \in Databases : e # d => threads'[e] = threads[e],
           threads'[d] = IF r.live THEN 1 ELSE 0,
           deleted' = deleted
    PROVE  IInv'
<1> DEFINE left == Left(d, r, ok)
<1>1. /\ Stored(d, left) /\ Counted(ok)
      /\ import' = [i \in Imports |->
                IF import[i].db = d THEN [import[i] EXCEPT !.at = Goes(@, left, outcome)]
                                    ELSE import[i]]
      /\ shutdown' = [shutdown EXCEPT ![d] = Ending(@, left)]
  BY DEF Resumes, Left
<1>2. /\ Sound(left) /\ left.leases = record[d].leases
      /\ left.live = r.live /\ left.pending = r.pending
  BY LeftSound DEF Same
<1> HIDE DEF left
<1>3. /\ import' \in [Imports -> [at : Points, db : Databases \cup {None}]]
      /\ Placed' /\ LeasesCounted'
  BY <1>1, <1>2, ResolvedKeeps, CountKept
<1>4. TypeOK'
  <2>1. shutdown' \in [Databases -> {"no", "pump", "close", "done"}]
    BY <1>1, EndingKeeps DEF IInv, TypeOK
  <2>2. faults' \in Nat
    BY <1>1 DEF IInv, TypeOK, Counted
  <2> QED
    BY <1>1, <1>2, <1>3, <2>1, <2>2, StoredKeeps DEF IInv, TypeOK
<1>5. OneThread'
  BY <1>1, <1>2, StoredKeeps DEF IInv, OneThread, Known, Forgotten
<1>6. PassPending'
  <2> SUFFICES ASSUME NEW i \in Imports, import'[i].at = "pass"
               PROVE  record'[import'[i].db].pending
    BY DEF PassPending
  <2>1. /\ import[i].at = "pass" /\ import'[i].db = import[i].db
        /\ import[i].db = d => left.pending
    BY <1>1, <1>2, ResolvedKeeps DEF Settles
  <2>2. /\ import[i].db \in Databases /\ record[import[i].db].pending
        /\ import[i].db = d => record[d].leases # 0
    BY <2>1, LeaseKnown DEF IInv, PassPending
  <2>3. import[i].db = d => record'[d] = left
    BY <1>1, <1>2, <2>2, StoredKeeps DEF Forgotten
  <2> QED
    BY <1>1, <1>2, <2>1, <2>2, <2>3, StoredKeeps
<1>7. DeletedUnknown'
  BY <1>1, <1>2, StoredKeeps DEF IInv, DeletedUnknown, Known
<1> QED
  BY <1>1, <1>2, <1>3, <1>4, <1>5, <1>6, <1>7, StoredKeeps DEF IInv

-----------------------------------------------------------------------------
(* Lease *)

(* The record after a lease: new, or the one there is with a lease more.     *)
Shared(q) == [q EXCEPT !.leases = @ + 1]
Fresh(starts) == [NewRecord EXCEPT !.live = starts, !.starting = starts, !.ready = ~starts]

LEMMA SharedSound ==
    ASSUME NEW q, Sound(q), q.leases + 1 <= Cardinality(Imports)
    PROVE  /\ Sound(Shared(q)) /\ Shared(q).leases = q.leases + 1
           /\ Shared(q).live = q.live /\ Shared(q).pending = q.pending
           /\ Shared(q).enabled <=> q.enabled
<1>1. Cardinality(Imports) \in Nat
  BY FS_CardinalityType, CapacityAssumption
<1>2. q.leases \in Nat /\ q.leases + 1 \in 0..Cardinality(Imports)
  BY <1>1 DEF Sound, Record
<1>3. q \in Record /\ Shared(q) = [q EXCEPT !.leases = q.leases + 1]
  BY DEF Sound, Shared
<1>4. Shared(q) \in Record
  BY <1>2, <1>3 DEF Record
<1>5. /\ Shared(q).leases = q.leases + 1
      /\ Shared(q).live = q.live /\ Shared(q).pending = q.pending
      /\ Shared(q).enabled <=> q.enabled
      /\ Shared(q).saved <=> q.saved
      /\ Shared(q).starting <=> q.starting
      /\ Shared(q).failed <=> q.failed
      /\ Shared(q).pending <=> q.pending
  BY <1>3 DEF Record
<1>6. Sound(Shared(q))
  BY <1>4, <1>5 DEF Sound
<1> QED
  BY <1>5, <1>6

LEMMA FreshSound ==
    ASSUME NEW starts \in BOOLEAN, 1 <= Cardinality(Imports)
    PROVE  /\ Sound(Fresh(starts)) /\ Fresh(starts).leases = 1
           /\ Fresh(starts).live <=> starts
           /\ ~Fresh(starts).enabled
<1>1. Cardinality(Imports) \in Nat
  BY FS_CardinalityType, CapacityAssumption
<1>2. NewRecord \in Record
  BY <1>1 DEF NewRecord, Record
<1>3. Fresh(starts) \in Record
  BY <1>2 DEF Fresh, Record
<1>4. /\ Fresh(starts).leases = NewRecord.leases /\ (Fresh(starts).live <=> starts)
      /\ Fresh(starts).saved <=> NewRecord.saved
      /\ Fresh(starts).enabled <=> NewRecord.enabled
      /\ Fresh(starts).pending <=> NewRecord.pending
  BY <1>2 DEF Fresh, Record
<1>5. NewRecord.leases = 1 /\ NewRecord.saved /\ ~NewRecord.enabled /\ ~NewRecord.pending
  BY DEF NewRecord
<1> QED
  BY <1>3, <1>4, <1>5 DEF Sound

(* A lease adds an import to those of its database.                          *)
LEMMA LeaseCounts ==
    ASSUME IInv, NEW i \in Imports, NEW d \in Databases, import[i].at = "new",
           NEW at \in {"run", "ready"},
           import' = [import EXCEPT ![i] = [at |-> at, db |-> d]]
    PROVE  /\ import' \in [Imports -> [at : Points, db : Databases \cup {None}]]
           /\ Placed'
           /\ \A e \in Databases : e # d => Leasing(e)' = Leasing(e)
           /\ Cardinality(Leasing(d)') = Cardinality(Leasing(d)) + 1
           /\ Cardinality(Leasing(d)) + 1 <= Cardinality(Imports)
           /\ \A j \in Imports : import'[j].at = "pass" =>
                  import[j].at = "pass" /\ import'[j].db = import[j].db
<1>1. /\ import'[i].at = at /\ import'[i].db = d
      /\ \A j \in Imports : j # i => import'[j] = import[j]
      /\ import' \in [Imports -> [at : Points, db : Databases \cup {None}]]
  BY DEF IInv, TypeOK, Points
<1>2. \A e \in Databases : e # d => Leasing(e)' = Leasing(e)
  BY <1>1 DEF Leasing
<1>3. Leasing(d)' = Leasing(d) \cup {i} /\ i \notin Leasing(d)
  BY <1>1 DEF Leasing
<1>4. Cardinality(Leasing(d)') = Cardinality(Leasing(d)) + 1
  BY <1>3, LeasingFinite, FS_AddElement
<1>5. Leasing(d)' \in SUBSET Imports
  BY DEF Leasing
<1>6. Cardinality(Leasing(d)') <= Cardinality(Imports)
  BY <1>5, FS_Subset, CapacityAssumption
<1>7. Placed'
  BY <1>1 DEF IInv, Placed
<1> QED
  BY <1>1, <1>2, <1>4, <1>6, <1>7

(* The record of one database is another one, and all that is kept of it     *)
(* agrees.                                                                   *)
Put(d, r) ==
    /\ Sound(r) /\ ~deleted[d]
    /\ record' = [record EXCEPT ![d] = r]
    /\ auto' \in [Databases -> BOOLEAN]
    /\ auto'[d] <=> ~r.enabled
    /\ r.leases = Cardinality(Leasing(d)')
    /\ threads' \in [Databases -> Nat]
    /\ threads'[d] = IF r.live THEN 1 ELSE 0
    /\ \A e \in Databases : e # d =>
           auto'[e] = auto[e] /\ threads'[e] = threads[e] /\ Leasing(e)' = Leasing(e)
    /\ import' \in [Imports -> [at : Points, db : Databases \cup {None}]]
    /\ Placed'
    /\ \A j \in Imports : import'[j].at = "pass" =>
           IF import'[j].db = d THEN r.pending
           ELSE import[j].at = "pass" /\ import'[j].db = import[j].db
    /\ faults' \in Nat
    /\ UNCHANGED <<shutdown, deleted>>

LEMMA PutKeeps ==
    ASSUME IInv, NEW d \in Databases, NEW r, Put(d, r)
    PROVE  IInv'
<1>1. /\ r \in Record /\ r # None
      /\ record' \in [Databases -> Record \cup {None}] /\ record'[d] = r
      /\ \A e \in Databases : e # d => record'[e] = record[e]
  BY RecordAssumption DEF IInv, TypeOK, Sound, Put
<1>2. TypeOK'
  BY <1>1 DEF IInv, TypeOK, Put
<1>3. LeasesCounted' /\ OneThread' /\ RecordsSound'
  BY <1>1 DEF IInv, LeasesCounted, OneThread, RecordsSound, Known, Put
<1>4. AutoOwned' /\ DeletedUnknown'
  BY <1>1 DEF IInv, AutoOwned, DeletedUnknown, Known, Put
<1>5. PassPending'
  BY <1>1, <1>2 DEF IInv, PassPending, Placed, Put
<1> QED
  BY <1>2, <1>3, <1>4, <1>5 DEF IInv, Put

LEMMA LeaseKeeps ==
    ASSUME IInv, NEW i \in Imports, NEW d \in Databases, NEW starts \in BOOLEAN,
           NEW ok \in BOOLEAN, Lease(i, d, starts, ok)
    PROVE  IInv'
<1> DEFINE kept == Known(d) /\ record[d].leases = 0 /\ ~record[d].live
           q == IF kept THEN Restored(record[d], ok) ELSE record[d]
           r == IF Replaced(d, ok) THEN Fresh(starts) ELSE Shared(q)
<1>1. /\ import[i].at = "new" /\ ~deleted[d]
      /\ starts => Replaced(d, ok)
      /\ ok \/ kept
      /\ record' = [record EXCEPT ![d] = r]
      /\ auto' = [auto EXCEPT ![d] =
              IF kept /\ record[d].enabled /\ ok THEN record[d].saved ELSE @]
      /\ import' = [import EXCEPT ![i] = [at |-> IF r.ready THEN "run" ELSE "ready", db |-> d]]
      /\ threads' = [threads EXCEPT ![d] = @ + IF starts /\ Replaced(d, ok) THEN 1 ELSE 0]
      /\ Counted(ok) /\ UNCHANGED <<shutdown, deleted>>
  BY DEF Lease, Fresh, Shared
<1>2. /\ import' \in [Imports -> [at : Points, db : Databases \cup {None}]]
      /\ Placed'
      /\ \A e \in Databases : e # d => Leasing(e)' = Leasing(e)
      /\ Cardinality(Leasing(d)') = Cardinality(Leasing(d)) + 1
      /\ Cardinality(Leasing(d)) + 1 <= Cardinality(Imports)
      /\ \A j \in Imports : import'[j].at = "pass" =>
             import[j].at = "pass" /\ import'[j].db = import[j].db
  BY <1>1, LeaseCounts
<1>3. Known(d) => Sound(record[d]) /\ record[d].leases = Cardinality(Leasing(d))
  BY DEF IInv, RecordsSound, LeasesCounted
<1>4. Cardinality(Leasing(d)) \in Nat /\ (Cardinality(Leasing(d)) = 0 => Leasing(d) = {})
  BY LeasingFinite
<1>5. faults' \in Nat
  BY <1>1 DEF IInv, TypeOK, Counted
<1>6. /\ \A e \in Databases : e # d => auto'[e] = auto[e] /\ threads'[e] = threads[e]
      /\ threads' \in [Databases -> Nat]
  BY <1>1 DEF IInv, TypeOK
<1>7. auto' \in [Databases -> BOOLEAN]
  BY <1>1, <1>3 DEF IInv, TypeOK, Sound, Record
<1>8. CASE Replaced(d, ok)
  <2>1. /\ Known(d) => kept /\ (record[d].enabled => ok)
        /\ Leasing(d) = {} /\ Cardinality(Leasing(d)) = 0
    <3>1. CASE Known(d)
      <4>1. Forgotten(Restored(record[d], ok))
        BY <1>8, <3>1 DEF Replaced
      <4> QED
        BY <1>3, <1>4, <3>1, <4>1, RestoredSound DEF Forgotten, Same
    <3>2. CASE ~Known(d)
      BY <3>2, FS_EmptySet DEF IInv, LeasesCounted
    <3> QED
      BY <3>1, <3>2
  <2>2. /\ r = Fresh(starts) /\ Sound(r) /\ r.leases = 1 /\ (r.live <=> starts)
        /\ ~r.enabled
    BY <1>2, <1>8, <2>1, FreshSound
  <2>3. auto'[d]
    BY <1>1, <1>3, <2>1 DEF IInv, TypeOK, AutoOwned, Sound
  <2>4. threads'[d] = IF r.live THEN 1 ELSE 0
    BY <1>1, <1>8, <2>1, <2>2 DEF IInv, TypeOK, OneThread
  <2>5. \A j \in Imports : import[j].at = "pass" => import[j].db # d
    BY <2>1, LeaseKnown
  <2>6. r.leases = Cardinality(Leasing(d)')
    BY <1>2, <2>1, <2>2
  <2> HIDE DEF r
  <2>7. Put(d, r)
    BY <1>1, <1>2, <1>5, <1>6, <1>7, <2>2, <2>3, <2>4, <2>5, <2>6 DEF Put
  <2> QED
    BY <2>7, PutKeeps
<1>9. CASE ~Replaced(d, ok)
  <2>1. Known(d) /\ ~starts /\ r = Shared(q)
    BY <1>1, <1>9 DEF Replaced
  <2>2. /\ Sound(q) /\ q.leases = Cardinality(Leasing(d)) /\ q.live = record[d].live
        /\ q.pending = record[d].pending
        /\ q.enabled <=> record[d].enabled /\ ~(kept /\ ok)
    BY <1>3, <2>1, RestoredSound DEF Same
  <2>3. /\ Sound(r) /\ r.leases = q.leases + 1 /\ r.live = q.live
        /\ r.pending = q.pending /\ (r.enabled <=> q.enabled)
    BY <1>2, <2>1, <2>2, SharedSound
  <2>4. auto'[d] <=> ~r.enabled
    BY <1>1, <1>3, <2>1, <2>2, <2>3 DEF IInv, TypeOK, AutoOwned, Sound
  <2>5. threads'[d] = IF r.live THEN 1 ELSE 0
    BY <1>1, <2>1, <2>2, <2>3 DEF IInv, TypeOK, OneThread
  <2>6. \A j \in Imports : import[j].at = "pass" /\ import[j].db = d => r.pending
    BY <2>2, <2>3 DEF IInv, PassPending
  <2>7. r.leases = Cardinality(Leasing(d)')
    BY <1>2, <2>2, <2>3
  <2> HIDE DEF r, q
  <2>8. Put(d, r)
    BY <1>1, <1>2, <1>5, <1>6, <1>7, <2>3, <2>4, <2>5, <2>6, <2>7 DEF Put
  <2> QED
    BY <2>8, PutKeeps
<1> QED
  BY <1>8, <1>9

-----------------------------------------------------------------------------
(* Commit and End *)

(* A record is stored, or forgotten, and all that is kept of it agrees.      *)
Kept(d, r) ==
    /\ Sound(r) /\ Known(d) /\ Stored(d, r)
    /\ r.live = record[d].live
    /\ r.leases = Cardinality(Leasing(d)')
    /\ \A e \in Databases : e # d => Leasing(e)' = Leasing(e)
    /\ import' \in [Imports -> [at : Points, db : Databases \cup {None}]]
    /\ Placed'
    /\ \A j \in Imports : import'[j].at = "pass" =>
           IF import'[j].db = d THEN r.pending
           ELSE import[j].at = "pass" /\ import'[j].db = import[j].db
    /\ shutdown' \in [Databases -> {"no", "pump", "close", "done"}]
    /\ faults' \in Nat
    /\ UNCHANGED <<threads, deleted>>

LEMMA KeptKeeps ==
    ASSUME IInv, NEW d \in Databases, NEW r, Kept(d, r)
    PROVE  IInv'
<1>1. /\ record' \in [Databases -> Record \cup {None}]
      /\ auto' \in [Databases -> BOOLEAN]
      /\ \A e \in Databases : e # d => record'[e] = record[e] /\ auto'[e] = auto[e]
      /\ Known(d)' <=> ~Forgotten(r)
      /\ Known(d)' => record'[d] = r
      /\ RecordsSound' /\ AutoOwned'
  BY StoredKeeps DEF Kept
<1>2. TypeOK'
  BY <1>1 DEF IInv, TypeOK, Kept
<1>3. LeasesCounted'
  <2>1. Leasing(d)' \in SUBSET Imports
    BY DEF Leasing
  <2>2. Forgotten(r) => Leasing(d)' = {}
    BY <2>1, SubsetFinite DEF Forgotten, Kept
  <2> QED
    BY <1>1, <2>2 DEF IInv, LeasesCounted, Known, Kept
<1>4. OneThread'
  BY <1>1 DEF IInv, OneThread, Known, Forgotten, Kept
<1>5. PassPending'
  <2> SUFFICES ASSUME NEW j \in Imports, import'[j].at = "pass"
               PROVE  record'[import'[j].db].pending
    BY DEF PassPending
  <2>1. CASE import'[j].db = d
    <3>1. j \in Leasing(d)' /\ Leasing(d)' \in SUBSET Imports
      BY <2>1 DEF Leasing
    <3>2. ~Forgotten(r)
      BY <3>1, SubsetFinite DEF Forgotten, Kept
    <3> QED
      BY <1>1, <2>1, <3>2 DEF Kept
  <2>2. CASE import'[j].db # d
    BY <1>1, <1>2, <2>2 DEF IInv, PassPending, Placed, Kept
  <2> QED
    BY <2>1, <2>2
<1>6. DeletedUnknown'
  BY <1>1 DEF IInv, DeletedUnknown, Known, Kept
<1> QED
  BY <1>1, <1>2, <1>3, <1>4, <1>5, <1>6 DEF IInv, Kept

LEMMA RequestedSound ==
    ASSUME NEW r, Sound(r), Asked(r)
    PROVE  /\ Sound(Requested(r)) /\ Same(r, Requested(r)) /\ Requested(r).pending
           /\ Requested(r).enabled <=> r.enabled
<1>1. r \in Record /\ ~r.starting /\ ~r.failed /\ r.pending \in BOOLEAN
  BY DEF Sound, Asked, Record
<1>2. /\ Requested(r) \in Record /\ Same(r, Requested(r)) /\ Requested(r).pending
      /\ Requested(r).saved <=> r.saved
      /\ Requested(r).enabled <=> r.enabled
      /\ Requested(r).starting <=> r.starting
      /\ Requested(r).failed <=> r.failed
  BY <1>1 DEF Requested, Record, Same
<1>3. Sound(Requested(r))
  BY <1>1, <1>2 DEF Sound
<1> QED
  BY <1>2, <1>3

(* An import that only moves on keeps its lease.                             *)
LEMMA MovesKeeps ==
    ASSUME IInv, NEW i \in Imports, import[i].at \in Leased, NEW at \in Leased,
           import' = [import EXCEPT ![i].at = at]
    PROVE  /\ import' \in [Imports -> [at : Points, db : Databases \cup {None}]]
           /\ Placed'
           /\ \A e \in Databases : Leasing(e)' = Leasing(e)
           /\ import'[i].at = at /\ import'[i].db = import[i].db
           /\ \A j \in Imports : j # i => import'[j] = import[j]
<1>1. import[i] \in [at : Points, db : Databases \cup {None}] /\ at \in Points
  BY DEF IInv, TypeOK, Leased, Points
<1>2. /\ import'[i].at = at /\ import'[i].db = import[i].db
      /\ import' \in [Imports -> [at : Points, db : Databases \cup {None}]]
      /\ \A j \in Imports : j # i => import'[j] = import[j]
  BY <1>1 DEF IInv, TypeOK
<1>3. Placed'
  BY <1>2 DEF IInv, Placed, Leased
<1>4. \A e \in Databases : Leasing(e)' = Leasing(e)
  BY <1>2 DEF Leasing, Leased
<1> QED
  BY <1>2, <1>3, <1>4

LEMMA CommitKeeps ==
    ASSUME IInv, NEW i \in Imports, NEW ok \in BOOLEAN, Commit(i, ok)
    PROVE  IInv'
<1>0. import[i].at = "run" /\ import[i].db \in Databases /\ Known(import[i].db)
  BY LeaseKnown DEF Commit
<1> PICK d \in Databases : d = import[i].db
  BY <1>0
<1> DEFINE q == record[d]
<1>1. /\ import[i].at = "run" /\ Known(d)
      /\ Sound(q) /\ q.leases = Cardinality(Leasing(d))
      /\ UNCHANGED <<threads, shutdown, deleted>>
  BY <1>0 DEF Commit, IInv, RecordsSound, LeasesCounted
<1>2. \A j \in Imports : import[j].at = "pass" /\ import[j].db = d => q.pending
  BY DEF IInv, PassPending
<1>3. shutdown' \in [Databases -> {"no", "pump", "close", "done"}]
  BY <1>1 DEF IInv, TypeOK
<1>4. CASE Unserved(q)
  <2> DEFINE r == Restored(q, ok)
             at == IF ok THEN "run" ELSE "stop"
  <2>1. Stored(d, r) /\ import' = [import EXCEPT ![i].at = at] /\ Counted(ok)
    BY <1>4 DEF Commit
  <2>2. at \in Leased /\ import[i].at \in Leased /\ at # "pass"
    BY <1>1 DEF Leased
  <2>3. faults' \in Nat
    BY <2>1 DEF IInv, TypeOK, Counted
  <2>4. Sound(r) /\ r.leases = q.leases /\ r.live = q.live /\ r.pending = q.pending
    BY <1>1, RestoredSound DEF Same
  <2> HIDE DEF r, at
  <2>5. /\ import' \in [Imports -> [at : Points, db : Databases \cup {None}]]
        /\ Placed'
        /\ \A e \in Databases : Leasing(e)' = Leasing(e)
        /\ import'[i].at = at
        /\ \A j \in Imports : j # i => import'[j] = import[j]
    BY <2>1, <2>2, MovesKeeps
  <2>6. Kept(d, r)
    BY <1>1, <1>2, <1>3, <2>1, <2>2, <2>3, <2>4, <2>5 DEF Kept
  <2> QED
    BY <1>1, <2>6, KeptKeeps
<1>5. CASE ~Unserved(q)
  <2> DEFINE r == Requested(q)
  <2>1. /\ Asked(q) /\ Stored(d, r) /\ import' = [import EXCEPT ![i].at = "pass"]
        /\ UNCHANGED faults
    BY <1>5 DEF Commit
  <2>2. "pass" \in Leased /\ import[i].at \in Leased
    BY <1>1 DEF Leased
  <2>3. faults' \in Nat
    BY <2>1 DEF IInv, TypeOK
  <2>4. Sound(r) /\ r.leases = q.leases /\ r.live = q.live /\ r.pending
    BY <1>1, <2>1, RequestedSound DEF Same
  <2> HIDE DEF r
  <2>5. /\ import' \in [Imports -> [at : Points, db : Databases \cup {None}]]
        /\ Placed'
        /\ \A e \in Databases : Leasing(e)' = Leasing(e)
        /\ import'[i].db = d
        /\ \A j \in Imports : j # i => import'[j] = import[j]
    BY <2>1, <2>2, MovesKeeps
  <2>6. Kept(d, r)
    BY <1>1, <1>2, <1>3, <2>1, <2>3, <2>4, <2>5 DEF Kept
  <2> QED
    BY <1>1, <2>6, KeptKeeps
<1> QED
  BY <1>4, <1>5

LEMMA ReleasedSound ==
    ASSUME NEW q, Sound(q), q.leases # 0
    PROVE  /\ Sound(Released(q)) /\ Released(q).leases = q.leases - 1
           /\ Released(q).live = q.live /\ Released(q).pending = q.pending
           /\ Released(q).failed = q.failed
           /\ Released(q).enabled <=> q.enabled
<1>1. Cardinality(Imports) \in Nat
  BY FS_CardinalityType, CapacityAssumption
<1>2. q \in Record /\ q.leases \in 1..Cardinality(Imports)
  BY <1>1 DEF Sound, Record
<1>3. Released(q) \in Record
  BY <1>1, <1>2 DEF Released, Record
<1>4. /\ Released(q).leases = q.leases - 1
      /\ Released(q).live = q.live /\ Released(q).pending = q.pending
      /\ Released(q).failed = q.failed
      /\ Released(q).enabled <=> q.enabled
      /\ Released(q).saved <=> q.saved
      /\ Released(q).starting <=> q.starting
      /\ Released(q).pending <=> q.pending
      /\ Released(q).failed <=> q.failed
  BY <1>2 DEF Released, Record
<1>5. Sound(Released(q))
  BY <1>3, <1>4 DEF Sound
<1> QED
  BY <1>4, <1>5

(* An import that ends gives its lease back.                                 *)
Leaves(i, d, at, r) ==
    import' = [j \in Imports |->
        IF j = i THEN [import[i] EXCEPT !.at = at]
        ELSE IF import[j].db = d /\ Forgotten(r)
             THEN [import[j] EXCEPT !.at = Goes(@, r, "run")]
        ELSE import[j]]

LEMMA EndsMoves ==
    ASSUME IInv, NEW i \in Imports, NEW d \in Databases, import[i].db = d,
           import[i].at \in Leased, NEW at \in {"last", "close", "done"}, NEW r,
           Leaves(i, d, at, r)
    PROVE  /\ import' \in [Imports -> [at : Points, db : Databases \cup {None}]]
           /\ Placed'
           /\ \A e \in Databases : e # d => Leasing(e)' = Leasing(e)
           /\ Cardinality(Leasing(d)') = Cardinality(Leasing(d)) - 1
           /\ \A j \in Imports : import'[j].at = "pass" =>
                  import[j].at = "pass" /\ import'[j].db = import[j].db
<1>1. \A j \in Imports : import[j] \in [at : Points, db : Databases \cup {None}]
  BY DEF IInv, TypeOK
<1>2. import'[i].at = at /\ import'[i].db = d
  BY <1>1 DEF Leaves
<1>3. \A j \in Imports : j # i =>
          /\ import'[j].at = IF import[j].db = d /\ Forgotten(r)
                             THEN Goes(import[j].at, r, "run") ELSE import[j].at
          /\ import'[j].db = import[j].db
  BY <1>1 DEF Leaves
<1>4. \A j \in Imports : j # i =>
          /\ import'[j].at \in Points
          /\ import'[j].at \in Leased <=> import[j].at \in Leased
          /\ import'[j].at = "new" <=> import[j].at = "new"
          /\ import'[j].at = "pass" => import[j].at = "pass"
  BY <1>1, <1>3, GoesKeeps
<1>5. import' \in [Imports -> [at : Points, db : Databases \cup {None}]]
  <2>1. ASSUME NEW j \in Imports PROVE import'[j] \in [at : Points, db : Databases \cup {None}]
    <3>1. CASE j = i
      BY <1>1, <3>1 DEF Points, Leaves
    <3>2. CASE j # i
      <4>1. import'[j] = [import[j] EXCEPT !.at = Goes(@, r, "run")] \/ import'[j] = import[j]
        BY <3>2 DEF Leaves
      <4>2. Goes(import[j].at, r, "run") \in Points
        BY <1>1, GoesKeeps
      <4> QED
        BY <1>1, <4>1, <4>2
    <3> QED
      BY <3>1, <3>2
  <2> QED
    BY <2>1 DEF Leaves
<1>6. Placed'
  BY <1>2, <1>3, <1>4 DEF IInv, Placed
<1>7. at \notin Leased /\ at # "pass"
  BY DEF Leased
<1>8. \A e \in Databases : e # d => Leasing(e)' = Leasing(e)
  BY <1>2, <1>3, <1>4 DEF Leasing, Leased
<1>9. Leasing(d)' = Leasing(d) \ {i} /\ i \in Leasing(d)
  BY <1>2, <1>3, <1>4, <1>7 DEF Leasing, Leased
<1>10. Cardinality(Leasing(d)') = Cardinality(Leasing(d)) - 1
  BY <1>9, LeasingFinite, FS_RemoveElement
<1> QED
  BY <1>2, <1>3, <1>4, <1>5, <1>6, <1>7, <1>8, <1>10

LEMMA EndKeeps ==
    ASSUME IInv, NEW i \in Imports, NEW ok \in BOOLEAN, End(i, ok)
    PROVE  IInv'
<1>0. /\ import[i].at \in {"run", "stop"} /\ import[i].at \in Leased
      /\ import[i].db \in Databases /\ Known(import[i].db)
      /\ record[import[i].db].leases # 0
  BY LeaseKnown DEF End, Leased
<1> PICK d \in Databases : d = import[i].db
  BY <1>0
<1> PICK q : q = record[d]
  OBVIOUS
<1> DEFINE r == Released(q)
           closed == Closed(r, ok)
           left == IF r.leases > 0 THEN r
                   ELSE IF Asked(r) /\ ~Unserved(r) THEN Requested(r) ELSE closed
           at == IF r.leases > 0 THEN "done"
                 ELSE IF left # closed THEN "last"
                 ELSE IF closed.closes THEN "close" ELSE "done"
<1>1. /\ Known(d) /\ Sound(q) /\ q.leases # 0 /\ q.leases = Cardinality(Leasing(d))
  BY <1>0 DEF IInv, RecordsSound, LeasesCounted
<1>2. /\ Stored(d, left) /\ Counted(ok) /\ UNCHANGED <<threads, deleted>>
      /\ Leaves(i, d, at, left)
      /\ shutdown' = [shutdown EXCEPT ![d] = IF Forgotten(left) THEN Ending(@, left) ELSE @]
  BY DEF End, Leaves
<1>3. Sound(r) /\ r.leases = q.leases - 1 /\ r.live = q.live /\ r.pending = q.pending
  BY <1>1, ReleasedSound
<1>4. /\ Sound(left) /\ left.leases = r.leases /\ left.live = r.live
      /\ q.pending => left.pending
  <2>1. CASE left = r
    BY <1>3, <2>1
  <2>2. CASE left = Requested(r) /\ Asked(r)
    BY <1>3, <2>2, RequestedSound DEF Same
  <2>3. CASE left = closed
    BY <1>3, <2>3, ClosedSound DEF Same
  <2> QED
    BY <2>1, <2>2, <2>3
<1>5. at \in {"last", "close", "done"}
  OBVIOUS
<1> HIDE DEF at, left, closed, r
<1>6. /\ import' \in [Imports -> [at : Points, db : Databases \cup {None}]]
      /\ Placed'
      /\ \A e \in Databases : e # d => Leasing(e)' = Leasing(e)
      /\ Cardinality(Leasing(d)') = Cardinality(Leasing(d)) - 1
      /\ \A j \in Imports : import'[j].at = "pass" =>
             import[j].at = "pass" /\ import'[j].db = import[j].db
  BY <1>0, <1>2, <1>5, EndsMoves
<1>7. \A j \in Imports : import[j].at = "pass" /\ import[j].db = d => left.pending
  BY <1>4 DEF IInv, PassPending
<1>8. shutdown' \in [Databases -> {"no", "pump", "close", "done"}] /\ faults' \in Nat
  BY <1>2, EndingKeeps DEF IInv, TypeOK, Counted
<1>9. Kept(d, left)
  BY <1>1, <1>2, <1>3, <1>4, <1>6, <1>7, <1>8 DEF Kept
<1> QED
  BY <1>9, KeptKeeps

-----------------------------------------------------------------------------
(* The worker, the timers, the shop *)

LEMMA ResumesStays ==
    ASSUME IInv, NEW d \in Databases, Known(d), NEW r, Sound(r), Same(record[d], r),
           NEW ok \in BOOLEAN, NEW outcome \in {"run", "stop"},
           Resumes(d, r, ok, outcome), UNCHANGED <<threads, deleted>>
    PROVE  IInv'
<1>1. /\ threads' \in [Databases -> Nat]
      /\ \A e \in Databases : e # d => threads'[e] = threads[e]
      /\ threads'[d] = IF r.live THEN 1 ELSE 0
  BY DEF IInv, TypeOK, OneThread, Same
<1> QED
  BY <1>1, ResumesKeeps DEF Same

(* A worker that starts has touched nothing, so the threshold that its first *)
(* message saves is the shop's own.                                          *)
Started(q) == [q EXCEPT !.starting = FALSE]
Took(q) == [q EXCEPT !.saved = TRUE, !.enabled = TRUE, !.ready = TRUE]

LEMMA StartedSound ==
    ASSUME NEW q, Sound(q)
    PROVE  /\ Sound(Started(q)) /\ Same(q, Started(q)) /\ ~Started(q).starting
           /\ Started(q).enabled <=> q.enabled
           /\ Started(q).pending <=> q.pending
BY DEF Sound, Record, Started, Same

LEMMA TookSound ==
    ASSUME NEW q, Sound(q), ~q.starting
    PROVE  Sound(Took(q)) /\ Same(q, Took(q))
<1>1. /\ Took(q) \in Record /\ Same(q, Took(q))
      /\ Took(q).saved
      /\ Took(q).starting <=> q.starting
      /\ Took(q).pending <=> q.pending
      /\ Took(q).failed <=> q.failed
  BY DEF Sound, Record, Took, Same
<1> QED
  BY <1>1 DEF Sound

LEMMA WorkerReadyKeeps ==
    ASSUME IInv, NEW d \in Databases, NEW fits \in BOOLEAN, WorkerReady(d, fits)
    PROVE  IInv'
<1> PICK q : q = record[d]
  OBVIOUS
<1> DEFINE s == Started(q)
           r == IF s.closing THEN s
                ELSE IF fits THEN Took(s) ELSE Fallen(s, TRUE)
<1>1. Known(d) /\ Sound(q) /\ q.starting
  BY DEF WorkerReady, IInv, RecordsSound
<1>2. auto[d] = TRUE
  BY <1>1 DEF IInv, TypeOK, AutoOwned, Sound
<1>3. Resumes(d, r, TRUE, "run") /\ UNCHANGED <<threads, deleted>>
  BY <1>2 DEF WorkerReady, Started, Took
<1>4. Sound(s) /\ Same(q, s) /\ ~s.starting /\ s \in Record /\ s.saved
  BY <1>1, StartedSound DEF Sound
<1> HIDE DEF s
<1>5. Sound(r) /\ Same(s, r)
  <2>1. CASE r = s
    BY <1>4, <2>1 DEF Same
  <2>2. CASE r = Took(s)
    BY <1>4, <2>2, TookSound
  <2>3. CASE r = Fallen(s, TRUE)
    <3>1. PICK ok \in BOOLEAN : ok = TRUE
      OBVIOUS
    <3>2. r = Fallen(s, ok)
      BY <2>3, <3>1
    <3> HIDE DEF r
    <3> QED
      BY <1>4, <3>2, FallenSound
  <2> QED
    BY <2>1, <2>2, <2>3
<1>6. Same(record[d], r)
  BY <1>4, <1>5 DEF Same
<1> HIDE DEF r
<1> QED
  BY <1>1, <1>3, <1>5, <1>6, ResumesStays

More(q) == [q EXCEPT !.again = FALSE]
Over(q) == [q EXCEPT !.pending = FALSE, !.again = FALSE]

LEMMA PassSound ==
    ASSUME NEW q, Sound(q)
    PROVE  /\ Sound(More(q)) /\ Same(q, More(q)) /\ More(q).failed = q.failed
           /\ Sound(Over(q)) /\ Same(q, Over(q)) /\ Over(q).failed = q.failed
<1>1. /\ Sound(More(q)) /\ Same(q, More(q)) /\ More(q).failed = q.failed
  BY DEF Sound, Record, More, Same
<1>2. /\ Sound(Over(q)) /\ Same(q, Over(q)) /\ Over(q).failed = q.failed
  BY DEF Sound, Record, Over, Same
<1> QED
  BY <1>1, <1>2

LEMMA PassDoneKeeps ==
    ASSUME IInv, NEW d \in Databases, NEW backlog \in BOOLEAN, NEW ok \in BOOLEAN,
           PassDone(d, backlog, ok)
    PROVE  IInv'
<1> PICK q : q = record[d]
  OBVIOUS
<1> DEFINE r == IF ~backlog /\ q.again /\ Asked(q) THEN More(q) ELSE Over(q)
           outcome == IF backlog THEN "stop" ELSE "run"
<1>1. /\ Known(d) /\ Sound(q) /\ UNCHANGED <<threads, deleted>>
      /\ Resumes(d, r, ok, outcome)
  BY DEF PassDone, More, Over, IInv, RecordsSound
<1>2. Sound(r) /\ Same(q, r)
  BY <1>1, PassSound
<1>3. outcome \in {"run", "stop"}
  OBVIOUS
<1> HIDE DEF r, outcome
<1> QED
  BY <1>1, <1>2, <1>3, ResumesStays

LEMMA FallsKeeps ==
    ASSUME IInv, NEW d \in Databases, NEW ok \in BOOLEAN, Known(d), Falls(d, ok)
    PROVE  IInv'
<1> PICK q : q = record[d]
  OBVIOUS
<1> DEFINE r == Fallen(q, ok)
           outcome == IF ok THEN "run" ELSE "stop"
<1>1. /\ q \in Record /\ q.saved /\ UNCHANGED <<threads, deleted>>
      /\ Resumes(d, r, ok, outcome)
  BY DEF Falls, IInv, RecordsSound, Sound
<1>2. Sound(r) /\ Same(q, r)
  BY <1>1, FallenSound
<1>3. outcome \in {"run", "stop"}
  OBVIOUS
<1> HIDE DEF r, outcome
<1> QED
  BY <1>1, <1>2, <1>3, ResumesStays

Stopped(q) == [q EXCEPT !.closes = FALSE, !.terminating = TRUE]

LEMMA StoppedSound ==
    ASSUME NEW q, Sound(q)
    PROVE  /\ Sound(Stopped(q)) /\ Same(q, Stopped(q))
           /\ Stopped(q).closing = q.closing /\ Stopped(q).failed = q.failed
BY DEF Sound, Record, Stopped, Same

LEMMA CloseTimesOutKeeps ==
    ASSUME IInv, NEW d \in Databases, NEW ok \in BOOLEAN, CloseTimesOut(d, ok)
    PROVE  IInv'
<1> PICK q : q = record[d]
  OBVIOUS
<1> DEFINE r == Stopped(Restored(q, ok))
<1>1. /\ Known(d) /\ Sound(q) /\ UNCHANGED <<threads, deleted>>
      /\ Resumes(d, r, ok, "run")
  BY DEF CloseTimesOut, Terminated, Stopped, IInv, RecordsSound
<1>2. Sound(r) /\ Same(q, r)
  BY <1>1, RestoredSound, StoppedSound DEF Same
<1> HIDE DEF r
<1> QED
  BY <1>1, <1>2, ResumesStays

LEMMA WorkerExitsKeeps ==
    ASSUME IInv, NEW d \in Databases, NEW ok \in BOOLEAN, WorkerExits(d, ok)
    PROVE  IInv'
<1> PICK q : q = record[d]
  OBVIOUS
<1> DEFINE r == Exited(q, ok)
           outcome == IF ok THEN "run" ELSE "stop"
<1>1. /\ Known(d) /\ Sound(q) /\ q.live /\ deleted' = deleted
      /\ Resumes(d, r, ok, outcome)
      /\ threads' = [threads EXCEPT ![d] = @ - 1]
  BY DEF WorkerExits, IInv, RecordsSound
<1>2. Sound(r) /\ r.leases = q.leases /\ ~r.live
  BY <1>1, ExitedSound
<1>3. threads[d] = 1
  BY <1>1 DEF IInv, OneThread
<1>4. /\ threads' \in [Databases -> Nat] /\ threads'[d] = 0
      /\ \A e \in Databases : e # d => threads'[e] = threads[e]
  BY <1>1, <1>3 DEF IInv, TypeOK
<1>5. outcome \in {"run", "stop"}
  OBVIOUS
<1> HIDE DEF r, outcome
<1> QED
  BY <1>1, <1>2, <1>4, <1>5, ResumesKeeps

LEMMA DeleteKeeps ==
    ASSUME IInv, NEW d \in Databases, Delete(d)
    PROVE  IInv'
<1>1. /\ ~Known(d) /\ deleted' = [deleted EXCEPT ![d] = TRUE]
      /\ UNCHANGED <<auto, record, import, threads, shutdown, faults>>
  BY DEF Delete
<1>2. TypeOK' /\ DeletedUnknown'
  BY <1>1 DEF IInv, TypeOK, DeletedUnknown, Known
<1>3. /\ Placed' /\ LeasesCounted' /\ OneThread'
      /\ RecordsSound' /\ AutoOwned' /\ PassPending'
  BY <1>1 DEF IInv, Placed, LeasesCounted, OneThread, RecordsSound, AutoOwned,
              PassPending, Known, Leasing
<1> QED
  BY <1>2, <1>3 DEF IInv

-----------------------------------------------------------------------------
(* The end of the process *)

ShutRecord(d, bad) ==
    IF record[d].pending THEN Restored(record[d], d \notin bad)
                         ELSE Closed(record[d], d \notin bad)

LEMMA ShutSound ==
    ASSUME IInv, NEW d \in Databases, Known(d), NEW bad
    PROVE  /\ Sound(ShutRecord(d, bad)) /\ Same(record[d], ShutRecord(d, bad))
           /\ ShutRecord(d, bad).pending = record[d].pending
           /\ ShutRecord(d, bad).enabled <=> record[d].enabled /\ d \in bad
<1>1. Sound(record[d])
  BY DEF IInv, RecordsSound
<1>2. PICK ok \in BOOLEAN : ok = (d \notin bad)
  OBVIOUS
<1>3. ok <=> d \notin bad
  BY <1>2
<1>4. ShutRecord(d, bad) = IF record[d].pending THEN Restored(record[d], ok)
                                               ELSE Closed(record[d], ok)
  BY <1>2, Zenon DEF ShutRecord
<1> QED
  BY <1>1, <1>3, <1>4, RestoredSound, ClosedSound

LEMMA ShutdownKeeps ==
    ASSUME IInv, NEW bad \in SUBSET Databases, Shutdown(bad)
    PROVE  IInv'
<1>1. /\ bad \subseteq {d \in Databases : Known(d) /\ record[d].enabled}
      /\ faults' = faults + Cardinality(bad) /\ faults + Cardinality(bad) <= MaxFaults
      /\ record' = [d \in Databases |->
              IF ~Known(d) \/ Forgotten(ShutRecord(d, bad)) THEN None ELSE ShutRecord(d, bad)]
      /\ auto' = [d \in Databases |->
              IF Known(d) /\ record[d].enabled /\ d \notin bad THEN record[d].saved ELSE auto[d]]
      /\ shutdown' = [d \in Databases |->
              IF ~Known(d) THEN "done"
              ELSE IF ShutRecord(d, bad).pending THEN "pump"
              ELSE IF ShutRecord(d, bad).closes THEN "close" ELSE "done"]
      /\ UNCHANGED <<import, threads, deleted>>
  BY DEF Shutdown, ShutRecord
<1>2. \A d \in Databases : Known(d) =>
          /\ Sound(ShutRecord(d, bad)) /\ ShutRecord(d, bad).leases = record[d].leases
          /\ ShutRecord(d, bad).live = record[d].live
          /\ ShutRecord(d, bad).pending = record[d].pending
          /\ ShutRecord(d, bad).enabled <=> record[d].enabled /\ d \in bad
          /\ ShutRecord(d, bad) \in Record
  BY ShutSound DEF Same, Sound
<1>3. \A d \in Databases :
          /\ Known(d)' <=> Known(d) /\ ~Forgotten(ShutRecord(d, bad))
          /\ Known(d)' => record'[d] = ShutRecord(d, bad)
  BY <1>1, <1>2, RecordAssumption DEF Known
<1>4. \A e \in Databases : Leasing(e)' = Leasing(e)
  BY <1>1 DEF Leasing
<1>5. TypeOK'
  <2>1. record' \in [Databases -> Record \cup {None}]
    BY <1>1, <1>2
  <2>2. auto' \in [Databases -> BOOLEAN]
    <3>1. \A d \in Databases : Known(d) => record[d].saved \in BOOLEAN
      BY DEF IInv, RecordsSound, Sound, Record
    <3> QED
      BY <1>1, <3>1 DEF IInv, TypeOK
  <2>3. shutdown' \in [Databases -> {"no", "pump", "close", "done"}]
    BY <1>1
  <2>4. faults' \in Nat
    <3>1. IsFiniteSet(bad)
      BY FS_Subset, CapacityAssumption
    <3> QED
      BY <1>1, <3>1, FS_CardinalityType DEF IInv, TypeOK
  <2> QED
    BY <1>1, <2>1, <2>2, <2>3, <2>4 DEF IInv, TypeOK
<1>6. LeasesCounted'
  <2>1. \A d \in Databases : Known(d) /\ Forgotten(ShutRecord(d, bad)) => Leasing(d) = {}
    BY <1>2, LeasingFinite DEF IInv, LeasesCounted, Forgotten
  <2> QED
    BY <1>2, <1>3, <1>4, <2>1 DEF IInv, LeasesCounted
<1>7. OneThread'
  BY <1>1, <1>2, <1>3 DEF IInv, OneThread, Forgotten
<1>8. RecordsSound'
  BY <1>2, <1>3 DEF RecordsSound
<1>9. AutoOwned'
  <2>1. \A d \in Databases : Known(d) => record[d].saved
    BY DEF IInv, RecordsSound, Sound
  <2>2. \A d \in Databases :
            auto'[d] <=> IF Known(d) /\ record[d].enabled /\ d \notin bad THEN TRUE ELSE auto[d]
    BY <1>1, <2>1
  <2> QED
    BY <1>1, <1>2, <1>3, <2>2 DEF IInv, AutoOwned, Forgotten
<1>10. PassPending'
  <2> SUFFICES ASSUME NEW i \in Imports, import[i].at = "pass"
               PROVE  record'[import[i].db].pending
    BY <1>1 DEF PassPending
  <2>1. /\ import[i].db \in Databases /\ Known(import[i].db)
        /\ record[import[i].db].leases # 0 /\ record[import[i].db].pending
    BY LeaseKnown DEF IInv, PassPending
  <2> QED
    BY <1>2, <1>3, <2>1 DEF Forgotten
<1>11. Placed' /\ DeletedUnknown'
  BY <1>1, <1>3 DEF IInv, Placed, DeletedUnknown
<1> QED
  BY <1>5, <1>6, <1>7, <1>8, <1>9, <1>10, <1>11 DEF IInv

-----------------------------------------------------------------------------
(* The invariant *)

LEMMA BoundsBoolean ==
    ASSUME NEW d
    PROVE  Bounds(d) \subseteq BOOLEAN
BY DEF Bounds, Tries

LEMMA Initially == Init => IInv
<1> SUFFICES ASSUME Init PROVE IInv
  OBVIOUS
<1>1. \A d \in Databases : ~Known(d) /\ Leasing(d) = {}
  BY DEF Init, Known, Leasing
<1> QED
  BY <1>1 DEF Init, IInv, TypeOK, Points, Placed, LeasesCounted, OneThread, RecordsSound,
              AutoOwned, PassPending, DeletedUnknown

LEMMA Inductive == IInv /\ [Next]_vars => IInv'
<1> SUFFICES ASSUME IInv, [Next]_vars PROVE IInv'
  OBVIOUS
<1>1. ASSUME NEW i \in Imports, NEW d \in Databases, NEW starts \in BOOLEAN,
             NEW ok \in Bounds(d), Lease(i, d, starts, ok)
      PROVE  IInv'
  BY <1>1, BoundsBoolean, LeaseKeeps
<1>2. ASSUME NEW i \in Imports, NEW ok \in Bounds(import[i].db), Commit(i, ok) \/ End(i, ok)
      PROVE  IInv'
  BY <1>2, BoundsBoolean, CommitKeeps, EndKeeps
<1>3. ASSUME NEW d \in Databases, NEW fits \in BOOLEAN, WorkerReady(d, fits)
      PROVE  IInv'
  BY <1>3, WorkerReadyKeeps
<1>4. ASSUME NEW d \in Databases, NEW ok \in Bounds(d), NEW backlog \in BOOLEAN,
             PassDone(d, backlog, ok)
      PROVE  IInv'
  BY <1>4, BoundsBoolean, PassDoneKeeps
<1>5. ASSUME NEW d \in Databases, NEW ok \in Bounds(d), WorkerFails(d, ok) \/ TimesOut(d, ok)
      PROVE  IInv'
  BY <1>5, BoundsBoolean, FallsKeeps DEF WorkerFails, TimesOut
<1>6. ASSUME NEW d \in Databases, NEW ok \in Bounds(d),
             CloseTimesOut(d, ok) \/ WorkerExits(d, ok) \/ Delete(d)
      PROVE  IInv'
  BY <1>6, BoundsBoolean, CloseTimesOutKeeps, WorkerExitsKeeps, DeleteKeeps
<1>7. ASSUME NEW bad \in SUBSET Databases, Shutdown(bad) PROVE IInv'
  BY <1>7, ShutdownKeeps
<1>8. CASE UNCHANGED vars
  <2>1. UNCHANGED <<auto, record, threads, import, shutdown, deleted, faults>>
    BY <1>8 DEF vars
  <2>2. (\A d \in Databases : Known(d)' <=> Known(d))
        /\ \A d \in Databases : Leasing(d)' = Leasing(d)
    BY <2>1 DEF Known, Leasing
  <2>3. TypeOK' /\ Placed'
    BY <2>1 DEF IInv, TypeOK, Placed
  <2>4. LeasesCounted'
    BY <2>1, <2>2 DEF IInv, LeasesCounted
  <2>5. OneThread' /\ DeletedUnknown'
    BY <2>1, <2>2 DEF IInv, OneThread, DeletedUnknown
  <2>6. RecordsSound' /\ AutoOwned' /\ PassPending'
    BY <2>1, <2>2 DEF IInv, RecordsSound, AutoOwned, PassPending
  <2> QED
    BY <2>3, <2>4, <2>5, <2>6 DEF IInv
<1> QED
  BY <1>1, <1>2, <1>3, <1>4, <1>5, <1>6, <1>7, <1>8 DEF Next

(* What the records, the leases, the threads and the pragma of a connection  *)
(* say of each other holds between any two steps of the code.                *)
THEOREM Invariant == Spec => []IInv
BY Initially, Inductive, PTL DEF Spec

(* Every variable keeps its type.                                            *)
THEOREM TypeCorrect == Spec => []TypeOK
<1>1. IInv => TypeOK
  BY DEF IInv
<1> QED
  BY <1>1, Invariant, PTL

(* A shop is deleted only when no worker thread and no import that could     *)
(* still write has its database open: a deleted shop never has a record, and *)
(* who leases or waits has one.                                              *)
THEOREM DeletedAlwaysFree == Spec => []DeletedIsFree
<1>1. IInv => DeletedIsFree
  <2> SUFFICES ASSUME IInv, NEW d \in Databases, deleted[d]
               PROVE  /\ threads[d] = 0
                      /\ \A i \in Imports : import[i].db = d =>
                             import[i].at \in {"last", "close", "done"}
    BY DEF DeletedIsFree
  <2>1. ~Known(d)
    BY DEF IInv, DeletedUnknown
  <2>2. threads[d] = 0
    BY <2>1 DEF IInv, OneThread
  <2>3. ASSUME NEW i \in Imports, import[i].db = d
        PROVE  import[i].at \in {"last", "close", "done"}
    <3>1. import[i].at \notin {"ready", "run", "pass", "stop"}
      BY <2>1, <2>3, LeaseKnown
    <3>2. import[i].at \in Points /\ import[i].at # "new"
      BY <2>3, CapacityAssumption DEF IInv, TypeOK, Placed
    <3> QED
      BY <3>1, <3>2 DEF Points
  <2> QED
    BY <2>2, <2>3
<1> QED
  BY <1>1, Invariant, PTL

(* A connection that does not checkpoint by itself has a record that sets it *)
(* back to the shop's own threshold.                                         *)
THEOREM ThresholdAlwaysOwned == Spec => []ThresholdOwned
<1>1. IInv => ThresholdOwned
  BY DEF IInv, AutoOwned, RecordsSound, Sound, ThresholdOwned
<1> QED
  BY <1>1, Invariant, PTL

-----------------------------------------------------------------------------
(* What a step does to the imports that wait, and to the worker of others *)

Covers ==
    \A i \in Imports : LET d == import[i].db IN
        (import[i].at = "pass" /\ import'[i].at = "run")
            => auto'[d] \/ (Known(d)' /\ ~record'[d].failed)

KeepsOpen ==
    \A d \in Databases : (Known(d) /\ Known(d)' /\ record'[d].leases > 0
                              /\ record'[d].closing /\ ~record[d].closing)
        => Stopping'

(* An import goes on only from a handler that says so, and that has set the  *)
(* threshold back if the worker failed.                                      *)
LEMMA ResumesCovers ==
    ASSUME IInv, IInv', NEW d \in Databases, Known(d), NEW r, Sound(r),
           r.leases = record[d].leases, NEW ok \in BOOLEAN,
           NEW outcome \in {"run", "stop"}, Resumes(d, r, ok, outcome),
           record[d].pending /\ outcome = "run" => ~r.enabled \/ ~r.failed
    PROVE  Covers
<1> DEFINE left == Left(d, r, ok)
<1>1. /\ Stored(d, left)
      /\ import' = [i \in Imports |->
                IF import[i].db = d THEN [import[i] EXCEPT !.at = Goes(@, left, outcome)]
                                    ELSE import[i]]
  BY DEF Resumes, Left
<1>2. /\ Sound(left) /\ left.leases = record[d].leases
      /\ left.failed = r.failed /\ (left.enabled => r.enabled)
  BY LeftSound DEF Same
<1> HIDE DEF left
<1> SUFFICES ASSUME NEW i \in Imports, import[i].at = "pass", import'[i].at = "run"
             PROVE  \/ auto'[import[i].db]
                    \/ record'[import'[i].db] # None /\ ~record'[import[i].db].failed
  BY DEF Covers, Known
<1>3. import[i].db = d /\ import'[i].db = d /\ Goes("pass", left, outcome) = "run"
  BY <1>1 DEF IInv, TypeOK
<1>4. outcome = "run"
  BY <1>3 DEF Goes
<1>5. record[d].pending /\ Known(d)'
  BY <1>3, LeaseKnownNext DEF IInv, PassPending
<1>6. record'[d] = left /\ (auto'[d] <=> ~left.enabled)
  BY <1>1, <1>2, <1>5, StoredKeeps DEF IInv, AutoOwned
<1> QED
  BY <1>2, <1>3, <1>4, <1>5, <1>6 DEF Known

LEMMA ResumesOpen ==
    ASSUME IInv, NEW d \in Databases, Known(d), NEW r, Sound(r),
           r.leases = record[d].leases, r.closing <=> record[d].closing,
           NEW ok \in BOOLEAN, NEW outcome, Resumes(d, r, ok, outcome)
    PROVE  KeepsOpen
<1> DEFINE left == Left(d, r, ok)
<1>1. Stored(d, left) /\ shutdown' = [shutdown EXCEPT ![d] = Ending(@, left)]
  BY DEF Resumes, Left
<1>2. Sound(left) /\ left.leases = r.leases
  BY LeftSound DEF Same
<1>3. ~Closes(d, r) => left = r
  BY DEF Left
<1> HIDE DEF left
<1> SUFFICES ASSUME NEW e \in Databases, Known(e), Known(e)', record'[e].leases > 0,
                    record'[e].closing, ~record[e].closing
             PROVE  Stopping'
  BY DEF KeepsOpen
<1>4. e = d /\ record'[d] = left
  BY <1>1, <1>2, StoredKeeps
<1>5. left.leases > 0 /\ Closes(d, r)
  BY <1>3, <1>4
<1>6. shutdown[d] = "pump"
  BY <1>2, <1>5 DEF Closes, ClosesNow
<1>7. shutdown'[d] # "no"
  BY <1>1, <1>6, EndingKeeps DEF IInv, TypeOK
<1> QED
  BY <1>7 DEF Stopping

LEMMA LeaseSteps ==
    ASSUME IInv, NEW i \in Imports, NEW d \in Databases, NEW starts \in BOOLEAN,
           NEW ok \in BOOLEAN, Lease(i, d, starts, ok)
    PROVE  Covers /\ KeepsOpen
<1> PICK q : q = record[d]
  OBVIOUS
<1>1. /\ import[i].at = "new"
      /\ \A j \in Imports : j # i => import'[j] = import[j]
      /\ \A e \in Databases : e # d => record'[e] = record[e]
      /\ \/ record'[d] = Fresh(starts)
         \/ record'[d] = Shared(q)
         \/ record'[d] = Shared(Restored(q, ok))
  BY DEF Lease, Fresh, Shared, IInv, TypeOK
<1>2. Covers
  BY <1>1 DEF Covers
<1>3. ~Fresh(starts).closing
  BY DEF Fresh, NewRecord
<1>4. Known(d) => /\ Shared(q).closing = q.closing
                  /\ Shared(Restored(q, ok)).closing = q.closing
  <2> SUFFICES ASSUME q \in Record
               PROVE  /\ Shared(q).closing = q.closing
                      /\ Shared(Restored(q, ok)).closing = q.closing
    BY DEF IInv, RecordsSound, Sound
  <2> QED
    BY DEF Shared, Restored, Record
<1>5. KeepsOpen
  BY <1>1, <1>3, <1>4 DEF KeepsOpen, Known
<1> QED
  BY <1>2, <1>5

LEMMA CommitSteps ==
    ASSUME IInv, NEW i \in Imports, NEW ok \in BOOLEAN, Commit(i, ok)
    PROVE  Covers /\ KeepsOpen
<1>1. import[i].at = "run" /\ import[i].db \in Databases /\ Known(import[i].db)
  BY LeaseKnown DEF Commit
<1> PICK d \in Databases : d = import[i].db
  BY <1>1
<1> PICK q : q = record[d]
  OBVIOUS
<1>2. \A j \in Imports : j # i => import'[j] = import[j]
  BY DEF Commit, IInv, TypeOK
<1>3. Covers
  BY <1>1, <1>2 DEF Covers
<1>4. Known(d) /\ Sound(q)
  BY <1>1 DEF IInv, RecordsSound
<1>5. PICK r : /\ Stored(d, r)
               /\ r = Restored(q, ok) \/ (Asked(q) /\ r = Requested(q))
  BY DEF Commit
<1>6. Sound(r) /\ r.closing = q.closing
  <2>1. Requested(q).closing = q.closing
    BY <1>4 DEF Requested, Sound, Record
  <2> QED
    BY <1>4, <1>5, <2>1, RestoredSound, RequestedSound
<1>7. KeepsOpen
  BY <1>4, <1>5, <1>6, StoredKeeps DEF KeepsOpen
<1> QED
  BY <1>3, <1>7

LEMMA EndSteps ==
    ASSUME IInv, IInv', NEW i \in Imports, NEW ok \in BOOLEAN, End(i, ok)
    PROVE  Covers /\ KeepsOpen
<1>1. /\ import[i].at \in {"run", "stop"} /\ import[i].db \in Databases
      /\ Known(import[i].db) /\ record[import[i].db].leases # 0
  BY LeaseKnown DEF End
<1> PICK d \in Databases : d = import[i].db
  BY <1>1
<1> PICK q : q = record[d]
  OBVIOUS
<1> DEFINE r == Released(q)
           closed == Closed(r, ok)
           left == IF r.leases > 0 THEN r
                   ELSE IF Asked(r) /\ ~Unserved(r) THEN Requested(r) ELSE closed
<1>2. /\ Known(d) /\ Sound(r) /\ r.closing = q.closing
  <2>1. Known(d) /\ Sound(q) /\ q.leases # 0
    BY <1>1 DEF IInv, RecordsSound
  <2>2. r.closing = q.closing
    BY <2>1 DEF Released, Sound, Record
  <2> QED
    BY <2>1, <2>2, ReleasedSound
<1>3. /\ Sound(left)
      /\ left.leases > 0 => left.closing = q.closing
  <2>1. CASE left = r /\ r.leases > 0
    BY <1>2, <2>1
  <2>2. CASE left = Requested(r) /\ Asked(r)
    <3>1. Requested(r).closing = r.closing
      BY <1>2 DEF Requested, Sound, Record
    <3> QED
      BY <1>2, <2>2, <3>1, RequestedSound
  <2>3. CASE left = closed /\ ~(r.leases > 0)
    BY <1>2, <2>3, ClosedSound DEF Same
  <2> QED
    BY <2>1, <2>2, <2>3
<1>4. /\ Stored(d, left)
      /\ \A j \in Imports : j # i =>
             import'[j] = IF import[j].db = d /\ Forgotten(left)
                          THEN [import[j] EXCEPT !.at = Goes(@, left, "run")] ELSE import[j]
  BY DEF End
<1> HIDE DEF left, closed, r
<1>5. KeepsOpen
  BY <1>2, <1>3, <1>4, StoredKeeps DEF KeepsOpen
<1>6. Covers
  <2> SUFFICES ASSUME NEW j \in Imports, import[j].at = "pass", import'[j].at = "run"
               PROVE  FALSE
    BY DEF Covers
  <2>1. j # i /\ import[j].db = d /\ Forgotten(left) /\ import'[j].db = d
    BY <1>1, <1>4 DEF IInv, TypeOK
  <2>2. Known(d)'
    BY <2>1, LeaseKnownNext
  <2> QED
    BY <1>2, <1>3, <1>4, <2>1, <2>2, StoredKeeps
<1> QED
  BY <1>5, <1>6

LEMMA WorkerReadySteps ==
    ASSUME IInv, IInv', NEW d \in Databases, NEW fits \in BOOLEAN, WorkerReady(d, fits)
    PROVE  Covers /\ KeepsOpen
<1> PICK q : q = record[d]
  OBVIOUS
<1> DEFINE s == Started(q)
           r == IF s.closing THEN s
                ELSE IF fits THEN Took(s) ELSE Fallen(s, TRUE)
<1>1. Known(d) /\ Sound(q) /\ q.starting
  BY DEF WorkerReady, IInv, RecordsSound
<1>2. auto[d] = TRUE
  BY <1>1 DEF IInv, TypeOK, AutoOwned, Sound
<1>3. Resumes(d, r, TRUE, "run")
  BY <1>2 DEF WorkerReady, Started, Took
<1>4. Sound(s) /\ Same(q, s) /\ ~s.starting /\ s \in Record /\ s.saved /\ s.closing = q.closing
  <2>1. s.closing = q.closing
    BY <1>1 DEF Started, Sound, Record
  <2> QED
    BY <1>1, <2>1, StartedSound DEF Sound
<1> HIDE DEF s
<1>5. PICK ok \in BOOLEAN : ok = TRUE
  OBVIOUS
<1>6. Sound(r) /\ Same(s, r) /\ r.closing = s.closing
  <2>1. CASE r = s
    BY <1>4, <2>1 DEF Same
  <2>2. CASE r = Took(s)
    <3>1. Took(s).closing = s.closing
      BY <1>4 DEF Took, Record
    <3> QED
      BY <1>4, <2>2, <3>1, TookSound
  <2>3. CASE r = Fallen(s, TRUE)
    <3>1. r = Fallen(s, ok)
      BY <1>5, <2>3
    <3> HIDE DEF r
    <3> QED
      BY <1>4, <3>1, FallenSound
  <2> QED
    BY <2>1, <2>2, <2>3
<1>7. Resumes(d, r, ok, "run")
  BY <1>3, <1>5
<1>8. r.leases = record[d].leases /\ r.closing = record[d].closing /\ ~record[d].pending
  BY <1>1, <1>4, <1>6 DEF Same, Sound
<1> HIDE DEF r
<1>9. Covers
  BY <1>1, <1>6, <1>7, <1>8, ResumesCovers
<1>10. KeepsOpen
  BY <1>1, <1>6, <1>7, <1>8, ResumesOpen
<1> QED
  BY <1>9, <1>10

LEMMA PassDoneSteps ==
    ASSUME IInv, IInv', NEW d \in Databases, NEW backlog \in BOOLEAN, NEW ok \in BOOLEAN,
           PassDone(d, backlog, ok)
    PROVE  Covers /\ KeepsOpen
<1> PICK q : q = record[d]
  OBVIOUS
<1> DEFINE r == IF ~backlog /\ q.again /\ Asked(q) THEN More(q) ELSE Over(q)
           outcome == IF backlog THEN "stop" ELSE "run"
<1>1. Known(d) /\ Sound(q) /\ q.pending /\ ~q.failed /\ Resumes(d, r, ok, outcome)
  BY DEF PassDone, More, Over, IInv, RecordsSound, Sound
<1>2. Sound(r) /\ r.leases = q.leases /\ ~r.failed
  BY <1>1, PassSound DEF Same
<1>3. r.closing = q.closing
  BY <1>1 DEF More, Over, Sound, Record
<1>4. outcome \in {"run", "stop"}
  OBVIOUS
<1> HIDE DEF r, outcome
<1> QED
  BY <1>1, <1>2, <1>3, <1>4, ResumesCovers, ResumesOpen

LEMMA FallsSteps ==
    ASSUME IInv, IInv', NEW d \in Databases, NEW ok \in BOOLEAN, Known(d), Falls(d, ok)
    PROVE  Covers /\ KeepsOpen
<1> PICK q : q = record[d]
  OBVIOUS
<1> DEFINE r == Fallen(q, ok)
           outcome == IF ok THEN "run" ELSE "stop"
<1>1. q \in Record /\ q.saved /\ Resumes(d, r, ok, outcome)
  BY DEF Falls, IInv, RecordsSound, Sound
<1>2. /\ Sound(r) /\ r.leases = q.leases /\ r.closing = q.closing
      /\ outcome = "run" => ~r.enabled
  BY <1>1, FallenSound DEF Same
<1>3. outcome \in {"run", "stop"}
  OBVIOUS
<1> HIDE DEF r, outcome
<1> QED
  BY <1>1, <1>2, <1>3, ResumesCovers, ResumesOpen

LEMMA CloseTimesOutSteps ==
    ASSUME IInv, IInv', NEW d \in Databases, NEW ok \in BOOLEAN, CloseTimesOut(d, ok)
    PROVE  Covers /\ KeepsOpen
<1> PICK q : q = record[d]
  OBVIOUS
<1> DEFINE r == Stopped(Restored(q, ok))
<1>1. Known(d) /\ Sound(q) /\ Resumes(d, r, ok, "run")
  BY DEF CloseTimesOut, Terminated, Stopped, IInv, RecordsSound
<1>2. Sound(r) /\ r.leases = q.leases /\ r.closing = q.closing /\ r.failed = q.failed
  BY <1>1, RestoredSound, StoppedSound DEF Same
<1>3. q.pending => ~q.failed
  BY <1>1 DEF Sound
<1> HIDE DEF r
<1> QED
  BY <1>1, <1>2, <1>3, ResumesCovers, ResumesOpen

LEMMA WorkerExitsSteps ==
    ASSUME IInv, IInv', NEW d \in Databases, NEW ok \in BOOLEAN, WorkerExits(d, ok)
    PROVE  Covers /\ KeepsOpen
<1> PICK q : q = record[d]
  OBVIOUS
<1> DEFINE r == Exited(q, ok)
           outcome == IF ok THEN "run" ELSE "stop"
<1>1. Known(d) /\ Sound(q) /\ Resumes(d, r, ok, outcome)
  BY DEF WorkerExits, IInv, RecordsSound
<1>2. /\ Sound(r) /\ r.leases = q.leases /\ r.closing = q.closing
      /\ outcome = "run" => ~r.enabled
  BY <1>1, ExitedSound
<1>3. outcome \in {"run", "stop"}
  OBVIOUS
<1> HIDE DEF r, outcome
<1> QED
  BY <1>1, <1>2, <1>3, ResumesCovers, ResumesOpen

LEMMA ShutdownSteps ==
    ASSUME IInv, NEW bad \in SUBSET Databases, Shutdown(bad)
    PROVE  Covers /\ KeepsOpen
<1>1. UNCHANGED import
  BY DEF Shutdown
<1>2. \A d \in Databases : shutdown'[d] # "no"
  BY DEF Shutdown
<1> QED
  BY <1>1, <1>2 DEF Covers, KeepsOpen, Stopping

LEMMA Steps == IInv /\ IInv' /\ [Next]_vars => [Covers]_vars /\ [KeepsOpen]_vars
<1> SUFFICES ASSUME IInv, IInv', Next PROVE Covers /\ KeepsOpen
  OBVIOUS
<1>1. ASSUME NEW i \in Imports, NEW d \in Databases, NEW starts \in BOOLEAN,
             NEW ok \in Bounds(d), Lease(i, d, starts, ok)
      PROVE  Covers /\ KeepsOpen
  BY <1>1, BoundsBoolean, LeaseSteps
<1>2. ASSUME NEW i \in Imports, NEW ok \in Bounds(import[i].db), Commit(i, ok) \/ End(i, ok)
      PROVE  Covers /\ KeepsOpen
  BY <1>2, BoundsBoolean, CommitSteps, EndSteps
<1>3. ASSUME NEW d \in Databases, NEW fits \in BOOLEAN, WorkerReady(d, fits)
      PROVE  Covers /\ KeepsOpen
  BY <1>3, WorkerReadySteps
<1>4. ASSUME NEW d \in Databases, NEW ok \in Bounds(d), NEW backlog \in BOOLEAN,
             PassDone(d, backlog, ok)
      PROVE  Covers /\ KeepsOpen
  BY <1>4, BoundsBoolean, PassDoneSteps
<1>5. ASSUME NEW d \in Databases, NEW ok \in Bounds(d), WorkerFails(d, ok) \/ TimesOut(d, ok)
      PROVE  Covers /\ KeepsOpen
  BY <1>5, BoundsBoolean, FallsSteps DEF WorkerFails, TimesOut
<1>6. ASSUME NEW d \in Databases, NEW ok \in Bounds(d),
             CloseTimesOut(d, ok) \/ WorkerExits(d, ok)
      PROVE  Covers /\ KeepsOpen
  BY <1>6, BoundsBoolean, CloseTimesOutSteps, WorkerExitsSteps
<1>7. ASSUME NEW d \in Databases, Delete(d) PROVE Covers /\ KeepsOpen
  BY <1>7 DEF Delete, Covers, KeepsOpen
<1>8. ASSUME NEW bad \in SUBSET Databases, Shutdown(bad) PROVE Covers /\ KeepsOpen
  BY <1>8, ShutdownSteps
<1> QED
  BY <1>1, <1>2, <1>3, <1>4, <1>5, <1>6, <1>7, <1>8 DEF Next

(* An import whose worker failed or ended goes on only once the connection   *)
(* checkpoints by itself again.                                              *)
THEOREM BatchesAlwaysCovered == Spec => BatchesCovered
BY Invariant, Steps, PTL DEF Spec, BatchesCovered, Covers

(* Nobody's worker is closed because another import has finished.            *)
THEOREM NeverClosedUnderLease == Spec => NoCloseUnderLease
BY Invariant, Steps, PTL DEF Spec, NoCloseUnderLease, KeepsOpen
=============================================================================
