-------------------------------- MODULE Sums --------------------------------
(***************************************************************************)
(* What MapThenSumSet computes, by an induction over the finite sets that   *)
(* it sums: the provers take no induction theorem over operators, but they *)
(* find a smallest counterexample in a set of subsets.                      *)
(***************************************************************************)
EXTENDS FiniteSetsExt, FiniteSetTheorems, WellFoundedInduction, TLAPS

(* The sum of what v gives the members of S. *)
SumOf(v, S) == MapThenSumSet(LAMBDA x : v[x], S)

FirstOf(s) == CHOOSE x \in s : TRUE
RestOf(s) == s \ {FirstOf(s)}

(* g takes each subset of S to its sum, as the fold does. *)
Accumulates(g, v, S) ==
    g = [s \in SUBSET S |-> IF s = {} THEN 0 ELSE v[FirstOf(s)] + g[RestOf(s)]]
Accumulated(v, S) == CHOOSE g : Accumulates(g, v, S)

(* The fold of the community modules is the function that accumulates. *)
LEMMA SumUnfolds ==
    ASSUME NEW v, NEW S
    PROVE SumOf(v, S) = Accumulated(v, S)[S]
  BY DEF SumOf, MapThenSumSet, MapThenFoldSet, Accumulated, Accumulates, FirstOf, RestOf

(* A nonempty set of numbers has a smallest one. *)
LEMMA LeastNumber ==
    ASSUME NEW T, T \subseteq Nat, T # {}
    PROVE  \E n \in T : \A m \in T : n <= m
<1>1. PICK n \in T : \A m \in T : <<m, n>> \notin OpToRel(<, Nat)
  BY WFMin, NatLessThanWellFounded
<1>2. \A m \in T : ~(m < n)
  BY <1>1 DEF OpToRel
<1> QED
  BY <1>2

(* Of some subsets of a finite set one has no other inside it: what fails of a
   subset fails of a smallest one, which is how the lemmas below argue. *)
LEMMA SmallestSet ==
    ASSUME NEW S, IsFiniteSet(S), NEW T, T \subseteq SUBSET S, T # {}
    PROVE  \E s \in T : \A t \in T : t \subseteq s => t = s
<1>1. \A t \in T : IsFiniteSet(t) /\ Cardinality(t) \in Nat
  BY FS_Subset, FS_CardinalityType
<1> DEFINE sizes == {Cardinality(t) : t \in T}
<1>2. PICK n \in sizes : \A m \in sizes : n <= m
  <2>1. sizes \subseteq Nat /\ sizes # {}
    BY <1>1
  <2> HIDE DEF sizes
  <2> QED
    BY <2>1, LeastNumber
<1>3. PICK s \in T : Cardinality(s) = n
  BY <1>2
<1>4. ASSUME NEW t \in T, t \subseteq s PROVE t = s
  <2>1. Cardinality(t) >= Cardinality(s) /\ IsFiniteSet(s)
    BY <1>1, <1>2, <1>3
  <2>2. Cardinality(t) <= Cardinality(s) /\ (Cardinality(s) = Cardinality(t) => s = t)
    BY <1>4, <2>1, FS_Subset
  <2> QED
    BY <1>1, <2>1, <2>2
<1> QED
  BY <1>3, <1>4

(* The rest of a set is smaller. *)
LEMMA FirstAndRest ==
    ASSUME NEW s, s # {}
    PROVE  FirstOf(s) \in s /\ RestOf(s) \subseteq s /\ RestOf(s) # s
  BY DEF FirstOf, RestOf

(* What accumulates over S, at a subset of S. *)
LEMMA AccumulatesAt ==
    ASSUME NEW v, NEW S, NEW g, Accumulates(g, v, S), NEW s \in SUBSET S
    PROVE  g[s] = IF s = {} THEN 0 ELSE v[FirstOf(s)] + g[RestOf(s)]
  BY DEF Accumulates

(* What accumulates is a function on the subsets. *)
LEMMA AccumulatesDomain ==
    ASSUME NEW v, NEW S, NEW g, Accumulates(g, v, S)
    PROVE  g = [s \in SUBSET S |-> g[s]]
  BY DEF Accumulates

(* Only one function accumulates, *)
LEMMA AccumulatesOnce ==
    ASSUME NEW v, NEW S, IsFiniteSet(S), NEW g, NEW h, Accumulates(g, v, S), Accumulates(h, v, S)
    PROVE  g = h
<1> DEFINE bad == {s \in SUBSET S : g[s] # h[s]}
<1>1. CASE bad = {}
  BY <1>1, AccumulatesDomain
<1>2. CASE bad # {}
  <2>1. PICK s \in bad : \A t \in bad : t \subseteq s => t = s
    <3>1. bad \subseteq SUBSET S
      OBVIOUS
    <3> HIDE DEF bad
    <3> QED
      BY <1>2, <3>1, SmallestSet
  <2>2. s \in SUBSET S /\ g[s] # h[s] /\ s # {}
    BY AccumulatesAt
  <2>3. RestOf(s) \in SUBSET S /\ g[RestOf(s)] = h[RestOf(s)]
    BY <2>1, <2>2, FirstAndRest
  <2> QED
    BY <2>2, <2>3, AccumulatesAt
<1> QED
  BY <1>1, <1>2

(* its part over a subset accumulates there, *)
LEMMA AccumulatesWithin ==
    ASSUME NEW v, NEW S, NEW T \in SUBSET S, NEW g, Accumulates(g, v, S)
    PROVE  Accumulates([s \in SUBSET T |-> g[s]], v, T)
<1> DEFINE f == [s \in SUBSET T |-> g[s]]
<1>1. ASSUME NEW s \in SUBSET T
      PROVE  g[s] = IF s = {} THEN 0 ELSE v[FirstOf(s)] + f[RestOf(s)]
  <2>1. s # {} => RestOf(s) \in SUBSET T
    BY FirstAndRest
  <2> QED
    BY <2>1, AccumulatesAt
<1>2. f = [s \in SUBSET T |-> IF s = {} THEN 0 ELSE v[FirstOf(s)] + f[RestOf(s)]]
  BY <1>1
<1> QED
  BY <1>2 DEF Accumulates

(* and there is one. *)
LEMMA Accumulable ==
    ASSUME NEW v, NEW S, IsFiniteSet(S)
    PROVE  Accumulates(Accumulated(v, S), v, S)
<1> DEFINE good(s) == \E g : Accumulates(g, v, s)
<1> DEFINE bad == {s \in SUBSET S : ~good(s)}
<1>1. ASSUME bad # {} PROVE FALSE
  <2>1. PICK s \in bad : \A t \in bad : t \subseteq s => t = s
    <3>1. bad \subseteq SUBSET S
      OBVIOUS
    <3> HIDE DEF bad
    <3> QED
      BY <1>1, <3>1, SmallestSet
  <2>2. \A t \in SUBSET s : t # s => Accumulates(Accumulated(v, t), v, t)
    BY <2>1 DEF Accumulated
  <2> DEFINE val(t) == Accumulated(v, t)[t]
  <2>3. ASSUME NEW t \in SUBSET s, t # s, t # {}
        PROVE  val(t) = v[FirstOf(t)] + val(RestOf(t))
    <3>1. Accumulates(Accumulated(v, t), v, t) /\ RestOf(t) \in SUBSET t /\ RestOf(t) # s
      BY <2>2, <2>3, FirstAndRest
    <3>2. Accumulates(Accumulated(v, RestOf(t)), v, RestOf(t)) /\ IsFiniteSet(RestOf(t))
      BY <2>1, <2>2, <2>3, <3>1, FS_Subset
    <3>3. Accumulates([u \in SUBSET RestOf(t) |-> Accumulated(v, t)[u]], v, RestOf(t))
      BY <3>1, AccumulatesWithin
    <3>4. [u \in SUBSET RestOf(t) |-> Accumulated(v, t)[u]] = Accumulated(v, RestOf(t))
      BY <3>2, <3>3, AccumulatesOnce
    <3>5. Accumulated(v, t)[RestOf(t)] = val(RestOf(t))
      BY <3>4
    <3>6. PICK f : f = Accumulated(v, t)
      OBVIOUS
    <3>7. f[t] = v[FirstOf(t)] + f[RestOf(t)]
      BY <3>1, <3>6, <2>3, AccumulatesAt
    <3> QED
      BY <3>5, <3>6, <3>7
  <2>4. {} # s => val({}) = 0
    <3>1. {} \in SUBSET s /\ {} \in SUBSET {}
      OBVIOUS
    <3>2. PICK f : f = Accumulated(v, {})
      OBVIOUS
    <3>3. {} # s => Accumulates(f, v, {})
      BY <2>2, <3>1, <3>2
    <3>4. {} # s => f[{}] = 0
      BY <3>1, <3>3, AccumulatesAt
    <3> QED
      BY <3>2, <3>4
  <2> DEFINE g == [t \in SUBSET s |-> IF t = {} THEN 0 ELSE v[FirstOf(t)] + val(RestOf(t))]
  <2>5. \A t \in SUBSET s : t # {} => RestOf(t) \in SUBSET s /\ RestOf(t) # s
    BY FirstAndRest
  <2>6. \A t \in SUBSET s : t # s => g[t] = val(t)
    BY <2>3, <2>4
  <2>7. g = [t \in SUBSET s |-> IF t = {} THEN 0 ELSE v[FirstOf(t)] + g[RestOf(t)]]
    BY <2>5, <2>6
  <2>8. Accumulates(g, v, s)
    BY <2>7 DEF Accumulates
  <2> QED
    BY <2>1, <2>8
<1>2. good(S)
  BY <1>1
<1> QED
  BY <1>2 DEF Accumulated

(* A sum is that of its first element and of the rest, *)
LEMMA SumStep ==
    ASSUME NEW v, NEW S, IsFiniteSet(S)
    PROVE  SumOf(v, S) = IF S = {} THEN 0 ELSE v[FirstOf(S)] + SumOf(v, RestOf(S))
<1>1. PICK g : g = Accumulated(v, S)
  OBVIOUS
<1>2. Accumulates(g, v, S) /\ SumOf(v, S) = g[S] /\ S \in SUBSET S
  BY <1>1, Accumulable, SumUnfolds
<1>3. g[S] = IF S = {} THEN 0 ELSE v[FirstOf(S)] + g[RestOf(S)]
  BY <1>2, AccumulatesAt
<1>4. ASSUME S # {} PROVE g[RestOf(S)] = SumOf(v, RestOf(S))
  <2>1. PICK R, f, h : R = RestOf(S) /\ f = [s \in SUBSET R |-> g[s]] /\ h = Accumulated(v, R)
    OBVIOUS
  <2>2. R \in SUBSET S /\ IsFiniteSet(R)
    BY <1>4, <2>1, FirstAndRest, FS_Subset
  <2>3. Accumulates(f, v, R) /\ Accumulates(h, v, R)
    BY <1>2, <2>1, <2>2, AccumulatesWithin, Accumulable
  <2>4. f = h
    BY <2>2, <2>3, AccumulatesOnce
  <2> QED
    BY <2>1, <2>4, SumUnfolds
<1> QED
  BY <1>2, <1>3, <1>4

(* a sum of integers is one, *)
LEMMA SumType ==
    ASSUME NEW S, IsFiniteSet(S), NEW v, \A x \in S : v[x] \in Int
    PROVE  SumOf(v, S) \in Int
<1> DEFINE bad == {s \in SUBSET S : SumOf(v, s) \notin Int}
<1>1. ASSUME bad # {} PROVE FALSE
  <2>1. PICK s \in bad : \A t \in bad : t \subseteq s => t = s
    <3>1. bad \subseteq SUBSET S
      OBVIOUS
    <3> HIDE DEF bad
    <3> QED
      BY <1>1, <3>1, SmallestSet
  <2>2. s \in SUBSET S /\ IsFiniteSet(s) /\ SumOf(v, s) \notin Int
    BY FS_Subset
  <2>3. SumOf(v, s) = IF s = {} THEN 0 ELSE v[FirstOf(s)] + SumOf(v, RestOf(s))
    BY <2>2, SumStep
  <2>4. s # {} => v[FirstOf(s)] \in Int /\ SumOf(v, RestOf(s)) \in Int
    BY <2>1, <2>2, FirstAndRest
  <2> QED
    BY <2>2, <2>3, <2>4
<1> QED
  BY <1>1

(* and whichever element is taken out first. *)
LEMMA SumAdd ==
    ASSUME NEW S, IsFiniteSet(S), NEW v, \A x \in S : v[x] \in Int, NEW x \in S
    PROVE  SumOf(v, S) = v[x] + SumOf(v, S \ {x})
<1> DEFINE bad == {s \in SUBSET S : \E z \in s : SumOf(v, s) # v[z] + SumOf(v, s \ {z})}
<1>1. ASSUME bad # {} PROVE FALSE
  <2>1. PICK s \in bad : \A t \in bad : t \subseteq s => t = s
    <3>1. bad \subseteq SUBSET S
      OBVIOUS
    <3> HIDE DEF bad
    <3> QED
      BY <1>1, <3>1, SmallestSet
  <2>2. PICK z \in s : SumOf(v, s) # v[z] + SumOf(v, s \ {z})
    OBVIOUS
  <2>3. PICK y \in s : y = FirstOf(s) /\ RestOf(s) = s \ {y} /\ s \in SUBSET S /\ IsFiniteSet(s)
    BY FS_Subset, FirstAndRest DEF RestOf
  <2>4. SumOf(v, s) = v[y] + SumOf(v, s \ {y})
    BY <2>3, SumStep
  <2>5. y # z
    BY <2>2, <2>4
  <2>6. PICK t, u, w : t = s \ {y} /\ u = s \ {z} /\ w = s \ {y, z}
    OBVIOUS
  <2>7. /\ t \in SUBSET S /\ t # s /\ t \subseteq s /\ z \in t /\ t \ {z} = w /\ IsFiniteSet(t)
        /\ u \in SUBSET S /\ u # s /\ u \subseteq s /\ y \in u /\ u \ {y} = w /\ IsFiniteSet(u)
        /\ w \in SUBSET S /\ IsFiniteSet(w)
    BY <2>3, <2>5, <2>6, FS_Subset
  <2>8. t \notin bad /\ u \notin bad
    BY <2>1, <2>7
  <2>9. SumOf(v, t) = v[z] + SumOf(v, w) /\ SumOf(v, u) = v[y] + SumOf(v, w)
    BY <2>7, <2>8
  <2>10. v[y] \in Int /\ v[z] \in Int /\ SumOf(v, w) \in Int
    BY <2>3, <2>7, SumType
  <2> QED
    BY <2>2, <2>4, <2>6, <2>9, <2>10
<1> QED
  BY <1>1

(* Only the values that are summed count. *)
LEMMA SumSame ==
    ASSUME NEW S, IsFiniteSet(S), NEW v, NEW w, \A x \in S : v[x] = w[x]
    PROVE  SumOf(v, S) = SumOf(w, S)
<1> DEFINE bad == {s \in SUBSET S : SumOf(v, s) # SumOf(w, s)}
<1>1. ASSUME bad # {} PROVE FALSE
  <2>1. PICK s \in bad : \A t \in bad : t \subseteq s => t = s
    <3>1. bad \subseteq SUBSET S
      OBVIOUS
    <3> HIDE DEF bad
    <3> QED
      BY <1>1, <3>1, SmallestSet
  <2>2. s \in SUBSET S /\ IsFiniteSet(s) /\ SumOf(v, s) # SumOf(w, s)
    BY FS_Subset
  <2>3. /\ SumOf(v, s) = IF s = {} THEN 0 ELSE v[FirstOf(s)] + SumOf(v, RestOf(s))
        /\ SumOf(w, s) = IF s = {} THEN 0 ELSE w[FirstOf(s)] + SumOf(w, RestOf(s))
    BY <2>2, SumStep
  <2>4. s # {} => v[FirstOf(s)] = w[FirstOf(s)] /\ SumOf(v, RestOf(s)) = SumOf(w, RestOf(s))
    BY <2>1, <2>2, FirstAndRest
  <2> QED
    BY <2>2, <2>3, <2>4
<1> QED
  BY <1>1

(* The opposite of each value gives the opposite sum. *)
LEMMA SumOpposite ==
    ASSUME NEW S, IsFiniteSet(S), NEW v, NEW w, \A x \in S : w[x] \in Int /\ v[x] = 0 - w[x]
    PROVE  SumOf(v, S) = 0 - SumOf(w, S)
<1> DEFINE bad == {s \in SUBSET S : SumOf(v, s) # 0 - SumOf(w, s)}
<1>1. ASSUME bad # {} PROVE FALSE
  <2>1. PICK s \in bad : \A t \in bad : t \subseteq s => t = s
    <3>1. bad \subseteq SUBSET S
      OBVIOUS
    <3> HIDE DEF bad
    <3> QED
      BY <1>1, <3>1, SmallestSet
  <2>2. s \in SUBSET S /\ IsFiniteSet(s) /\ SumOf(v, s) # 0 - SumOf(w, s)
    BY FS_Subset
  <2>3. /\ SumOf(v, s) = IF s = {} THEN 0 ELSE v[FirstOf(s)] + SumOf(v, RestOf(s))
        /\ SumOf(w, s) = IF s = {} THEN 0 ELSE w[FirstOf(s)] + SumOf(w, RestOf(s))
    BY <2>2, SumStep
  <2>4. s # {} => /\ FirstOf(s) \in S /\ RestOf(s) \in SUBSET s /\ RestOf(s) # s
                  /\ SumOf(v, RestOf(s)) = 0 - SumOf(w, RestOf(s))
    BY <2>1, <2>2, FirstAndRest
  <2>5. s # {} => SumOf(w, RestOf(s)) \in Int
    <3>1. ASSUME s # {}
          PROVE  IsFiniteSet(RestOf(s)) /\ \A x \in RestOf(s) : w[x] \in Int
      BY <2>2, <2>4, <3>1, FS_Subset
    <3> QED
      BY <3>1, SumType
  <2> QED
    BY <2>2, <2>3, <2>4, <2>5
<1> QED
  BY <1>1
=============================================================================
