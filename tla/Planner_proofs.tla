----------------------------- MODULE Planner_proofs -----------------------------
(***************************************************************************)
(* What a plan may rely on, for any trees, tensors, sizes and              *)
(* configurations: a hook that is ready keeps its budgets, and what its     *)
(* modules compute with is on the device or brought there.                 *)
(*                                                                         *)
(* A sum of sizes is the number of its parts, so that the bounds are those *)
(* of finite sets.  A selection takes items in turn along an order in      *)
(* which of any two one is before the other; that there is exactly what it *)
(* takes, and that it fits, is shown with a smallest part of that order    *)
(* for which it is not so.  PlanInv carries the bounds from the phase that *)
(* decides them to the hook that is ready.                                 *)
(***************************************************************************)
EXTENDS WeightPlanner, TLAPS, FiniteSetTheorems, WellFoundedInduction

------------------------------------------------------------------------------
(* Sums of sizes.  What would be an induction on a set or a number takes a *)
(* smallest set, or a least number, of which the claim does not hold.      *)

(* Among subsets of a finite set there is one that contains no other.      *)
LEMMA SmallestSet ==
  ASSUME NEW F, IsFiniteSet(F), NEW C \in SUBSET (SUBSET F), C # {}
  PROVE  \E S \in C : \A T \in C : T \subseteq S => T = S
<1>1. IsWellFoundedOn(StrictSubsetOrdering(F), FiniteSubsetsOf(F)) BY FS_StrictSubsetOrderingWellFounded
<1>2. C \subseteq FiniteSubsetsOf(F) BY FS_Subset DEF FiniteSubsetsOf
<1>3. PICK S \in C : \A T \in C : ~ (<<T, S>> \in StrictSubsetOrdering(F)) BY <1>1, <1>2, WFMin
<1>4. ASSUME NEW T \in C, T \subseteq S PROVE T = S
  BY <1>3, <1>4 DEF StrictSubsetOrdering
<1> QED BY <1>4

(* Sets of numbers have a least element: intervals from 1 are ordered by   *)
(* inclusion as their upper ends are by size.                              *)
LEMMA LeastNumber ==
  ASSUME NEW T, T \subseteq Nat, T # {}
  PROVE  \E n \in T : \A m \in T : n <= m
<1>1. PICK k \in T : TRUE OBVIOUS
<1> DEFINE F == 1 .. k
           C == {1 .. n : n \in {m \in T : m <= k}}
<1>2. IsFiniteSet(F) BY FS_Interval
<1>3. C \in SUBSET (SUBSET F) /\ C # {}
  <2>1. 1 .. k \in C BY <1>1
  <2>2. \A n \in {m \in T : m <= k} : 1 .. n \subseteq 1 .. k BY <1>1
  <2> QED BY <2>1, <2>2
<1>4. PICK S \in C : \A U \in C : U \subseteq S => U = S
  <2> HIDE DEF C, F
  <2> QED BY <1>2, <1>3, SmallestSet
<1>5. PICK n \in T : n <= k /\ S = 1 .. n BY <1>4
<1>6. ASSUME NEW m \in T, m < n PROVE FALSE
  <2>1. m <= k /\ m \in Nat /\ n \in Nat /\ k \in Nat BY <1>5, <1>6
  <2>2. 1 .. m \in C BY <2>1
  <2>3. 1 .. m \subseteq S /\ n \in S /\ n \notin 1 .. m BY <1>5, <1>6, <2>1
  <2> QED BY <2>2, <2>3, <1>4
<1>7. \A m \in T : n <= m BY <1>6
<1> QED BY <1>7

------------------------------------------------------------------------------
(* The entries of two disjoint sets, and of one more.                      *)
LEMMA PackedTogether ==
  ASSUME NEW e, NEW K, NEW L, K \cap L = {},
         IsFiniteSet(PackedBytes(e, K)), IsFiniteSet(PackedBytes(e, L))
  PROVE  /\ IsFiniteSet(PackedBytes(e, K \cup L))
         /\ SizeOf(e, K \cup L) = SizeOf(e, K) + SizeOf(e, L)
<1>1. PackedBytes(e, K \cup L) = PackedBytes(e, K) \cup PackedBytes(e, L) BY DEF PackedBytes
<1>2. PackedBytes(e, K) \cap PackedBytes(e, L) = {} BY DEF PackedBytes
<1>3. Cardinality(PackedBytes(e, K)) \in Nat /\ Cardinality(PackedBytes(e, L)) \in Nat
  BY FS_CardinalityType
<1>4. Cardinality(PackedBytes(e, K) \cap PackedBytes(e, L)) = 0 BY <1>2, FS_EmptySet
<1>5. /\ IsFiniteSet(PackedBytes(e, K) \cup PackedBytes(e, L))
      /\ Cardinality(PackedBytes(e, K) \cup PackedBytes(e, L)) =
           Cardinality(PackedBytes(e, K)) + Cardinality(PackedBytes(e, L))
             - Cardinality(PackedBytes(e, K) \cap PackedBytes(e, L))
  BY FS_Union
<1>6. Cardinality(PackedBytes(e, K) \cup PackedBytes(e, L)) =
        Cardinality(PackedBytes(e, K)) + Cardinality(PackedBytes(e, L))
  BY <1>3, <1>4, <1>5
<1> QED BY <1>1, <1>5, <1>6 DEF SizeOf

(* One entry has as many bytes as its size says.                           *)
LEMMA PackedAlone ==
  ASSUME NEW e, NEW k, e[k].size \in Nat
  PROVE  IsFiniteSet(PackedBytes(e, {k})) /\ SizeOf(e, {k}) = e[k].size
<1>0. PICK z \in Nat : z = e[k].size OBVIOUS
<1>1. PackedBytes(e, {k}) = {k} \X (1 .. z) BY <1>0 DEF PackedBytes
<1>2. IsFiniteSet({k}) /\ Cardinality({k}) = 1 BY FS_Singleton
<1>3. IsFiniteSet(1 .. z) /\ Cardinality(1 .. z) = z BY FS_Interval
<1>4. IsFiniteSet({k} \X (1 .. z)) /\ Cardinality({k} \X (1 .. z)) = Cardinality({k}) * Cardinality(1 .. z)
  BY <1>2, <1>3, FS_Product
<1>5. Cardinality({k} \X (1 .. z)) = z
  <2> HIDE <1>0
  <2> QED BY <1>2, <1>3, <1>4
<1> QED BY <1>0, <1>1, <1>4, <1>5 DEF SizeOf

(* No entries have no bytes.                                               *)
LEMMA PackedNone ==
  ASSUME NEW e
  PROVE  IsFiniteSet(PackedBytes(e, {})) /\ SizeOf(e, {}) = 0
<1>1. PackedBytes(e, {}) = {} BY DEF PackedBytes
<1> QED BY <1>1, FS_EmptySet DEF SizeOf

(* Finitely many entries have a size.                                      *)
Sized(e, K) == IsFiniteSet(K) /\ \A k \in K : e[k].size \in Nat

LEMMA SizedPart ==
  ASSUME NEW e, NEW K, Sized(e, K), NEW L \in SUBSET K
  PROVE  Sized(e, L)
BY FS_Subset DEF Sized

(* Finitely many entries have finitely many bytes.                         *)
LEMMA PackedFinite ==
  ASSUME NEW e, NEW K, Sized(e, K)
  PROVE  IsFiniteSet(PackedBytes(e, K)) /\ SizeOf(e, K) \in Nat
<1> DEFINE C == {L \in SUBSET K : ~ IsFiniteSet(PackedBytes(e, L))}
<1>1. C = {}
  <2> SUFFICES ASSUME C # {} PROVE FALSE OBVIOUS
  <2>1. PICK L \in C : \A M \in C : M \subseteq L => M = L
    <3>1. IsFiniteSet(K) /\ C \in SUBSET (SUBSET K) BY DEF Sized
    <3> HIDE DEF C
    <3> QED BY <3>1, SmallestSet
  <2>2. PICK k \in L : TRUE BY <2>1, PackedNone
  <2>3. IsFiniteSet(PackedBytes(e, L \ {k})) BY <2>1, <2>2
  <2>4. IsFiniteSet(PackedBytes(e, {k})) BY <2>1, <2>2, PackedAlone DEF Sized
  <2>5. IsFiniteSet(PackedBytes(e, (L \ {k}) \cup {k})) BY <2>3, <2>4, PackedTogether
  <2>6. (L \ {k}) \cup {k} = L BY <2>2
  <2> QED BY <2>1, <2>5, <2>6
<1>2. IsFiniteSet(PackedBytes(e, K)) BY <1>1
<1> QED BY <1>2, FS_CardinalityType DEF SizeOf

(* The bytes of some entries and of the others are those of all.           *)
LEMMA PackedSum ==
  ASSUME NEW e, NEW K, Sized(e, K), NEW L \in SUBSET K
  PROVE  SizeOf(e, K) = SizeOf(e, L) + SizeOf(e, K \ L)
<1>1. Sized(e, L) /\ Sized(e, K \ L) BY SizedPart
<1>2. IsFiniteSet(PackedBytes(e, L)) /\ IsFiniteSet(PackedBytes(e, K \ L)) BY <1>1, PackedFinite
<1>3. L \cap (K \ L) = {} /\ L \cup (K \ L) = K OBVIOUS
<1> QED BY <1>2, <1>3, PackedTogether

(* More entries do not have fewer bytes.                                   *)
LEMMA PackedMore ==
  ASSUME NEW e, NEW K, Sized(e, K), NEW L \in SUBSET K
  PROVE  SizeOf(e, L) <= SizeOf(e, K)
<1>1. Sized(e, L) /\ Sized(e, K \ L) BY SizedPart
<1>2. SizeOf(e, L) \in Nat /\ SizeOf(e, K \ L) \in Nat BY <1>1, PackedFinite
<1> QED BY <1>2, PackedSum

LEMMA PackedOneMore ==
  ASSUME NEW e, NEW K, Sized(e, K), NEW k \in K
  PROVE  SizeOf(e, K) = SizeOf(e, K \ {k}) + e[k].size
<1>1. SizeOf(e, K) = SizeOf(e, {k}) + SizeOf(e, K \ {k}) BY PackedSum
<1>2. SizeOf(e, {k}) = e[k].size /\ e[k].size \in Nat BY PackedAlone DEF Sized
<1>3. Sized(e, K \ {k}) BY SizedPart
<1>4. SizeOf(e, K \ {k}) \in Nat BY <1>3, PackedFinite
<1> QED BY <1>1, <1>2, <1>4

(* Entries that are counted twice only make the sum of two sizes larger.   *)
LEMMA PackedEither ==
  ASSUME NEW e, NEW K, NEW L, Sized(e, K \cup L)
  PROVE  SizeOf(e, K \cup L) <= SizeOf(e, K) + SizeOf(e, L)
<1>1. Sized(e, K) /\ Sized(e, L) /\ Sized(e, L \ K) BY SizedPart
<1>2. SizeOf(e, K) \in Nat /\ SizeOf(e, L) \in Nat /\ SizeOf(e, L \ K) \in Nat BY <1>1, PackedFinite
<1>3. SizeOf(e, L \ K) <= SizeOf(e, L) BY <1>1, PackedMore
<1>4. SizeOf(e, K \cup L) = SizeOf(e, K) + SizeOf(e, L \ K)
  <2>1. (K \cup L) \ K = L \ K /\ K \in SUBSET (K \cup L) OBVIOUS
  <2> QED BY <2>1, PackedSum
<1> QED BY <1>2, <1>3, <1>4

(* The same sizes make the same sum.                                       *)
LEMMA PackedSame ==
  ASSUME NEW e, NEW d, NEW K, \A k \in K : e[k].size = d[k].size
  PROVE  SizeOf(e, K) = SizeOf(d, K)
<1>1. PackedBytes(e, K) = PackedBytes(d, K) BY DEF PackedBytes
<1> QED BY <1>1 DEF SizeOf

(* Entries of several names count for each of them.                        *)
LEMMA PackedImage ==
  ASSUME NEW e, NEW K, Sized(e, K), NEW d, NEW f, \A k \in K : d[f[k]].size = e[k].size
  PROVE  SizeOf(d, {f[k] : k \in K}) <= SizeOf(e, K)
<1> DEFINE B == PackedBytes(e, K)
           I == PackedBytes(d, {f[k] : k \in K})
           g == [b \in B |-> <<f[b[1]], b[2]>>]
<1>1. \A b \in B : b[1] \in K /\ b[2] \in 1 .. e[b[1]].size /\ b = <<b[1], b[2]>> BY DEF PackedBytes
<1>2. \A b \in B : <<f[b[1]], b[2]>> \in I
  <2> TAKE b \in B
  <2>1. b[1] \in K /\ b[2] \in 1 .. d[f[b[1]]].size BY <1>1
  <2> QED BY <2>1 DEF PackedBytes
<1>3. \A i \in I : \E b \in B : <<f[b[1]], b[2]>> = i
  <2> TAKE i \in I
  <2>1. PICK x \in {f[k] : k \in K} : i \in {x} \X (1 .. d[x].size) BY DEF PackedBytes
  <2>2. PICK k \in K : x = f[k] BY <2>1
  <2>3. i = <<f[k], i[2]>> /\ i[2] \in 1 .. e[k].size BY <2>1, <2>2
  <2>4. <<k, i[2]>> \in B BY <2>3 DEF PackedBytes
  <2> QED BY <2>3, <2>4
<1>4. g \in Surjection(B, I)
  <2> HIDE DEF B, I
  <2> QED BY <1>2, <1>3 DEF Surjection
<1>5. IsFiniteSet(B) BY PackedFinite
<1>6. Cardinality(I) <= Cardinality(B)
  <2> HIDE DEF B, I, g
  <2> QED BY <1>4, <1>5, FS_Surjection
<1> QED BY <1>6 DEF SizeOf

(* What several sets have together is not more than what they have.        *)
LEMMA PackedUnion ==
  ASSUME NEW d, NEW U, Sized(d, U), NEW T, NEW K, \A x : x \in U <=> \E k \in K : x \in T[k],
         NEW e, Sized(e, K), \A k \in K : e[k].size = SizeOf(d, T[k])
  PROVE  SizeOf(d, U) <= SizeOf(e, K)
<1> DEFINE All(L) == UNION {T[k] : k \in L}
           C == {L \in SUBSET K : ~ (SizeOf(d, All(L)) <= SizeOf(e, L))}
<1>1. C = {}
  <2> SUFFICES ASSUME C # {} PROVE FALSE OBVIOUS
  <2>1. PICK L \in C : \A M \in C : M \subseteq L => M = L
    <3>1. IsFiniteSet(K) /\ C \in SUBSET (SUBSET K) BY DEF Sized
    <3> HIDE DEF C
    <3> QED BY <3>1, SmallestSet
  <2>2. L # {}
    <3>1. SizeOf(d, {}) = 0 /\ SizeOf(e, {}) = 0 /\ All({}) = {} BY PackedNone
    <3>2. SizeOf(d, All({})) <= SizeOf(e, {})
      <4> HIDE DEF All
      <4> QED BY <3>1
    <3> QED BY <2>1, <3>2
  <2>3. PICK k \in L : TRUE BY <2>2
  <2>4. SizeOf(d, All(L \ {k})) <= SizeOf(e, L \ {k}) BY <2>1, <2>3
  <2>5. All(L) = All(L \ {k}) \cup T[k] BY <2>3
  <2>6. Sized(d, All(L)) /\ Sized(d, All(L \ {k})) /\ Sized(d, T[k])
    <3>1. All(L) \in SUBSET All(K) /\ All(L \ {k}) \in SUBSET All(K) /\ T[k] \in SUBSET All(K) BY <2>1, <2>3
    <3>2. All(K) = U OBVIOUS
    <3> HIDE DEF All
    <3> QED BY <3>1, <3>2, SizedPart
  <2>7. SizeOf(d, All(L)) <= SizeOf(d, All(L \ {k})) + SizeOf(d, T[k])
    <3> HIDE DEF All
    <3> QED BY <2>5, <2>6, PackedEither
  <2>8. SizeOf(e, L) = SizeOf(e, L \ {k}) + SizeOf(d, T[k])
    <3>1. Sized(e, L) /\ k \in L /\ k \in K BY <2>1, <2>3, SizedPart
    <3> QED BY <3>1, PackedOneMore
  <2>9. /\ SizeOf(d, All(L)) \in Nat /\ SizeOf(d, All(L \ {k})) \in Nat /\ SizeOf(d, T[k]) \in Nat
        /\ SizeOf(e, L) \in Nat /\ SizeOf(e, L \ {k}) \in Nat
    <3>1. Sized(e, L) /\ Sized(e, L \ {k}) BY <2>1, SizedPart
    <3> HIDE DEF All
    <3> QED BY <2>6, <3>1, PackedFinite
  <2>10. SizeOf(d, All(L)) <= SizeOf(e, L)
    <3> HIDE DEF All
    <3> QED BY <2>4, <2>7, <2>8, <2>9
  <2> QED BY <2>1, <2>10
<1>2. All(K) = U OBVIOUS
<1>3. SizeOf(d, All(K)) <= SizeOf(e, K) BY <1>1
<1> QED BY <1>2, <1>3

------------------------------------------------------------------------------
(* Orders and selections *)

(* Of any two items one is before the other.                               *)
InLine(order, K) ==
  /\ order \subseteq K \X K
  /\ \A x \in K : <<x, x>> \notin order
  /\ \A x, y \in K : x = y \/ <<x, y>> \in order \/ <<y, x>> \in order
  /\ \A x, y, z \in K : <<x, y>> \in order /\ <<y, z>> \in order => <<x, z>> \in order

(* What an order has before an entry.                                      *)
LEMMA AheadIs ==
  ASSUME NEW K, NEW order, order \subseteq K \X K, NEW k
  PROVE  Ahead(order, k) = {x \in K : <<x, k>> \in order}
<1>1. \A q \in order : q = <<q[1], q[2]>> /\ q[1] \in K OBVIOUS
<1>2. ASSUME NEW x \in Ahead(order, k) PROVE x \in K /\ <<x, k>> \in order
  <2>1. PICK q \in order : q[2] = k /\ x = q[1] BY DEF Ahead
  <2> QED BY <1>1, <2>1
<1>3. ASSUME NEW x \in K, <<x, k>> \in order PROVE x \in Ahead(order, k)
  <2>1. <<x, k>>[2] = k /\ <<x, k>>[1] = x OBVIOUS
  <2> QED BY <1>3, <2>1 DEF Ahead
<1> QED BY <1>2, <1>3

(* One of finitely many comes last.                                        *)
LEMMA LastInLine ==
  ASSUME NEW K, NEW order, InLine(order, K), NEW D \in SUBSET K, IsFiniteSet(D), D # {}
  PROVE  \E m \in D : \A k \in D : k = m \/ <<k, m>> \in order
<1> DEFINE After(k) == {j \in D : <<k, j>> \in order}
           C == {After(k) : k \in D}
<1>1. PICK S \in C : \A T \in C : T \subseteq S => T = S
  <2>1. C \in SUBSET (SUBSET D) /\ C # {} OBVIOUS
  <2> HIDE DEF C
  <2> QED BY <2>1, SmallestSet
<1>2. PICK m \in D : S = After(m) BY <1>1
<1>3. ASSUME NEW j \in After(m) PROVE FALSE
  <2>1. j \in D /\ j \in K /\ m \in K /\ <<m, j>> \in order BY <1>3
  <2>2. After(j) \subseteq After(m)
    <3> SUFFICES ASSUME NEW i \in After(j) PROVE i \in After(m) OBVIOUS
    <3>1. i \in K /\ i \in D /\ <<j, i>> \in order OBVIOUS
    <3> QED BY <2>1, <3>1 DEF InLine
  <2>3. j \notin After(j) BY <2>1 DEF InLine
  <2>4. After(j) \in C BY <2>1
  <2> QED BY <1>1, <1>2, <1>3, <2>2, <2>3, <2>4
<1>4. \A k \in D : k = m \/ <<k, m>> \in order BY <1>3 DEF InLine
<1> QED BY <1>4

(* Items can be taken in turn: what is taken of a first part of the line   *)
(* does not depend on the rest.                                            *)
TakenOf(items, order, limit, E, S) ==
  \A k \in E : k \in S <=> Fits(SizeOf(items, S \cap Ahead(order, k)), items[k].size, limit)

(* Taking items in turn has a result, whatever the order and the limit are.*)
LEMMA FirstFitExists ==
  ASSUME NEW items, NEW K, NEW order, NEW limit, InLine(order, K),
         IsFiniteSet(DOMAIN items), DOMAIN items \subseteq K
  PROVE  \E S \in SUBSET DOMAIN items : TakenOf(items, order, limit, DOMAIN items, S)
<1> DEFINE D == DOMAIN items
           FirstPart(E) == \A k \in E : D \cap Ahead(order, k) \subseteq E
           C == {E \in SUBSET D : FirstPart(E) /\ \A S \in SUBSET E : ~ TakenOf(items, order, limit, E, S)}
<1> SUFFICES C = {}
  <2>1. FirstPart(D) OBVIOUS
  <2> QED BY <2>1
<1> SUFFICES ASSUME C # {} PROVE FALSE OBVIOUS
<1>1. PICK E \in C : \A F \in C : F \subseteq E => F = E
  <2>1. C \in SUBSET (SUBSET D) /\ IsFiniteSet(D) OBVIOUS
  <2> HIDE DEF C, D
  <2> QED BY <2>1, SmallestSet
<1>2. E # {} BY <1>1 DEF TakenOf
<1>3. PICK m \in E : \A k \in E : k = m \/ <<k, m>> \in order
  <2>1. E \in SUBSET K /\ IsFiniteSet(E) BY <1>1, FS_Subset
  <2> QED BY <1>2, <2>1, LastInLine
<1>4. \A k \in E : m \notin Ahead(order, k)
  <2> SUFFICES ASSUME NEW k \in E, m \in Ahead(order, k) PROVE FALSE OBVIOUS
  <2>1. k \in K /\ m \in K BY <1>1, <1>3
  <2>2. <<m, k>> \in order BY AheadIs DEF InLine
  <2> QED BY <1>3, <2>1, <2>2 DEF InLine
<1>5. PICK S \in SUBSET (E \ {m}) : TakenOf(items, order, limit, E \ {m}, S)
  <2>1. E \ {m} \in SUBSET D /\ E \ {m} # E BY <1>1, <1>3
  <2>2. FirstPart(E \ {m}) BY <1>1, <1>4
  <2>3. E \ {m} \notin C BY <1>1, <2>1
  <2> QED BY <2>1, <2>2, <2>3
<1> DEFINE Full == Fits(SizeOf(items, S \cap Ahead(order, m)), items[m].size, limit)
           R == IF Full THEN S \cup {m} ELSE S
<1>6. \A k \in E : R \cap Ahead(order, k) = S \cap Ahead(order, k) BY <1>4
<1>7. \A k \in E \ {m} : k \in R <=> k \in S OBVIOUS
<1>8. m \in R <=> Full BY <1>5
<1>9. TakenOf(items, order, limit, E, R)
  <2> SUFFICES ASSUME NEW k \in E
               PROVE  k \in R <=> Fits(SizeOf(items, R \cap Ahead(order, k)), items[k].size, limit)
    BY DEF TakenOf
  <2>1. R \cap Ahead(order, k) = S \cap Ahead(order, k) BY <1>6
  <2>2. CASE k = m BY <1>8, <2>1, <2>2
  <2>3. CASE k # m BY <1>5, <1>7, <2>1, <2>3 DEF TakenOf
  <2> QED BY <2>2, <2>3
<1>10. R \in SUBSET E BY <1>3, <1>5
<1> QED BY <1>1, <1>9, <1>10

(* What is taken fits, and whatever else is there would not.               *)
LEMMA FirstFitFits ==
  ASSUME NEW items, NEW K, NEW order, NEW limit \in Nat, InLine(order, K),
         Sized(items, DOMAIN items), DOMAIN items \subseteq K
  PROVE  /\ FirstFit(items, order, limit) \subseteq DOMAIN items
         /\ SizeOf(items, FirstFit(items, order, limit)) <= limit
         /\ \A k \in DOMAIN items \ FirstFit(items, order, limit) :
              SizeOf(items, FirstFit(items, order, limit)) + items[k].size > limit
<1> DEFINE D == DOMAIN items
           S == FirstFit(items, order, limit)
<1>1. S \in SUBSET D /\ TakenOf(items, order, limit, D, S)
  <2>1. \E T \in SUBSET D : TakenOf(items, order, limit, D, T) BY FirstFitExists DEF Sized
  <2> QED BY <2>1 DEF TakenOf, FirstFit
<1>a. \A T \in SUBSET D : Sized(items, T) /\ SizeOf(items, T) \in Nat BY SizedPart, PackedFinite
<1>b. \A k \in D : items[k].size \in Nat BY DEF Sized
<1> HIDE DEF S
<1>2. SizeOf(items, S) <= limit
  <2>1. CASE S = {} BY <2>1, PackedNone
  <2>2. CASE S # {}
    <3>1. IsFiniteSet(S) /\ S \in SUBSET K BY <1>1, FS_Subset DEF Sized
    <3>2. PICK m \in S : \A k \in S : k = m \/ <<k, m>> \in order BY <2>2, <3>1, LastInLine
    <3>3. Ahead(order, m) = {x \in K : <<x, m>> \in order} BY AheadIs DEF InLine
    <3>4. m \in K /\ <<m, m>> \notin order BY <3>1, <3>2 DEF InLine
    <3>5. S \cap Ahead(order, m) = S \ {m} BY <3>1, <3>2, <3>3, <3>4
    <3>6. SizeOf(items, S \ {m}) + items[m].size <= limit BY <1>1, <3>2, <3>5 DEF TakenOf, Fits
    <3> QED BY <1>1, <1>a, <3>2, <3>6, PackedOneMore
  <2> QED BY <2>1, <2>2
<1>3. ASSUME NEW k \in D \ S PROVE SizeOf(items, S) + items[k].size > limit
  <2>1. ~ (SizeOf(items, S \cap Ahead(order, k)) + items[k].size <= limit) BY <1>1, <1>3 DEF TakenOf, Fits
  <2>2. SizeOf(items, S \cap Ahead(order, k)) <= SizeOf(items, S) BY <1>1, <1>a, PackedMore
  <2>3. SizeOf(items, S \cap Ahead(order, k)) \in Nat /\ SizeOf(items, S) \in Nat /\ items[k].size \in Nat
    BY <1>1, <1>3, <1>a, <1>b
  <2> QED BY <2>1, <2>2, <2>3
<1> QED BY <1>1, <1>2, <1>3 DEF S

(* The three orders.                                                       *)
Orders == {"first", "spread", "largest"}

(* Each of the three orders of a selection puts one of any two items first.*)
LEMMA OrderedInLine ==
  ASSUME NEW items, NEW order, InLine(order, DOMAIN items), NEW limit, NEW selection \in Orders,
         \A k \in DOMAIN items : items[k].size \in Nat
  PROVE  InLine(Ordered(items, order, limit, selection), DOMAIN items)
<1> DEFINE D == DOMAIN items
           F == SpreadFirst(items, order, limit)
           Spread == {p \in D \X D : \/ p[1] \in F /\ p[2] \notin F
                                     \/ (p[1] \in F) = (p[2] \in F) /\ p \in order}
           Larger == {p \in D \X D : \/ items[p[1]].size > items[p[2]].size
                                     \/ items[p[1]].size = items[p[2]].size /\ p \in order}
<1>1. InLine(Spread, D)
  <2> HIDE DEF F
  <2>1. \A x, y \in D : <<x, y>> \in Spread <=> \/ x \in F /\ y \notin F
                                                \/ (x \in F) = (y \in F) /\ <<x, y>> \in order
    OBVIOUS
  <2>2. Spread \subseteq D \X D OBVIOUS
  <2> HIDE DEF Spread
  <2> QED BY <2>1, <2>2 DEF InLine
<1>2. InLine(Larger, D)
  <2>1. \A x, y \in D : <<x, y>> \in Larger <=> \/ items[x].size > items[y].size
                                                \/ items[x].size = items[y].size /\ <<x, y>> \in order
    OBVIOUS
  <2>2. Larger \subseteq D \X D OBVIOUS
  <2> HIDE DEF Larger
  <2> QED BY <2>1, <2>2 DEF InLine
<1>3. CASE selection = "first" BY <1>3 DEF Ordered
<1>4. CASE selection = "spread"
  <2>1. Ordered(items, order, limit, selection) = Spread BY <1>4 DEF Ordered
  <2> QED BY <1>1, <2>1
<1>5. CASE selection = "largest"
  <2>1. Ordered(items, order, limit, selection) = Larger BY <1>5 DEF Ordered
  <2> QED BY <1>2, <2>1
<1> QED BY <1>3, <1>4, <1>5 DEF Orders

(* So does the order of the tree,                                          *)
LEMMA TreeInLine ==
  ASSUME NEW K \in SUBSET Nat
  PROVE  InLine(InTree(K), K)
<1>1. \A x, y \in K : <<x, y>> \in InTree(K) <=> x < y BY DEF InTree
<1>2. InTree(K) \subseteq K \X K /\ \A x \in K : x \in Nat BY DEF InTree
<1> QED BY <1>1, <1>2 DEF InLine

(* and that of the places of tensors.                                      *)
LEMMA ModulesInLine ==
  ASSUME NEW K \in SUBSET (Nat \X Nat)
  PROVE  InLine(InModules(K), K)
<1>1. \A x, y \in K : <<x, y>> \in InModules(K) <=> x[1] < y[1] \/ (x[1] = y[1] /\ x[2] < y[2])
  BY DEF InModules
<1>2. InModules(K) \subseteq K \X K BY DEF InModules
<1>3. \A x \in K : x[1] \in Nat /\ x[2] \in Nat /\ x = <<x[1], x[2]>> OBVIOUS
<1>4. \A x \in K : <<x, x>> \notin InModules(K) BY <1>1, <1>3
<1>5. \A x, y \in K : x = y \/ <<x, y>> \in InModules(K) \/ <<y, x>> \in InModules(K)
  <2> SUFFICES ASSUME NEW x \in K, NEW y \in K, x # y PROVE <<x, y>> \in InModules(K) \/ <<y, x>> \in InModules(K)
    OBVIOUS
  <2>1. x[1] # y[1] \/ x[2] # y[2] BY <1>3
  <2> QED BY <1>1, <1>3, <2>1
<1>6. \A x, y, z \in K : <<x, y>> \in InModules(K) /\ <<y, z>> \in InModules(K) => <<x, z>> \in InModules(K)
  BY <1>1, <1>3
<1> QED BY <1>2, <1>4, <1>5, <1>6 DEF InLine

------------------------------------------------------------------------------
(* Numbers of bytes *)

LEMMA LeastOfSet ==
  ASSUME NEW T, T \subseteq Nat, T # {}
  PROVE  Min(T) \in T /\ \A x \in T : Min(T) <= x
BY LeastNumber DEF Min

LEMMA LeastOfTwo ==
  ASSUME NEW a \in Nat, NEW b \in Nat
  PROVE  Min({a, b}) \in Nat /\ Min({a, b}) = IF a <= b THEN a ELSE b
<1>1. Min({a, b}) \in {a, b} /\ \A x \in {a, b} : Min({a, b}) <= x
  <2>1. {a, b} \subseteq Nat /\ {a, b} # {} OBVIOUS
  <2> QED BY <2>1, LeastOfSet
<1> QED BY <1>1

LEMMA MostOfTwo ==
  ASSUME NEW a \in Int, NEW b \in Int
  PROVE  Max({a, b}) \in Int /\ Max({a, b}) = IF a >= b THEN a ELSE b
<1>1. \E x \in {a, b} : \A y \in {a, b} : x >= y OBVIOUS
<1>2. Max({a, b}) \in {a, b} /\ \A y \in {a, b} : Max({a, b}) >= y BY <1>1 DEF Max
<1> QED BY <1>2

LEMMA AmountsAre ==
  ASSUME NEW c \in Configs \cup Reconfigs
  PROVE  /\ c.resident \in Nat /\ c.maxResident \in Nat /\ c.requested \in Nat /\ c.pinBudget \in Nat
         /\ c.pinRatio \in Nat /\ c.maxPin \in Nat /\ c.ram \in Nat /\ c.ramHeadroom \in Nat
         /\ c.vram \in Nat /\ c.vramHeadroom \in Nat /\ c.fullPinRatio \in Nat
         /\ c.mode \in {"linear", "sdnq"} /\ c.profile \in BOOLEAN
         /\ c.residentOrder \in Orders /\ c.pinOrder \in Orders
BY PlannerAssumption DEF ConfigAssumption, Amounts, Orders

(* The state of the hook, as far as the sizes depend on it.                *)
Known == tree \in Trees /\ cfg \in Configs \cup Reconfigs

LEMMA TreeIs ==
  ASSUME Known
  PROVE  /\ Modules = 1 .. Len(tree) /\ Len(tree) \in Nat /\ IsFiniteSet(Modules) /\ Modules \subseteq Nat
         /\ \A i \in Modules :
              /\ tree[i].kind \in Kinds /\ tree[i].tensors \in Seq(LargeTensor)
              /\ tree[i].kind \in {"linear", "embedding", "conv"} => Len(tree[i].tensors) = 1
              /\ tree[i].inside \subseteq 1 .. i - 1
              /\ \A j \in tree[i].inside : tree[j].inside \subseteq tree[i].inside
<1>1. tree = [i \in 1 .. Len(tree) |-> tree[i]] /\ Len(tree) \in Nat
  BY PlannerAssumption DEF Known, TreeAssumption
<1>2. Modules = 1 .. Len(tree) BY <1>1 DEF Modules
<1>3. IsFiniteSet(Modules) /\ Modules \subseteq Nat BY <1>1, <1>2, FS_Interval
<1> QED BY <1>1, <1>2, <1>3, PlannerAssumption DEF Known, TreeAssumption

(* Tensors of modules are large tensors, and weights are among them.       *)
LEMMA TensorsAre ==
  ASSUME Known, NEW i \in Modules
  PROVE  /\ TensorsAt(i) \subseteq LargeTensor /\ TensorsIn(i) \subseteq LargeTensor
         /\ TensorsAt(i) \subseteq TensorsIn(i)
         /\ \A r \in tree[i].inside : TensorsAt(i) \subseteq TensorsIn(r)
<1>1. \A j \in Modules : TensorsAt(j) \subseteq LargeTensor
  <2> SUFFICES ASSUME NEW j \in Modules PROVE TensorsAt(j) \subseteq LargeTensor OBVIOUS
  <2>1. tree[j].tensors \in Seq(LargeTensor) BY TreeIs
  <2> QED BY <2>1 DEF TensorsAt, ToSet
<1>2. TensorsIn(i) \subseteq LargeTensor BY <1>1 DEF TensorsIn
<1>3. TensorsAt(i) \subseteq TensorsIn(i) BY DEF TensorsIn
<1>4. \A r \in tree[i].inside : TensorsAt(i) \subseteq TensorsIn(r) BY DEF TensorsIn
<1> QED BY <1>1, <1>2, <1>3, <1>4

(* A module that can be streamed has a weight.                             *)
LEMMA WeightsAre ==
  ASSUME Known, NEW i \in Modules, Dense(i)
  PROVE  WeightOf(i) \in TensorsAt(i) /\ WeightOf(i) \in LargeTensor
<1>1. tree[i].tensors \in Seq(LargeTensor) /\ Len(tree[i].tensors) = 1 BY TreeIs DEF Dense
<1>2. tree[i].tensors[1] \in ToSet(tree[i].tensors) BY <1>1 DEF ToSet
<1> QED BY <1>2, TensorsAre DEF WeightOf, TensorsAt

(* Tensors have a number of bytes.                                         *)
LEMMA BytesAre ==
  ASSUME NEW T \in SUBSET LargeTensor
  PROVE  Sized(TensorItems, T) /\ BytesIn(T) \in Nat
<1>1. IsFiniteSet(LargeTensor) /\ TensorBytes \in [LargeTensor -> Nat] BY PlannerAssumption
<1>2. Sized(TensorItems, LargeTensor) BY <1>1 DEF Sized, TensorItems
<1>3. Sized(TensorItems, T) BY <1>2, SizedPart
<1> QED BY <1>3, PackedFinite DEF BytesIn

LEMMA BytesGrow ==
  ASSUME NEW T \in SUBSET LargeTensor, NEW U \in SUBSET T
  PROVE  BytesIn(U) <= BytesIn(T)
BY BytesAre, PackedMore DEF BytesIn

LEMMA BytesEither ==
  ASSUME NEW T \in SUBSET LargeTensor, NEW U \in SUBSET LargeTensor
  PROVE  BytesIn(T \cup U) <= BytesIn(T) + BytesIn(U)
<1>1. T \cup U \in SUBSET LargeTensor OBVIOUS
<1> QED BY <1>1, BytesAre, PackedEither DEF BytesIn

(* Bytes of candidates that are modules.                                   *)
LEMMA ModuleItemsSized ==
  ASSUME Known, NEW K \in SUBSET Modules
  PROVE  /\ DOMAIN ModuleItems(K) = K /\ Sized(ModuleItems(K), K) /\ Total(ModuleItems(K)) \in Nat
         /\ \A i \in K : ModuleItems(K)[i].size = ModuleBytes(i)
         /\ \A L \in SUBSET K : SizeOf(ModuleItems(K), L) = Total(ModuleItems(L))
<1>1. IsFiniteSet(K) BY TreeIs, FS_Subset
<1>2. \A i \in K : ModuleBytes(i) \in Nat BY TensorsAre, BytesAre DEF ModuleBytes
<1>3. DOMAIN ModuleItems(K) = K /\ \A i \in K : ModuleItems(K)[i].size = ModuleBytes(i) BY DEF ModuleItems
<1>4. Sized(ModuleItems(K), K) BY <1>1, <1>2, <1>3 DEF Sized
<1>5. Total(ModuleItems(K)) \in Nat BY <1>3, <1>4, PackedFinite DEF Total
<1>6. ASSUME NEW L \in SUBSET K PROVE SizeOf(ModuleItems(K), L) = Total(ModuleItems(L))
  <2>1. DOMAIN ModuleItems(L) = L BY DEF ModuleItems
  <2>2. \A i \in L : ModuleItems(K)[i].size = ModuleItems(L)[i].size BY DEF ModuleItems
  <2> QED BY <2>1, <2>2, PackedSame DEF Total
<1> QED BY <1>3, <1>4, <1>5, <1>6

(* Modules together do not have more bytes than each of them.              *)
LEMMA ModuleBytesCover ==
  ASSUME Known, NEW K \in SUBSET Modules
  PROVE  BytesIn(UNION {TensorsIn(i) : i \in K}) <= Total(ModuleItems(K))
<1> DEFINE T == [i \in K |-> TensorsIn(i)]
           U == UNION {TensorsIn(i) : i \in K}
<1>1. \A x : x \in U <=> \E i \in K : x \in T[i] OBVIOUS
<1>2. U \in SUBSET LargeTensor BY TensorsAre
<1>3. Sized(TensorItems, U)
  <2> HIDE DEF U
  <2> QED BY <1>2, BytesAre
<1>4. \A i \in K : ModuleItems(K)[i].size = SizeOf(TensorItems, T[i])
  BY ModuleItemsSized DEF ModuleBytes, BytesIn
<1>5. Sized(ModuleItems(K), K) /\ DOMAIN ModuleItems(K) = K BY ModuleItemsSized
<1>6. SizeOf(TensorItems, U) <= SizeOf(ModuleItems(K), K)
  <2> HIDE DEF T, U
  <2> QED BY <1>1, <1>3, <1>4, <1>5, PackedUnion
<1> QED BY <1>5, <1>6 DEF BytesIn, Total

(* Bytes of candidates that are weights: not fewer than those of the       *)
(* tensors, of which two candidates may share one.                         *)
LEMMA WeightItemsSized ==
  ASSUME Known, NEW K \in SUBSET Modules, \A i \in K : WeightOf(i) \in LargeTensor
  PROVE  /\ DOMAIN WeightItems(K) = K /\ Sized(WeightItems(K), K) /\ Total(WeightItems(K)) \in Nat
         /\ \A L \in SUBSET K : /\ SizeOf(WeightItems(K), L) = Total(WeightItems(L))
                                /\ BytesIn({WeightOf(i) : i \in L}) <= Total(WeightItems(L))
<1>1. IsFiniteSet(K) BY TreeIs, FS_Subset
<1>2. \A i \in K : TensorBytes[WeightOf(i)] \in Nat BY PlannerAssumption
<1>3. DOMAIN WeightItems(K) = K /\ \A i \in K : WeightItems(K)[i].size = TensorBytes[WeightOf(i)] BY DEF WeightItems
<1>4. Sized(WeightItems(K), K) BY <1>1, <1>2, <1>3 DEF Sized
<1>5. Total(WeightItems(K)) \in Nat BY <1>3, <1>4, PackedFinite DEF Total
<1>6. ASSUME NEW L \in SUBSET K
      PROVE  /\ SizeOf(WeightItems(K), L) = Total(WeightItems(L))
             /\ BytesIn({WeightOf(i) : i \in L}) <= Total(WeightItems(L))
  <2>1. DOMAIN WeightItems(L) = L BY DEF WeightItems
  <2>2. \A i \in L : WeightItems(K)[i].size = WeightItems(L)[i].size BY DEF WeightItems
  <2>3. SizeOf(WeightItems(K), L) = Total(WeightItems(L)) BY <2>1, <2>2, PackedSame DEF Total
  <2> DEFINE f == [i \in L |-> WeightOf(i)]
  <2>4. \A i \in L : TensorItems[f[i]].size = WeightItems(K)[i].size BY DEF TensorItems, WeightItems
  <2>5. {WeightOf(i) : i \in L} = {f[i] : i \in L} OBVIOUS
  <2>6. Sized(WeightItems(K), L) BY <1>4, SizedPart
  <2>7. SizeOf(TensorItems, {f[i] : i \in L}) <= SizeOf(WeightItems(K), L)
    <3> HIDE DEF f
    <3> QED BY <2>4, <2>6, PackedImage
  <2> QED BY <2>3, <2>5, <2>7 DEF BytesIn
<1> QED BY <1>3, <1>4, <1>5, <1>6

(* Packed parameters are found at places of the tree.                      *)
LEMMA PackedAre ==
  ASSUME Known
  PROVE  /\ Packed \subseteq Nat \X Nat /\ IsFiniteSet(Packed)
         /\ \A p \in Packed : /\ p[1] \in PackedLayers /\ p[1] \in Modules
                              /\ TensorThere(p) \in TensorsAt(p[1]) /\ TensorThere(p) \in LargeTensor
<1>1. \A p \in PackedPlaces : /\ p[1] \in PackedLayers /\ p[1] \in Modules /\ p = <<p[1], p[2]>>
                              /\ p[2] \in DOMAIN tree[p[1]].tensors
  BY DEF PackedPlaces, PackedLayers
<1>2. ASSUME NEW p \in PackedPlaces
      PROVE  p \in Nat \X Nat /\ TensorThere(p) \in TensorsAt(p[1]) /\ TensorThere(p) \in LargeTensor
  <2>1. tree[p[1]].tensors \in Seq(LargeTensor) BY <1>1, TreeIs
  <2>2. p[2] \in 1 .. Len(tree[p[1]].tensors) BY <1>1, <2>1
  <2>3. p[1] \in Nat /\ p[2] \in Nat BY <1>1, <2>1, <2>2, TreeIs
  <2>4. TensorThere(p) \in TensorsAt(p[1]) BY <2>1, <2>2 DEF TensorThere, TensorsAt, ToSet
  <2> QED BY <1>1, <2>1, <2>2, <2>3, <2>4 DEF TensorThere
<1>3. IsFiniteSet(PackedPlaces)
  <2> DEFINE size == [i \in PackedLayers |-> [size |-> Len(tree[i].tensors)]]
  <2>1. PackedLayers \in SUBSET Modules BY DEF PackedLayers
  <2>2. IsFiniteSet(PackedLayers) BY <2>1, TreeIs, FS_Subset
  <2>3. \A i \in PackedLayers : size[i].size \in Nat /\ DOMAIN tree[i].tensors = 1 .. size[i].size
    <3> SUFFICES ASSUME NEW i \in PackedLayers
                 PROVE  Len(tree[i].tensors) \in Nat /\ DOMAIN tree[i].tensors = 1 .. Len(tree[i].tensors)
      OBVIOUS
    <3>1. tree[i].tensors \in Seq(LargeTensor) BY <2>1, TreeIs
    <3> QED BY <3>1
  <2>4. PackedPlaces = PackedBytes(size, PackedLayers)
    <3> HIDE DEF size
    <3> QED BY <2>3 DEF PackedPlaces, PackedBytes
  <2>5. Sized(size, PackedLayers) BY <2>2, <2>3 DEF Sized
  <2> HIDE DEF size
  <2> QED BY <2>4, <2>5, PackedFinite
<1>4. Packed \in SUBSET PackedPlaces BY DEF Packed
<1> QED BY <1>1, <1>2, <1>3, <1>4, FS_Subset

(* Bytes of candidates that are packed parameters.                         *)
LEMMA PackedItemsSized ==
  ASSUME Known, NEW K \in SUBSET Packed
  PROVE  /\ DOMAIN PackedItems(K) = K /\ Sized(PackedItems(K), K) /\ Total(PackedItems(K)) \in Nat
         /\ \A L \in SUBSET K : BytesIn({TensorThere(p) : p \in L}) <= SizeOf(PackedItems(K), L)
<1>1. IsFiniteSet(K) BY PackedAre, FS_Subset
<1>2. \A p \in K : TensorBytes[TensorThere(p)] \in Nat BY PackedAre, PlannerAssumption
<1>3. DOMAIN PackedItems(K) = K /\ \A p \in K : PackedItems(K)[p].size = TensorBytes[TensorThere(p)] BY DEF PackedItems
<1>4. Sized(PackedItems(K), K) BY <1>1, <1>2, <1>3 DEF Sized
<1>5. Total(PackedItems(K)) \in Nat BY <1>3, <1>4, PackedFinite DEF Total
<1>6. ASSUME NEW L \in SUBSET K
      PROVE  BytesIn({TensorThere(p) : p \in L}) <= SizeOf(PackedItems(K), L)
  <2> DEFINE f == [p \in L |-> TensorThere(p)]
  <2>1. \A p \in L : TensorItems[f[p]].size = PackedItems(K)[p].size BY PackedAre DEF TensorItems, PackedItems
  <2>2. {TensorThere(p) : p \in L} = {f[p] : p \in L} OBVIOUS
  <2>3. Sized(PackedItems(K), L) BY <1>4, SizedPart
  <2>4. SizeOf(TensorItems, {f[p] : p \in L}) <= SizeOf(PackedItems(K), L)
    <3> HIDE DEF f
    <3> QED BY <2>1, <2>3, PackedImage
  <2> QED BY <2>2, <2>4 DEF BytesIn
<1> QED BY <1>3, <1>4, <1>5, <1>6

------------------------------------------------------------------------------
(* What is invariant *)

(* What an automatic budget counts: weights that may be streamed.          *)
Counted == {i \in Modules : Dense(i) /\ ~Skipped(i) /\ ~Always(i)}

PlanTypes ==
  /\ tree \in Trees /\ cfg \in Configs \cup Reconfigs /\ Suits(cfg)
  /\ planStep \in {"idle", "plan", "residents", "place", "pin", "ready"} /\ prepared \in 0 .. 2
  /\ device \in [LargeTensor -> {"cpu", "cuda"}]
  /\ locked \subseteq {t \in LargeTensor : device[t] = "cpu"} /\ fresh \subseteq LargeTensor
  /\ budget.resident \in Nat /\ budget.pin \in Nat /\ budget.decision \in Decisions
  /\ residents \cup wrapped \cup toPin \subseteq Modules
  /\ planStep \in {"plan", "residents", "place", "pin", "ready"} => prepared \in {1, 2}

(* No decision gets into the cache, and a plan begins without one.         *)
CacheClean ==
  /\ \A k \in DOMAIN planCache : planCache[k] = "none"
  /\ planStep = "plan" => budget.decision = "none"

(* What the budgets are computed from is as the module was loaded.         *)
Untouched ==
  /\ planStep \in {"idle", "plan", "residents"} => residents = {} /\ wrapped = {} /\ toPin = {}
  /\ prepared = 0 \/ (prepared = 1 /\ planStep \in {"plan", "residents", "place"}) =>
       locked = {} /\ \A t \in LargeTensor : device[t] = "cpu"

(* An explicit budget is not replaced, an automatic one is for what it     *)
(* counts, and a calibration has none for residents.                       *)
BudgetAsked ==
  planStep \in {"residents", "place", "pin", "ready"} =>
    /\ cfg.profile => budget.resident = 0
    /\ cfg.pinBudget > 0 => budget.pin = cfg.pinBudget /\ ~budget.full
    /\ budget.always \in {{}, cfg.always}
    /\ cfg.auto /\ cfg.ram > 0 /\ cfg.pinBudget = 0 /\ cfg.pinRatio = 0 /\ prepared = 1 /\ cfg.mode = "linear" =>
         budget.skip \/ Total(WeightItems(Counted)) <= UsableRam

ResidentsPlaced ==
  planStep \in {"place", "pin", "ready"} => ResidentsFit /\ \A i \in residents : ~Skipped(i)

StreamedOnly ==
  planStep = "pin" => /\ cfg.mode = "linear" /\ wrapped = Streamed /\ toPin \subseteq Streamed /\ Reachable

PlanInv == /\ PlanTypes /\ CacheClean /\ Untouched /\ BudgetAsked /\ ResidentsPlaced
           /\ StreamedOnly /\ PlanFits

------------------------------------------------------------------------------
(* Budgets *)

(* The automatic budgets are numbers.                                      *)
LEMMA UsableRamIs ==
  ASSUME Known
  PROVE  UsableRam \in Nat
<1>1. cfg.ram - cfg.ramHeadroom \in Int BY AmountsAre DEF Known
<1> QED BY <1>1, MostOfTwo DEF UsableRam

LEMMA AutoResidentIs ==
  ASSUME Known, NEW m \in Nat
  PROVE  AutoResident(m) \in Nat
<1>1. /\ cfg.maxResident \in Nat /\ cfg.requested \in Nat /\ cfg.vram \in Nat /\ cfg.vramHeadroom \in Nat
  BY AmountsAre DEF Known
<1>2. VramHeadroom(m) \in Int
  <2>1. Max({6, (15 * cfg.vram) \div 100}) \in Int
    <3>1. (15 * cfg.vram) \div 100 \in Int BY <1>1
    <3> QED BY <3>1, MostOfTwo
  <2> QED BY <1>1, <2>1 DEF VramHeadroom
<1>3. VramTarget(m) \in Nat
  <2>1. cfg.vram - VramHeadroom(m) \in Int BY <1>1, <1>2
  <2> QED BY <2>1, MostOfTwo DEF VramTarget
<1> DEFINE quarter == m \div 4
           grown   == IF m > cfg.vram THEN Min({m, Max({quarter, VramTarget(m)})}) ELSE quarter
           fitted  == IF cfg.vram > 0 THEN Min({grown, VramTarget(m)}) ELSE quarter
           wanted  == IF cfg.profiled THEN Min({cfg.requested, m}) ELSE fitted
<1>4. quarter \in Nat OBVIOUS
<1>5. grown \in Nat
  <2> HIDE DEF quarter
  <2>1. Max({quarter, VramTarget(m)}) \in Nat BY <1>3, <1>4, MostOfTwo
  <2>2. Min({m, Max({quarter, VramTarget(m)})}) \in Nat BY <2>1, LeastOfTwo
  <2> QED BY <1>4, <2>2
<1>6. fitted \in Nat
  <2> HIDE DEF quarter, grown
  <2>1. Min({grown, VramTarget(m)}) \in Nat BY <1>3, <1>5, LeastOfTwo
  <2> QED BY <1>4, <2>1
<1>7. wanted \in Nat
  <2> HIDE DEF fitted
  <2>1. Min({cfg.requested, m}) \in Nat BY <1>1, LeastOfTwo
  <2> QED BY <1>6, <2>1
<1> HIDE DEF wanted
<1>8. Min({wanted, cfg.maxResident}) \in Nat BY <1>1, <1>7, LeastOfTwo
<1>9. AutoResident(m) = IF cfg.maxResident > 0 THEN Min({wanted, cfg.maxResident}) ELSE wanted
  BY DEF AutoResident, wanted
<1> QED BY <1>7, <1>8, <1>9

(* The automatic policy leaves an explicit budget of page-locked bytes as  *)
(* it is, and where it decides itself, has none that does not fit.         *)
LEMMA BudgetForIs ==
  ASSUME Known, budget.decision \in Decisions, NEW w \in Nat, NEW m \in Nat
  PROVE  /\ BudgetFor(w, m).resident \in Nat /\ BudgetFor(w, m).pin \in Nat
         /\ BudgetFor(w, m).decision \in Decisions
         /\ cfg.pinBudget > 0 => /\ BudgetFor(w, m).pin = cfg.pinBudget
                                 /\ BudgetFor(w, m).decision = budget.decision
         /\ cfg.ram > 0 /\ cfg.pinBudget = 0 /\ cfg.pinRatio = 0 => BudgetFor(w, m).skip \/ w <= UsableRam
<1> DEFINE full     == CanFullPin(w, m)
           share    == Min({cfg.requested, m})
           profile  == full /\ share > 0 /\ UsableRam >= w + share
           resident == CASE cfg.resident = 0 /\ m > 0 /\ ~full -> AutoResident(m)
                         [] profile -> share
                         [] OTHER   -> cfg.resident
           own      == cfg.pinBudget > 0 \/ cfg.pinRatio > 0 \/ w = 0
           room     == cfg.ram = 0 \/ UsableRam >= w + resident
           fair     == IF full THEN w ELSE AutoPin(w)
           capped   == IF cfg.maxPin > 0 THEN Min({fair, cfg.maxPin}) ELSE fair
           pin      == CASE own -> cfg.pinBudget [] ~own /\ room -> capped [] OTHER -> 0
           decision == CASE own      -> budget.decision
                         [] ~own /\ ~room -> "skip_insufficient_ram"
                         [] ~own /\ room /\ profile -> "full_pin_profile_resident"
                         [] ~own /\ room /\ full /\ ~profile -> "full_pin_zero_resident"
                         [] OTHER   -> "budgeted"
<1>1. /\ cfg.resident \in Nat /\ cfg.requested \in Nat /\ cfg.pinBudget \in Nat /\ cfg.pinRatio \in Nat
      /\ cfg.maxPin \in Nat /\ cfg.ram \in Nat
  BY AmountsAre DEF Known
<1>2. BudgetFor(w, m) = [resident |-> resident, pin |-> pin, skip |-> ~own /\ ~room, decision |-> decision]
  BY DEF BudgetFor
<1>3. resident \in Nat
  <2>1. share \in Nat BY <1>1, LeastOfTwo
  <2>2. AutoResident(m) \in Nat BY AutoResidentIs
  <2> HIDE DEF share, full
  <2> QED BY <1>1, <2>1, <2>2
<1>4. fair \in Nat
  <2>1. AutoPin(w) \in Nat BY DEF AutoPin
  <2> HIDE DEF full
  <2> QED BY <2>1
<1>5. capped \in Nat
  <2> HIDE DEF fair
  <2>1. Min({fair, cfg.maxPin}) \in Nat BY <1>1, <1>4, LeastOfTwo
  <2> QED BY <1>4, <2>1
<1>6. pin \in Nat /\ (cfg.pinBudget > 0 => pin = cfg.pinBudget)
  <2> HIDE DEF capped, room
  <2> QED BY <1>1, <1>5
<1>7. decision \in Decisions /\ (cfg.pinBudget > 0 => decision = budget.decision)
  <2>1. cfg.pinBudget > 0 => own OBVIOUS
  <2> HIDE DEF room, profile, full, own
  <2> QED BY <2>1 DEF Decisions
<1>8. cfg.ram > 0 /\ cfg.pinBudget = 0 /\ cfg.pinRatio = 0 => (~own /\ ~room) \/ w <= UsableRam
  <2>1. UsableRam \in Nat BY UsableRamIs
  <2> HIDE DEF resident
  <2> QED BY <1>1, <1>3, <2>1
<1> DEFINE skip == ~own /\ ~room
<1>9. cfg.ram > 0 /\ cfg.pinBudget = 0 /\ cfg.pinRatio = 0 => skip \/ w <= UsableRam BY <1>8
<1> HIDE DEF resident, pin, own, room, decision, skip
<1>10. BudgetFor(w, m) = [resident |-> resident, pin |-> pin, skip |-> skip, decision |-> decision]
  BY <1>2 DEF skip
<1>11. /\ BudgetFor(w, m).resident = resident /\ BudgetFor(w, m).pin = pin
       /\ BudgetFor(w, m).skip = skip /\ BudgetFor(w, m).decision = decision
  BY <1>10
<1> HIDE <1>10, <1>11
<1>12. BudgetFor(w, m).skip <=> skip BY <1>11
<1>13. cfg.ram > 0 /\ cfg.pinBudget = 0 /\ cfg.pinRatio = 0 => BudgetFor(w, m).skip \/ w <= UsableRam
  BY <1>9, <1>12
<1> QED BY <1>3, <1>6, <1>7, <1>11, <1>13

(* What can be resident is of the tree, and not skipped.                   *)
LEMMA CandidatesAre ==
  ASSUME Known
  PROVE  /\ Total(PinCandidates) \in Nat /\ Total(ResidentCandidates) \in Nat
         /\ DOMAIN ResidentCandidates \subseteq Modules
         /\ \A i \in DOMAIN ResidentCandidates : ~Skipped(i)
<1>1. Total(PinCandidates) \in Nat
  <2>1. CASE cfg.mode = "sdnq" BY <2>1, PackedItemsSized DEF PinCandidates
  <2>2. CASE cfg.mode # "sdnq"
    <3> DEFINE K == {i \in Modules : /\ Dense(i) /\ ~Skipped(i) /\ ~InResident(i)
                                     /\ i \notin residents /\ ~Always(i)
                                     /\ device[WeightOf(i)] = "cpu" /\ WeightOf(i) \notin locked}
    <3>1. K \in SUBSET Modules /\ \A i \in K : WeightOf(i) \in LargeTensor BY WeightsAre
    <3>2. PinCandidates = WeightItems(K) BY <2>2 DEF PinCandidates
    <3> HIDE DEF K
    <3> QED BY <3>1, <3>2, WeightItemsSized
  <2> QED BY <2>1, <2>2
<1> DEFINE K == {i \in Matched : ~Skipped(i)}
<1>2. K \in SUBSET Modules BY DEF Matched
<1>3. DOMAIN ModuleItems(K) = K /\ Total(ModuleItems(K)) \in Nat
  <2> HIDE DEF K
  <2> QED BY <1>2, ModuleItemsSized
<1> QED BY <1>1, <1>2, <1>3 DEF ResidentCandidates

------------------------------------------------------------------------------
(* What the actions leave alone *)

(* Properties of residents and budgets depend on the plan only.            *)
LEMMA SameFit ==
  ASSUME UNCHANGED <<tree, cfg, budget, residents>>
  PROVE  /\ ResidentsFit' = ResidentsFit
         /\ (\A i \in residents : ~Skipped(i))' = (\A i \in residents : ~Skipped(i))
<1>1. ResidentCandidates' = ResidentCandidates
  BY DEF ResidentCandidates, ModuleItems, Matched, Inferred, Outweighs, Repeated, Total, BytesIn,
         ModuleBytes, TensorsIn, TensorsAt, Modules, Skipped
<1>2. BytesIn(UNION {TensorsIn(i) : i \in residents})' = BytesIn(UNION {TensorsIn(i) : i \in residents})
  BY DEF BytesIn, TensorsIn, TensorsAt, Modules
<1>3. Total(ModuleItems(residents))' = Total(ModuleItems(residents))
  BY DEF Total, ModuleItems, ModuleBytes, BytesIn, TensorsIn, TensorsAt, Modules
<1>4. \A i : ModuleBytes(i)' = ModuleBytes(i)
  BY DEF ModuleBytes, BytesIn, TensorsIn, TensorsAt, Modules
<1> QED BY <1>1, <1>2, <1>3, <1>4 DEF ResidentsFit, Skipped

LEMMA SameBudget ==
  ASSUME UNCHANGED <<tree, cfg, budget, prepared>>, Known, BudgetAsked,
         planStep \in {"residents", "place", "pin", "ready"}
  PROVE  BudgetAsked'
<1>1. Total(WeightItems(Counted))' = Total(WeightItems(Counted))
  BY DEF Total, WeightItems, WeightOf, Counted, Dense, Skipped, Always, Modules
<1>2. UsableRam' = UsableRam BY DEF UsableRam
<1> QED BY <1>1, <1>2 DEF BudgetAsked

------------------------------------------------------------------------------
(* What is moved and page-locked *)

(* The least place of a module that keeps the tensors of module i.         *)
LEMMA OuterResident ==
  ASSUME Known, residents \subseteq Modules, NEW i \in Modules, InResident(i)
  PROVE  \E r \in tree[i].inside \cap residents : ~InResident(r)
<1> DEFINE R == tree[i].inside \cap residents
<1>1. R \subseteq Nat /\ R # {} BY TreeIs DEF InResident
<1>2. PICK r \in R : \A m \in R : r <= m
  <2> HIDE DEF R
  <2> QED BY <1>1, LeastNumber
<1>3. ASSUME InResident(r) PROVE FALSE
  <2>1. PICK m \in tree[r].inside : m \in residents BY <1>3 DEF InResident
  <2>2. r \in Modules /\ r \in tree[i].inside BY <1>2
  <2>3. tree[r].inside \subseteq tree[i].inside /\ tree[r].inside \subseteq 1 .. r - 1 BY <2>2, TreeIs
  <2>4. m \in R /\ m < r /\ r <= m BY <1>1, <1>2, <2>1, <2>3
  <2> QED BY <1>1, <1>2, <2>4
<1> QED BY <1>2, <1>3

(* A walk that takes care of the outer residents and of what it does not    *)
(* wrap leaves everything in reach.                                        *)
LEMMA ReachableAfter ==
  ASSUME Known, residents \subseteq Modules, \A i \in residents : ~Skipped(i),
         NEW out, NEW back, NEW W \in SUBSET Modules, MoveAll(out, back),
         \A j \in Modules : back[j] \subseteq TensorsAt(j) /\ (back[j] # {} => j \in W),
         \A r \in residents : ~PassedOver(r) => out[r] = TensorsIn(r),
         \A i \in Modules \ W :
            ~PassedOver(i) /\ tree[i].kind \in {"linear", "embedding", "odd", "packed"} => TensorsAt(i) \subseteq out[i]
  PROVE  \A i \in Modules \ W :
            ~Skipped(i) /\ tree[i].kind \in {"linear", "embedding", "odd", "packed"} =>
              \A t \in TensorsAt(i) \ UNION {TensorsAt(j) : j \in W} : device'[t] = "cuda"
<1> SUFFICES ASSUME NEW i \in Modules \ W, ~Skipped(i), tree[i].kind \in {"linear", "embedding", "odd", "packed"},
                    NEW t \in TensorsAt(i), t \notin UNION {TensorsAt(j) : j \in W}
             PROVE  device'[t] = "cuda"
  OBVIOUS
<1>1. \A j \in Modules : t \notin back[j] OBVIOUS
<1>2. \E j \in Modules : t \in out[j]
  <2>1. CASE InResident(i)
    <3>1. PICK r \in tree[i].inside \cap residents : ~InResident(r) BY <2>1, OuterResident
    <3>2. t \in TensorsIn(r) BY <3>1, TensorsAre
    <3> QED BY <3>1, <3>2 DEF PassedOver
  <2>2. CASE ~InResident(i) BY <2>2 DEF PassedOver
  <2> QED BY <2>1, <2>2
<1>3. LastMoves(out, back, t) /\ ~ LastMoves(back, out, t) BY <1>1, <1>2 DEF LastMoves
<1>4. t \in LargeTensor BY TensorsAre
<1> QED BY <1>3, <1>4 DEF MoveAll

(* Where a walk over the tree leaves the data; what it leaves on the       *)
(* device is not page-locked.                                              *)
LEMMA MovedAre ==
  ASSUME PlanTypes, NEW out, NEW back, MoveAll(out, back)
  PROVE  /\ device' \in [LargeTensor -> {"cpu", "cuda"}]
         /\ StillLocked(out) \subseteq {t \in LargeTensor : device'[t] = "cpu"}
<1>1. \A t \in LargeTensor : device'[t] = CASE LastMoves(out, back, t) -> "cuda"
                                            [] LastMoves(back, out, t) -> "cpu"
                                            [] OTHER -> device[t]
  BY DEF MoveAll
<1>2. ASSUME NEW t \in LargeTensor, LastMoves(out, back, t) /\ LastMoves(back, out, t) PROVE device'[t] \in {"cpu", "cuda"}
  BY <1>1, <1>2
<1>3. \A t \in LargeTensor : device'[t] \in {"cpu", "cuda"} BY <1>1, <1>2 DEF PlanTypes
<1>4. \A t \in StillLocked(out) : t \in LargeTensor /\ device[t] = "cpu" /\ ~ LastMoves(out, back, t)
  BY DEF StillLocked, LastMoves, PlanTypes
<1>5. \A t \in StillLocked(out) : device'[t] = "cpu" BY <1>1, <1>4
<1>6. device' \in [LargeTensor -> {"cpu", "cuda"}] BY <1>3 DEF MoveAll
<1> QED BY <1>4, <1>5, <1>6

(* What is streamed is dense, and neither passed over nor resident.        *)
LEMMA StreamedAre ==
  ASSUME Known
  PROVE  Streamed \subseteq Modules /\ \A i \in Streamed : Dense(i) /\ ~PassedOver(i) /\ ~Stays(i)
BY DEF Streamed

(* The bytes that an explicit budget asks for.                             *)
AskedToPin == IF cfg.maxPin > 0 THEN Min({cfg.pinBudget, cfg.maxPin}) ELSE cfg.pinBudget

(* What linear_runtime page-locks keeps an explicit limit, up to 5 per cent.*)
LEMMA DensePins ==
  ASSUME Known, toPin \subseteq Modules, \A i \in toPin : Dense(i), budget.pin \in Nat
  PROVE  /\ DenseToPin \subseteq toPin
         /\ cfg.pinBudget > 0 /\ budget.pin = cfg.pinBudget /\ ~budget.full =>
              95 * BytesIn({WeightOf(i) : i \in DenseToPin}) < 100 * (AskedToPin + 1)
<1> DEFINE items == WeightItems(toPin)
           T     == Total(items)
           asked  == IF budget.pin = 0 THEN (T * cfg.pinRatio) \div 100 ELSE budget.pin
           capped == IF asked > 0 /\ cfg.maxPin > 0 THEN Min({asked, cfg.maxPin}) ELSE asked
           limit  == PinLimit(items)
           order  == Ordered(items, InTree(toPin), limit, cfg.pinOrder)
<1>0. cfg.pinBudget \in Nat /\ cfg.pinRatio \in Nat /\ cfg.maxPin \in Nat /\ cfg.pinOrder \in Orders
  BY AmountsAre DEF Known
<1>1. /\ DOMAIN items = toPin /\ Sized(items, toPin) /\ T \in Nat
      /\ \A L \in SUBSET toPin : BytesIn({WeightOf(i) : i \in L}) <= SizeOf(items, L)
  BY WeightsAre, WeightItemsSized
<1>2. asked \in Nat
  <2>1. T * cfg.pinRatio \in Nat BY <1>0, <1>1
  <2>2. \A n \in Nat : n \div 100 \in Nat OBVIOUS
  <2> HIDE DEF T
  <2> QED BY <2>1, <2>2
<1>3. capped \in Nat
  <2> HIDE DEF asked
  <2>1. Min({asked, cfg.maxPin}) \in Nat BY <1>0, <1>2, LeastOfTwo
  <2> QED BY <1>2, <2>1
<1>4. limit = IF T > 0 /\ capped >= (95 * T) \div 100 THEN 0 ELSE capped BY DEF PinLimit
<1> HIDE DEF capped, limit
<1>5. limit \in Nat BY <1>3, <1>4
<1>6. InLine(order, toPin)
  <2>1. InLine(InTree(toPin), toPin)
    <3>1. toPin \in SUBSET Nat BY TreeIs
    <3> QED BY <3>1, TreeInLine
  <2>2. \A i \in DOMAIN items : items[i].size \in Nat BY <1>1 DEF Sized
  <2> HIDE DEF items
  <2> QED BY <1>0, <1>1, <2>1, <2>2, OrderedInLine
<1>7. /\ FirstFit(items, order, limit) \subseteq toPin
      /\ SizeOf(items, FirstFit(items, order, limit)) <= limit
  <2> HIDE DEF items, order
  <2> QED BY <1>1, <1>5, <1>6, FirstFitFits
<1>8. DenseToPin = IF budget.full \/ limit = 0 THEN toPin ELSE FirstFit(items, order, limit)
  BY DEF DenseToPin, limit
<1>9. ASSUME cfg.pinBudget > 0, budget.pin = cfg.pinBudget, ~budget.full
      PROVE  95 * BytesIn({WeightOf(i) : i \in DenseToPin}) < 100 * (AskedToPin + 1)
  <2> DEFINE B == BytesIn({WeightOf(i) : i \in DenseToPin})
  <2>1. capped = AskedToPin /\ capped > 0
    <3>1. asked = cfg.pinBudget BY <1>0, <1>9
    <3>2. Min({cfg.pinBudget, cfg.maxPin}) \in Nat /\ (cfg.maxPin > 0 => Min({cfg.pinBudget, cfg.maxPin}) > 0)
      BY <1>0, <1>9, LeastOfTwo
    <3> HIDE DEF asked
    <3> QED BY <1>0, <1>9, <3>1, <3>2 DEF capped, AskedToPin
  <2>2. B \in Nat
    <3>1. {WeightOf(i) : i \in DenseToPin} \in SUBSET LargeTensor BY <1>7, <1>8, WeightsAre
    <3> QED BY <3>1, BytesAre
  <2>3. CASE limit = 0
    <3>1. capped >= (95 * T) \div 100 BY <1>4, <2>1, <2>3
    <3>2. DenseToPin = toPin BY <1>8, <2>3
    <3>3. B <= T
      <4>1. BytesIn({WeightOf(i) : i \in toPin}) <= SizeOf(items, toPin) BY <1>1
      <4>2. SizeOf(items, toPin) = T BY <1>1 DEF Total
      <4> HIDE DEF T, items
      <4> QED BY <3>2, <4>1, <4>2
    <3> HIDE DEF T, B
    <3>4. 95 * T < 100 * (capped + 1) BY <1>1, <1>3, <3>1
    <3> QED BY <1>1, <1>3, <2>1, <2>2, <3>3, <3>4 DEF B
  <2>4. CASE limit # 0
    <3>1. DenseToPin = FirstFit(items, order, limit) BY <1>8, <1>9, <2>4
    <3>2. limit = capped BY <1>4, <2>4
    <3>3. DenseToPin \in SUBSET toPin /\ SizeOf(items, DenseToPin) <= capped BY <1>7, <3>1, <3>2
    <3>4. B <= SizeOf(items, DenseToPin) BY <1>1, <3>3
    <3>5. SizeOf(items, DenseToPin) \in Nat BY <1>1, <3>3, SizedPart, PackedFinite
    <3> HIDE DEF B, items
    <3>6. 95 * B < 100 * (capped + 1) BY <1>3, <2>2, <3>3, <3>4, <3>5
    <3> QED BY <2>1, <3>6 DEF B
  <2> QED BY <2>3, <2>4
<1> QED BY <1>7, <1>8, <1>9

(* What sdnq_runtime page-locks keeps every limit.                         *)
LEMMA PackedPins ==
  ASSUME Known, budget.pin \in Nat
  PROVE  /\ PackedToPin \subseteq Packed /\ PackedLimit \in Nat
         /\ BytesIn({TensorThere(p) : p \in PackedToPin}) <= PackedLimit
         /\ cfg.pinBudget > 0 /\ budget.pin = cfg.pinBudget => PackedLimit <= AskedToPin
         /\ cfg.ram > 0 => PackedLimit <= UsableRam
<1> DEFINE all   == PackedItems(Packed)
           bytes == Total(all)
           Z     == {bytes} \cup (IF budget.pin > 0   THEN {budget.pin} ELSE {})
                    \cup (IF cfg.pinRatio > 0 THEN {(bytes * cfg.pinRatio) \div 100} ELSE {})
                    \cup (IF cfg.maxPin > 0   THEN {cfg.maxPin} ELSE {})
                    \cup (IF cfg.ram > 0      THEN {UsableRam} ELSE {})
                    \cup (IF ~cfg.pin \/ budget.skip THEN {0} ELSE {})
           held  == {p \in Packed : TensorThere(p) \in locked}
           order == Ordered(all, InModules(Packed), PackedLimit, cfg.pinOrder)
           items == PackedItems(Packed \ held)
           limit == Max({0, PackedLimit - Total(PackedItems(held))})
<1>0. cfg.pinBudget \in Nat /\ cfg.pinRatio \in Nat /\ cfg.maxPin \in Nat /\ cfg.pinOrder \in Orders
  BY AmountsAre DEF Known
<1>1. bytes \in Nat /\ DOMAIN all = Packed /\ Sized(all, Packed) BY PackedItemsSized
<1>2. Z \subseteq Nat /\ Z # {}
  <2>1. bytes * cfg.pinRatio \in Nat BY <1>0, <1>1
  <2>2. \A n \in Nat : n \div 100 \in Nat OBVIOUS
  <2>3. UsableRam \in Nat BY UsableRamIs
  <2> HIDE DEF bytes
  <2> QED BY <1>0, <1>1, <2>1, <2>2, <2>3
<1>3. PackedLimit = Min(Z) BY DEF PackedLimit
<1>4. /\ PackedLimit \in Nat /\ (budget.pin > 0 => PackedLimit <= budget.pin)
      /\ (cfg.maxPin > 0 => PackedLimit <= cfg.maxPin) /\ (cfg.ram > 0 => PackedLimit <= UsableRam)
  <2>1. /\ (budget.pin > 0 => budget.pin \in Z) /\ (cfg.maxPin > 0 => cfg.maxPin \in Z)
        /\ (cfg.ram > 0 => UsableRam \in Z)
    OBVIOUS
  <2> HIDE DEF Z
  <2> QED BY <1>2, <1>3, <2>1, LeastOfSet
<1>5. cfg.pinBudget > 0 /\ budget.pin = cfg.pinBudget => PackedLimit <= AskedToPin
  BY <1>0, <1>4, LeastOfTwo DEF AskedToPin
<1>6. InLine(order, Packed)
  <2>1. InLine(InModules(Packed), Packed) BY PackedAre, ModulesInLine
  <2>2. \A p \in Packed : all[p].size \in Nat BY <1>1 DEF Sized
  <2> HIDE DEF all
  <2> QED BY <1>0, <1>1, <2>1, <2>2, OrderedInLine
<1>7. DOMAIN items = Packed \ held /\ Sized(items, DOMAIN items) BY PackedItemsSized
<1>8. limit \in Nat /\ limit <= PackedLimit
  <2>1. Total(PackedItems(held)) \in Nat BY PackedItemsSized
  <2> QED BY <1>4, <2>1, MostOfTwo
<1>9. PackedToPin \subseteq Packed \ held /\ SizeOf(items, PackedToPin) <= limit
  <2>1. PackedToPin = FirstFit(items, order, limit) BY DEF PackedToPin
  <2>2. DOMAIN items \subseteq Packed BY <1>7
  <2> HIDE DEF items, order, limit
  <2> QED BY <1>6, <1>7, <1>8, <2>1, <2>2, FirstFitFits
<1>10. BytesIn({TensorThere(p) : p \in PackedToPin}) <= SizeOf(items, PackedToPin)
  BY <1>9, PackedItemsSized
<1>11. BytesIn({TensorThere(p) : p \in PackedToPin}) <= PackedLimit
  <2>1. {TensorThere(p) : p \in PackedToPin} \in SUBSET LargeTensor BY <1>9, PackedAre
  <2>2. BytesIn({TensorThere(p) : p \in PackedToPin}) \in Nat BY <2>1, BytesAre
  <2>3. SizeOf(items, PackedToPin) \in Nat BY <1>7, <1>9, SizedPart, PackedFinite
  <2> HIDE DEF items, limit
  <2> QED BY <1>4, <1>8, <1>9, <1>10, <2>2, <2>3
<1> QED BY <1>4, <1>5, <1>9, <1>11

------------------------------------------------------------------------------
(* The actions *)

(* PlanInv holds before anything was prepared.                             *)
LEMMA PlanInitInv ==
  ASSUME PlanInit
  PROVE  PlanInv
<1>1. PlanTypes BY DEF PlanInit, PlanTypes, NoBudget, Decisions
<1>2. CacheClean /\ Untouched BY DEF PlanInit, CacheClean, Untouched
<1> QED BY <1>1, <1>2 DEF PlanInit, PlanInv, BudgetAsked, ResidentsPlaced, StreamedOnly, PlanFits

LEMMA SameModules ==
  ASSUME UNCHANGED <<tree, cfg>>
  PROVE  Modules' = Modules /\ Suits(cfg)' = Suits(cfg)
BY DEF Modules, Suits

(* It is kept by each phase of an initialization, and between two of them. *)
LEMMA LoadAnotherInv ==
  ASSUME PlanInv, LoadAnother
  PROVE  PlanInv'
<1> USE DEF PlanInv, LoadAnother
<1>1. PlanTypes' BY SameModules DEF PlanTypes
<1>2. CacheClean' /\ Untouched' BY DEF CacheClean, Untouched
<1> QED BY <1>1, <1>2 DEF BudgetAsked, ResidentsPlaced, StreamedOnly, PlanFits

LEMMA BuildPlanInv ==
  ASSUME PlanInv, BuildPlan
  PROVE  PlanInv'
<1> USE DEF PlanInv
<1>1. cfg' \in Configs \cup Reconfigs /\ Suits(cfg')
  <2>1. CASE prepared = 0 BY <2>1 DEF BuildPlan, PlanTypes
  <2>2. CASE prepared # 0 BY <2>2 DEF BuildPlan
  <2> QED BY <2>1, <2>2
<1>2. budget'.decision = "none" /\ budget'.resident = 0 /\ budget'.pin = 0
  <2>1. PlanKey(cfg') \in DOMAIN planCache => planCache[PlanKey(cfg')] = "none" BY DEF CacheClean
  <2> QED BY <2>1 DEF BuildPlan, NoBudget
<1>3. prepared \in 0 .. 1 /\ prepared' = prepared + 1 BY DEF BuildPlan, PlanTypes
<1>4. PlanTypes'
  <2>1. Modules' = Modules BY DEF BuildPlan, Modules
  <2>2. Suits(cfg)' BY <1>1, <2>1 DEF Suits, BuildPlan
  <2> QED BY <1>1, <1>2, <1>3, <2>1, <2>2 DEF BuildPlan, PlanTypes, Decisions
<1>5. CacheClean'
  <2>1. \A k : DOMAIN Cached(k) = DOMAIN planCache \cup {k} /\ \A j \in DOMAIN Cached(k) : Cached(k)[j] = "none"
    BY DEF CacheClean, Cached
  <2>2. planCache' \in {planCache, Cached(PlanKey(cfg'))} BY DEF BuildPlan
  <2>3. \A k \in DOMAIN planCache' : planCache'[k] = "none" BY <2>1, <2>2 DEF CacheClean
  <2> QED BY <1>2, <2>3 DEF CacheClean
<1>6. Untouched' BY <1>3 DEF BuildPlan, Untouched
<1> QED BY <1>4, <1>5, <1>6 DEF BuildPlan, BudgetAsked, ResidentsPlaced, StreamedOnly, PlanFits

(* Before anything was moved, the policy counts all that may be streamed.  *)
LEMMA CountedIs ==
  ASSUME PlanInv, planStep = "plan", prepared = 1, cfg.mode = "linear"
  PROVE  PinCandidates = WeightItems(Counted)
<1> DEFINE K == {i \in Modules : /\ Dense(i) /\ ~Skipped(i) /\ ~InResident(i)
                                 /\ i \notin residents /\ ~Always(i)
                                 /\ device[WeightOf(i)] = "cpu" /\ WeightOf(i) \notin locked}
<1>1. residents = {} /\ locked = {} /\ \A t \in LargeTensor : device[t] = "cpu" BY DEF PlanInv, Untouched
<1>2. \A i \in Modules : Dense(i) => device[WeightOf(i)] = "cpu"
  BY <1>1, WeightsAre DEF PlanInv, PlanTypes, Known
<1>3. \A i \in Modules : ~InResident(i) BY <1>1 DEF InResident
<1>4. K = Counted BY <1>1, <1>2, <1>3 DEF Counted
<1>5. PinCandidates = WeightItems(K) BY DEF PinCandidates
<1> HIDE DEF K
<1> QED BY <1>4, <1>5

LEMMA ApplyBudgetsInv ==
  ASSUME PlanInv, ApplyBudgets
  PROVE  PlanInv'
<1> DEFINE auto == IF cfg.auto THEN AutoBudget
                   ELSE [resident |-> cfg.resident, pin |-> cfg.pinBudget, skip |-> FALSE, decision |-> budget.decision]
           bare == auto.decision = "full_pin_zero_resident" /\ cfg.mode = "linear"
<1>1. Known /\ budget.decision = "none" /\ budget.decision \in Decisions
  BY DEF PlanInv, PlanTypes, CacheClean, ApplyBudgets, Known, Decisions
<1>2. cfg.resident \in Nat /\ cfg.pinBudget \in Nat /\ cfg.pinRatio \in Nat BY <1>1, AmountsAre DEF Known
<1>3. /\ Total(PinCandidates) \in Nat /\ Total(ResidentCandidates) \in Nat BY <1>1, CandidatesAre
<1>4. /\ auto.resident \in Nat /\ auto.pin \in Nat /\ auto.decision \in Decisions
      /\ cfg.pinBudget > 0 => auto.pin = cfg.pinBudget /\ auto.decision = "none"
  <2>1. CASE cfg.auto
    <3>1. auto = BudgetFor(Total(PinCandidates), Total(ResidentCandidates)) BY <2>1 DEF AutoBudget
    <3> HIDE DEF auto
    <3> QED BY <1>1, <1>3, <3>1, BudgetForIs
  <2>2. CASE ~cfg.auto BY <1>1, <1>2, <2>2
  <2> QED BY <2>1, <2>2
<1>5. cfg.auto /\ cfg.ram > 0 /\ cfg.pinBudget = 0 /\ cfg.pinRatio = 0 =>
        auto.skip \/ Total(PinCandidates) <= UsableRam
  <2> SUFFICES ASSUME cfg.auto, cfg.ram > 0, cfg.pinBudget = 0, cfg.pinRatio = 0
               PROVE  auto.skip \/ Total(PinCandidates) <= UsableRam
    OBVIOUS
  <2>1. auto = BudgetFor(Total(PinCandidates), Total(ResidentCandidates)) BY DEF AutoBudget
  <2> HIDE DEF auto
  <2> QED BY <1>1, <1>3, <2>1, BudgetForIs
<1>6. budget' = [resident |-> IF cfg.profile THEN 0 ELSE auto.resident,
                 pin |-> auto.pin, decision |-> auto.decision, skip |-> auto.skip, full |-> bare,
                 always |-> IF bare \/ cfg.profile THEN {} ELSE cfg.always]
  BY DEF ApplyBudgets
<1> HIDE DEF auto
<1>7. /\ budget'.resident = (IF cfg.profile THEN 0 ELSE auto.resident) /\ budget'.pin = auto.pin
      /\ budget'.decision = auto.decision /\ budget'.always \in {{}, cfg.always}
      /\ (budget'.full <=> bare) /\ (budget'.skip <=> auto.skip)
  <2>1. budget'.full = bare /\ budget'.skip = auto.skip BY <1>6
  <2> QED BY <1>6, <2>1
<1>8. PlanTypes'
  <2>1. budget'.resident \in Nat /\ budget'.pin \in Nat /\ budget'.decision \in Decisions BY <1>4, <1>7
  <2> QED BY <2>1, SameModules DEF PlanInv, PlanTypes, ApplyBudgets
<1>9. CacheClean' BY DEF PlanInv, CacheClean, ApplyBudgets, ClonedPlan
<1>10. Untouched' BY DEF PlanInv, Untouched, ApplyBudgets
<1>11. BudgetAsked'
  <2>1. UNCHANGED <<tree, cfg, prepared>> /\ planStep = "plan" BY DEF ApplyBudgets
  <2>2. Total(WeightItems(Counted))' = Total(WeightItems(Counted))
    BY <2>1 DEF Total, WeightItems, WeightOf, Counted, Dense, Skipped, Always, Modules
  <2>3. UsableRam' = UsableRam BY <2>1 DEF UsableRam
  <2>4. cfg.pinBudget > 0 => ~bare BY <1>4
  <2>5. cfg.auto /\ cfg.ram > 0 /\ cfg.pinBudget = 0 /\ cfg.pinRatio = 0 /\ prepared = 1 /\ cfg.mode = "linear" =>
           budget'.skip \/ Total(WeightItems(Counted)) <= UsableRam
    BY <1>5, <1>7, <2>1, CountedIs
  <2> HIDE DEF bare
  <2> QED BY <1>4, <1>7, <2>1, <2>2, <2>3, <2>4, <2>5 DEF BudgetAsked
<1> QED BY <1>8, <1>9, <1>10, <1>11 DEF PlanInv, ApplyBudgets, ResidentsPlaced, StreamedOnly, PlanFits

LEMMA SelectResidentsInv ==
  ASSUME PlanInv, SelectResidents
  PROVE  PlanInv'
<1> DEFINE C == DOMAIN ResidentCandidates
           order == Ordered(ResidentCandidates, InTree(C), budget.resident, cfg.residentOrder)
           R == residents'
<1>1. /\ Known /\ budget.resident \in Nat /\ cfg.residentOrder \in Orders /\ planStep = "residents"
      /\ UNCHANGED <<tree, cfg, prepared, device, locked, planCache, budget, wrapped, toPin, fresh>>
      /\ planStep' = "place"
  BY AmountsAre DEF PlanInv, PlanTypes, Known, SelectResidents
<1>2. /\ C \subseteq Modules /\ Modules \subseteq Nat /\ \A i \in C : ~Skipped(i)
      /\ ResidentCandidates = ModuleItems(C)
  BY <1>1, CandidatesAre, TreeIs DEF ResidentCandidates, ModuleItems
<1>3. /\ DOMAIN ResidentCandidates = C /\ Sized(ResidentCandidates, C)
      /\ \A i \in C : ResidentCandidates[i].size = ModuleBytes(i)
      /\ \A L \in SUBSET C : SizeOf(ResidentCandidates, L) = Total(ModuleItems(L))
  BY <1>1, <1>2, ModuleItemsSized
<1>4. /\ R \subseteq C /\ Total(ModuleItems(R)) <= budget.resident
      /\ (budget.resident > 0 => \A i \in C \ R : Total(ModuleItems(R)) + ModuleBytes(i) > budget.resident)
      /\ (budget.resident = 0 => R = {})
  <2>1. CASE budget.resident = 0
    <3>1. R = {} BY <2>1 DEF SelectResidents
    <3>2. SizeOf(ResidentCandidates, {}) = 0 BY PackedNone
    <3>3. Total(ModuleItems(R)) = 0 BY <1>3, <3>1, <3>2
    <3> HIDE DEF R
    <3> QED BY <1>1, <2>1, <3>1, <3>3
  <2>2. CASE budget.resident # 0
    <3>1. R = FirstFit(ResidentCandidates, order, budget.resident) BY <2>2 DEF SelectResidents
    <3>2. InLine(order, C)
      <4>1. InLine(InTree(C), C) BY <1>2, TreeInLine
      <4>2. \A k \in C : ResidentCandidates[k].size \in Nat BY <1>3 DEF Sized
      <4> QED BY <1>1, <4>1, <4>2, OrderedInLine
    <3> HIDE DEF order, R
    <3>3. /\ R \subseteq C /\ SizeOf(ResidentCandidates, R) <= budget.resident
          /\ \A k \in C \ R : SizeOf(ResidentCandidates, R) + ResidentCandidates[k].size > budget.resident
      BY <1>1, <1>3, <3>1, <3>2, FirstFitFits
    <3> QED BY <1>3, <2>2, <3>3
  <2> QED BY <2>1, <2>2
<1>5. BytesIn(UNION {TensorsIn(i) : i \in R}) <= budget.resident
  <2>1. R \in SUBSET Modules BY <1>2, <1>4
  <2>2. BytesIn(UNION {TensorsIn(i) : i \in R}) <= Total(ModuleItems(R)) BY <1>1, <2>1, ModuleBytesCover
  <2>3. Total(ModuleItems(R)) \in Nat BY <1>1, <2>1, ModuleItemsSized
  <2>4. BytesIn(UNION {TensorsIn(i) : i \in R}) \in Nat
    <3>1. UNION {TensorsIn(i) : i \in R} \in SUBSET LargeTensor BY <1>1, <2>1, TensorsAre
    <3> QED BY <3>1, BytesAre
  <2> HIDE DEF R
  <2> QED BY <1>1, <1>4, <2>2, <2>3, <2>4
<1>6. cfg.profile => budget.resident = 0 BY <1>1 DEF PlanInv, BudgetAsked
<1>7. ResidentsFit'
  <2>1. ResidentCandidates' = ResidentCandidates
    BY <1>1 DEF ResidentCandidates, ModuleItems, Matched, Inferred, Outweighs, Repeated, Total, BytesIn,
           ModuleBytes, TensorsIn, TensorsAt, Modules, Skipped
  <2>2. BytesIn(UNION {TensorsIn(i) : i \in residents})' = BytesIn(UNION {TensorsIn(i) : i \in R})
    BY <1>1 DEF BytesIn, TensorsIn, TensorsAt, Modules
  <2>3. Total(ModuleItems(residents))' = Total(ModuleItems(R))
    BY <1>1 DEF Total, ModuleItems, ModuleBytes, BytesIn, TensorsIn, TensorsAt, Modules
  <2>4. \A i : ModuleBytes(i)' = ModuleBytes(i)
    BY <1>1 DEF ModuleBytes, BytesIn, TensorsIn, TensorsAt, Modules
  <2> QED BY <1>1, <1>4, <1>5, <1>6, <2>1, <2>2, <2>3, <2>4 DEF ResidentsFit
<1>8. ResidentsPlaced'
  <2>1. \A i \in residents' : ~Skipped(i)' BY <1>1, <1>2, <1>4 DEF Skipped
  <2> QED BY <1>7, <2>1 DEF ResidentsPlaced
<1>9. PlanTypes'
  <2>1. residents' \cup wrapped' \cup toPin' \subseteq Modules' BY <1>1, <1>2, <1>4, SameModules DEF PlanInv, PlanTypes
  <2> QED BY <1>1, <2>1, SameModules DEF PlanInv, PlanTypes
<1>10. BudgetAsked' BY <1>1, SameBudget DEF PlanInv
<1>11. CacheClean' /\ Untouched' BY <1>1 DEF PlanInv, CacheClean, Untouched
<1> QED BY <1>1, <1>8, <1>9, <1>10, <1>11 DEF PlanInv, StreamedOnly, PlanFits

LEMMA SameReach ==
  ASSUME UNCHANGED <<tree, cfg>>,
         \A i \in Modules \ wrapped' :
           ~Skipped(i) /\ tree[i].kind \in {"linear", "embedding", "odd", "packed"} =>
             \A t \in TensorsAt(i) \ UNION {TensorsAt(j) : j \in wrapped'} : device'[t] = "cuda"
  PROVE  Reachable'
BY DEF Reachable, Modules, Skipped, TensorsAt

LEMMA PlaceModulesInv ==
  ASSUME PlanInv, PlaceModules
  PROVE  PlanInv'
<1>1. /\ Known /\ PlanTypes /\ Suits(cfg) /\ cfg.mode = "linear" /\ planStep = "place" /\ planStep' = "pin"
      /\ MoveAll(DenseOut, DenseBack) /\ locked' = StillLocked(DenseOut) /\ wrapped' = Streamed
      /\ toPin' \subseteq Streamed
      /\ UNCHANGED <<tree, cfg, prepared, planCache, budget, residents, fresh>>
  BY DEF PlanInv, PlanTypes, Known, PlaceModules
<1>2. /\ ResidentsFit /\ BudgetAsked /\ CacheClean /\ residents \subseteq Modules /\ \A i \in residents : ~Skipped(i)
  BY <1>1 DEF PlanInv, PlanTypes, ResidentsPlaced
<1>3. Streamed \subseteq Modules /\ \A i \in Streamed : Dense(i) /\ ~PassedOver(i) /\ ~Stays(i) BY <1>1, StreamedAre
<1>4. Reachable'
  <2>1. \A j \in Modules : DenseBack[j] \subseteq TensorsAt(j) /\ (DenseBack[j] # {} => j \in Streamed)
    BY <1>1, <1>3, WeightsAre DEF DenseBack
  <2>2. \A r \in residents : ~PassedOver(r) => DenseOut[r] = TensorsIn(r) BY <1>2 DEF DenseOut, Stays
  <2>3. \A i \in Modules \ Streamed :
          ~PassedOver(i) /\ tree[i].kind \in {"linear", "embedding", "odd", "packed"} => TensorsAt(i) \subseteq DenseOut[i]
    <3> SUFFICES ASSUME NEW i \in Modules \ Streamed, ~PassedOver(i),
                        tree[i].kind \in {"linear", "embedding", "odd", "packed"}
                 PROVE  TensorsAt(i) \subseteq DenseOut[i]
      OBVIOUS
    <3>1. CASE Stays(i)
      <4>1. DenseOut[i] = TensorsIn(i) BY <3>1 DEF DenseOut
      <4> QED BY <1>1, <4>1, TensorsAre
    <3>2. CASE ~Stays(i)
      <4>1. ~Dense(i) BY <3>2 DEF Streamed
      <4>2. tree[i].kind # "packed" BY <1>1 DEF Suits
      <4>3. tree[i].kind = "odd" BY <4>1, <4>2 DEF Dense
      <4> QED BY <3>2, <4>3 DEF DenseOut
    <3> QED BY <3>1, <3>2
  <2>4. \A i \in Modules \ Streamed :
          ~Skipped(i) /\ tree[i].kind \in {"linear", "embedding", "odd", "packed"} =>
            \A t \in TensorsAt(i) \ UNION {TensorsAt(j) : j \in Streamed} : device'[t] = "cuda"
    BY <1>1, <1>2, <1>3, <2>1, <2>2, <2>3, ReachableAfter
  <2> QED BY <1>1, <2>4, SameReach
<1>5. Streamed' = Streamed
  BY <1>1 DEF Streamed, PassedOver, Stays, Dense, Skipped, InResident, Modules
<1>6. StreamedOnly' BY <1>1, <1>4, <1>5 DEF StreamedOnly
<1>7. PlanTypes'
  <2>1. /\ device' \in [LargeTensor -> {"cpu", "cuda"}]
        /\ locked' \subseteq {t \in LargeTensor : device'[t] = "cpu"}
    BY <1>1, MovedAre
  <2>2. residents' \cup wrapped' \cup toPin' \subseteq Modules' BY <1>1, <1>2, <1>3, SameModules
  <2> QED BY <1>1, <2>1, <2>2, SameModules DEF PlanTypes
<1>8. ResidentsPlaced'
  <2>1. ResidentsFit' /\ (\A i \in residents : ~Skipped(i))' BY <1>1, <1>2, SameFit
  <2> QED BY <2>1 DEF ResidentsPlaced
<1>9. BudgetAsked' BY <1>1, <1>2, SameBudget
<1>10. CacheClean' /\ Untouched'
  <2>1. prepared \in {1, 2} BY <1>1 DEF PlanTypes
  <2> QED BY <1>1, <1>2, <2>1 DEF CacheClean, Untouched
<1> QED BY <1>1, <1>6, <1>7, <1>8, <1>9, <1>10 DEF PlanInv, PlanFits

(* Weights that are page-locked are among those counted, or of modules     *)
(* that join later.                                                        *)
LEMMA StreamedCounted ==
  ASSUME Known, cfg.mode = "linear", NEW T \in SUBSET LargeTensor, T \subseteq {WeightOf(i) : i \in Streamed}
  PROVE  BytesIn(T) <= Total(WeightItems(Counted)) + BytesIn(UNION {TensorsIn(i) : i \in Joining})
<1> DEFINE A == {WeightOf(i) : i \in Counted}
           J == UNION {TensorsIn(i) : i \in Joining}
<1>1. A \subseteq LargeTensor /\ J \subseteq LargeTensor
  BY WeightsAre, TensorsAre DEF Counted, Joining
<1>2. T \subseteq A \cup J
  <2> SUFFICES ASSUME NEW i \in Streamed PROVE WeightOf(i) \in A \cup J OBVIOUS
  <2>1. i \in Modules /\ Dense(i) /\ ~Skipped(i) /\ tree[i].name \notin budget.always
    BY StreamedAre DEF PassedOver, Stays
  <2>2. CASE Always(i)
    <3>1. i \in Joining BY <2>1, <2>2 DEF Joining
    <3>2. WeightOf(i) \in TensorsIn(i) BY <2>1, WeightsAre, TensorsAre
    <3> QED BY <3>1, <3>2
  <2>3. CASE ~Always(i) BY <2>1, <2>3 DEF Counted
  <2> QED BY <2>2, <2>3
<1>3. BytesIn(A) <= Total(WeightItems(Counted)) /\ Total(WeightItems(Counted)) \in Nat
  <2>1. Counted \in SUBSET Modules /\ \A i \in Counted : WeightOf(i) \in LargeTensor BY WeightsAre DEF Counted
  <2> QED BY <2>1, WeightItemsSized
<1> HIDE DEF A, J
<1>4. BytesIn(T) <= BytesIn(A \cup J) /\ BytesIn(A \cup J) <= BytesIn(A) + BytesIn(J)
  <2>1. A \cup J \in SUBSET LargeTensor BY <1>1
  <2> QED BY <1>1, <1>2, <2>1, BytesGrow, BytesEither
<1>5. BytesIn(T) \in Nat /\ BytesIn(A) \in Nat /\ BytesIn(J) \in Nat /\ BytesIn(A \cup J) \in Nat
  <2>1. A \cup J \in SUBSET LargeTensor BY <1>1
  <2> QED BY <1>1, <2>1, BytesAre
<1>6. BytesIn(T) <= Total(WeightItems(Counted)) + BytesIn(J) BY <1>3, <1>4, <1>5
<1> QED BY <1>6 DEF J

(* The two bounds of what is page-locked, after an action that only locks. *)
LEMMA SamePins ==
  ASSUME UNCHANGED <<tree, cfg, budget, prepared>>,
         cfg.pinBudget > 0 => 95 * BytesIn(fresh') < 100 * (AskedToPin + 1),
         cfg.auto /\ cfg.ram > 0 /\ cfg.pinBudget = 0 /\ cfg.pinRatio = 0 /\ prepared = 1 =>
           BytesIn(fresh') <= UsableRam + BytesIn(UNION {TensorsIn(i) : i \in Joining})
  PROVE  PinsAsAsked' /\ PinsFitRam'
<1>1. BytesIn(fresh)' = BytesIn(fresh') BY DEF BytesIn
<1>2. UsableRam' = UsableRam BY DEF UsableRam
<1>3. BytesIn(UNION {TensorsIn(i) : i \in Joining})' = BytesIn(UNION {TensorsIn(i) : i \in Joining})
  BY DEF BytesIn, TensorsIn, TensorsAt, Joining, Always, Modules
<1>4. PinsAsAsked' BY <1>1 DEF PinsAsAsked, AskedToPin
<1> QED BY <1>1, <1>2, <1>3, <1>4 DEF PinsFitRam

LEMMA PinWeightsInv ==
  ASSUME PlanInv, PinWeights
  PROVE  PlanInv'
<1>1. /\ Known /\ PlanTypes /\ planStep = "pin" /\ planStep' = "ready"
      /\ UNCHANGED <<tree, cfg, prepared, device, planCache, budget, residents, wrapped, toPin>>
      /\ cfg.mode = "linear" /\ toPin \subseteq Streamed /\ Reachable
      /\ ResidentsFit /\ BudgetAsked /\ CacheClean /\ \A i \in residents : ~Skipped(i)
  BY DEF PlanInv, PlanTypes, Known, PinWeights, StreamedOnly, ResidentsPlaced
<1>2. /\ fresh' = IF cfg.pin /\ toPin # {} /\ ~budget.skip THEN {WeightOf(i) : i \in DenseToPin} ELSE {}
      /\ locked' = locked \cup {t \in fresh' : device[t] = "cpu"}
  BY DEF PinWeights
<1>3. toPin \subseteq Modules /\ (\A i \in toPin : Dense(i)) /\ budget.pin \in Nat
  BY <1>1, StreamedAre DEF PlanTypes
<1>4. /\ DenseToPin \subseteq toPin
      /\ cfg.pinBudget > 0 /\ budget.pin = cfg.pinBudget /\ ~budget.full =>
           95 * BytesIn({WeightOf(i) : i \in DenseToPin}) < 100 * (AskedToPin + 1)
  BY <1>1, <1>3, DensePins
<1> DEFINE P == {WeightOf(i) : i \in DenseToPin}
<1>5. P \subseteq LargeTensor /\ P \subseteq {WeightOf(i) : i \in Streamed}
  BY <1>1, <1>3, <1>4, WeightsAre
<1>6. fresh' \subseteq P /\ fresh' \subseteq LargeTensor /\ (budget.skip => fresh' = {}) BY <1>2, <1>5
<1>7. BytesIn(fresh') \in Nat /\ BytesIn(P) \in Nat /\ BytesIn(fresh') <= BytesIn(P) BY <1>5, <1>6, BytesAre, BytesGrow
<1>8. cfg.pinBudget > 0 => 95 * BytesIn(fresh') < 100 * (AskedToPin + 1)
  <2> SUFFICES ASSUME cfg.pinBudget > 0 PROVE 95 * BytesIn(fresh') < 100 * (AskedToPin + 1) OBVIOUS
  <2>1. budget.pin = cfg.pinBudget /\ ~budget.full BY <1>1 DEF BudgetAsked
  <2>2. 95 * BytesIn(P) < 100 * (AskedToPin + 1) BY <1>4, <2>1
  <2>3. AskedToPin \in Nat
    <3>1. cfg.pinBudget \in Nat /\ cfg.maxPin \in Nat BY <1>1, AmountsAre DEF Known
    <3> QED BY <3>1, LeastOfTwo DEF AskedToPin
  <2> HIDE DEF P
  <2> QED BY <1>7, <2>2, <2>3
<1>9. cfg.auto /\ cfg.ram > 0 /\ cfg.pinBudget = 0 /\ cfg.pinRatio = 0 /\ prepared = 1 =>
        BytesIn(fresh') <= UsableRam + BytesIn(UNION {TensorsIn(i) : i \in Joining})
  <2> SUFFICES ASSUME cfg.auto, cfg.ram > 0, cfg.pinBudget = 0, cfg.pinRatio = 0, prepared = 1
               PROVE  BytesIn(fresh') <= UsableRam + BytesIn(UNION {TensorsIn(i) : i \in Joining})
    OBVIOUS
  <2> DEFINE J == UNION {TensorsIn(i) : i \in Joining}
  <2>1. UsableRam \in Nat BY <1>1, UsableRamIs
  <2>2. BytesIn(J) \in Nat
    <3>1. J \in SUBSET LargeTensor BY <1>1, TensorsAre DEF Joining
    <3> HIDE DEF J
    <3> QED BY <3>1, BytesAre
  <2>3. budget.skip \/ Total(WeightItems(Counted)) <= UsableRam BY <1>1 DEF BudgetAsked
  <2>4. CASE budget.skip
    <3>1. BytesIn(fresh') = 0 BY <1>6, <2>4, PackedNone DEF BytesIn
    <3> HIDE DEF J
    <3>2. BytesIn(fresh') <= UsableRam + BytesIn(J) BY <2>1, <2>2, <3>1
    <3> QED BY <3>2 DEF J
  <2>5. CASE ~budget.skip
    <3>1. BytesIn(fresh') <= Total(WeightItems(Counted)) + BytesIn(J)
      BY <1>1, <1>5, <1>6, StreamedCounted
    <3>2. Total(WeightItems(Counted)) \in Nat
      <4>1. Counted \in SUBSET Modules /\ \A i \in Counted : WeightOf(i) \in LargeTensor
        BY <1>1, WeightsAre DEF Counted
      <4> QED BY <1>1, <4>1, WeightItemsSized
    <3> HIDE DEF J
    <3>3. BytesIn(fresh') <= UsableRam + BytesIn(J) BY <1>7, <2>1, <2>2, <2>3, <2>5, <3>1, <3>2
    <3> QED BY <3>3 DEF J
  <2> QED BY <2>4, <2>5
<1>10. PinsAsAsked' /\ PinsFitRam' BY <1>1, <1>8, <1>9, SamePins
<1>11. Reachable' BY <1>1 DEF Reachable, Modules, Skipped, TensorsAt
<1>12. ResidentsFit' /\ (\A i \in residents : ~Skipped(i))' BY <1>1, SameFit
<1>13. PlanTypes'
  <2>1. locked' \subseteq {t \in LargeTensor : device'[t] = "cpu"} BY <1>1, <1>2, <1>6 DEF PlanTypes
  <2> QED BY <1>1, <1>6, <2>1, SameModules DEF PlanTypes
<1>14. BudgetAsked' BY <1>1, SameBudget
<1>15. CacheClean' /\ Untouched'
  <2>1. prepared \in {1, 2} BY <1>1 DEF PlanTypes
  <2> QED BY <1>1, <2>1 DEF CacheClean, Untouched
<1> QED BY <1>1, <1>10, <1>11, <1>12, <1>13, <1>14, <1>15 DEF PlanInv, PlanFits, ResidentsPlaced, StreamedOnly

LEMMA PlaceAndPinPackedInv ==
  ASSUME PlanInv, PlaceAndPinPacked
  PROVE  PlanInv'
<1>1. /\ Known /\ PlanTypes /\ cfg.mode = "sdnq" /\ planStep = "place" /\ planStep' = "ready"
      /\ MoveAll(PackedOut, PackedBack)
      /\ fresh' = {t \in {TensorThere(p) : p \in PackedToPin} : device'[t] = "cpu"}
      /\ locked' = StillLocked(PackedOut) \cup fresh'
      /\ wrapped' = PackedLayers /\ toPin' = {}
      /\ UNCHANGED <<tree, cfg, prepared, planCache, budget, residents>>
  BY DEF PlanInv, PlanTypes, Known, PlaceAndPinPacked
<1>2. /\ ResidentsFit /\ BudgetAsked /\ CacheClean /\ residents \subseteq Modules /\ \A i \in residents : ~Skipped(i)
      /\ budget.pin \in Nat
  BY <1>1 DEF PlanInv, PlanTypes, ResidentsPlaced
<1>3. PackedLayers \subseteq Modules BY DEF PackedLayers
<1>4. Reachable'
  <2>1. \A j \in Modules : PackedBack[j] \subseteq TensorsAt(j) /\ (PackedBack[j] # {} => j \in PackedLayers)
    BY <1>1, PackedAre DEF PackedBack
  <2>2. \A r \in residents : ~PassedOver(r) => PackedOut[r] = TensorsIn(r) BY <1>2 DEF PackedOut
  <2>3. \A i \in Modules \ PackedLayers :
          ~PassedOver(i) /\ tree[i].kind \in {"linear", "embedding", "odd", "packed"} => TensorsAt(i) \subseteq PackedOut[i]
    <3> SUFFICES ASSUME NEW i \in Modules \ PackedLayers, ~PassedOver(i),
                        tree[i].kind \in {"linear", "embedding", "odd", "packed"}
                 PROVE  TensorsAt(i) \subseteq PackedOut[i]
      OBVIOUS
    <3>1. CASE i \in residents
      <4>1. PackedOut[i] = TensorsIn(i) BY <3>1 DEF PackedOut
      <4> QED BY <1>1, <4>1, TensorsAre
    <3>2. CASE i \notin residents
      <4>1. tree[i].kind # "packed" BY <3>2 DEF PackedLayers, PassedOver
      <4> QED BY <3>2, <4>1 DEF PackedOut
    <3> QED BY <3>1, <3>2
  <2>4. \A i \in Modules \ PackedLayers :
          ~Skipped(i) /\ tree[i].kind \in {"linear", "embedding", "odd", "packed"} =>
            \A t \in TensorsAt(i) \ UNION {TensorsAt(j) : j \in PackedLayers} : device'[t] = "cuda"
    BY <1>1, <1>2, <1>3, <2>1, <2>2, <2>3, ReachableAfter
  <2> QED BY <1>1, <2>4, SameReach
<1> DEFINE P == {TensorThere(p) : p \in PackedToPin}
<1>5. /\ PackedToPin \subseteq Packed /\ PackedLimit \in Nat /\ BytesIn(P) <= PackedLimit
      /\ cfg.pinBudget > 0 /\ budget.pin = cfg.pinBudget => PackedLimit <= AskedToPin
      /\ cfg.ram > 0 => PackedLimit <= UsableRam
  BY <1>1, <1>2, PackedPins
<1>6. P \subseteq LargeTensor BY <1>1, <1>5, PackedAre
<1>7. fresh' \subseteq P BY <1>1
<1>8. BytesIn(fresh') \in Nat /\ BytesIn(fresh') <= PackedLimit
  <2>1. BytesIn(fresh') \in Nat /\ BytesIn(P) \in Nat /\ BytesIn(fresh') <= BytesIn(P)
    BY <1>6, <1>7, BytesAre, BytesGrow
  <2> HIDE DEF P
  <2> QED BY <1>5, <2>1
<1>9. cfg.pinBudget > 0 => 95 * BytesIn(fresh') < 100 * (AskedToPin + 1)
  <2> SUFFICES ASSUME cfg.pinBudget > 0 PROVE 95 * BytesIn(fresh') < 100 * (AskedToPin + 1) OBVIOUS
  <2>1. budget.pin = cfg.pinBudget BY <1>1, <1>2 DEF BudgetAsked
  <2>2. AskedToPin \in Nat
    <3>1. cfg.pinBudget \in Nat /\ cfg.maxPin \in Nat BY <1>1, AmountsAre DEF Known
    <3> QED BY <3>1, LeastOfTwo DEF AskedToPin
  <2>3. BytesIn(fresh') <= AskedToPin BY <1>5, <1>8, <2>1, <2>2
  <2> QED BY <1>8, <2>2, <2>3
<1>10. cfg.auto /\ cfg.ram > 0 /\ cfg.pinBudget = 0 /\ cfg.pinRatio = 0 /\ prepared = 1 =>
        BytesIn(fresh') <= UsableRam + BytesIn(UNION {TensorsIn(i) : i \in Joining})
  <2> DEFINE J == UNION {TensorsIn(i) : i \in Joining}
  <2>1. UsableRam \in Nat BY <1>1, UsableRamIs
  <2>2. BytesIn(J) \in Nat
    <3>1. J \in SUBSET LargeTensor BY <1>1, TensorsAre DEF Joining
    <3> HIDE DEF J
    <3> QED BY <3>1, BytesAre
  <2> HIDE DEF J
  <2>3. cfg.ram > 0 => BytesIn(fresh') <= UsableRam + BytesIn(J) BY <1>5, <1>8, <2>1, <2>2
  <2> QED BY <2>3 DEF J
<1>11. PinsAsAsked' /\ PinsFitRam' BY <1>1, <1>9, <1>10, SamePins
<1>12. ResidentsFit' /\ (\A i \in residents : ~Skipped(i))' BY <1>1, <1>2, SameFit
<1>13. PlanTypes'
  <2>1. /\ device' \in [LargeTensor -> {"cpu", "cuda"}]
        /\ StillLocked(PackedOut) \subseteq {t \in LargeTensor : device'[t] = "cpu"}
    BY <1>1, MovedAre
  <2>2. fresh' \subseteq {t \in LargeTensor : device'[t] = "cpu"} BY <1>1, <1>6
  <2>3. residents' \cup wrapped' \cup toPin' \subseteq Modules' BY <1>1, <1>2, <1>3, SameModules
  <2>4. fresh' \subseteq LargeTensor /\ locked' \subseteq {t \in LargeTensor : device'[t] = "cpu"} BY <1>1, <2>1, <2>2
  <2> QED BY <1>1, <2>1, <2>3, <2>4, SameModules DEF PlanTypes
<1>14. BudgetAsked' BY <1>1, <1>2, SameBudget
<1>15. CacheClean' /\ Untouched'
  <2>1. prepared \in {1, 2} BY <1>1 DEF PlanTypes
  <2> QED BY <1>1, <1>2, <2>1 DEF CacheClean, Untouched
<1> QED BY <1>1, <1>4, <1>11, <1>12, <1>13, <1>14, <1>15 DEF PlanInv, PlanFits, ResidentsPlaced, StreamedOnly

LEMMA RestorePlanInv ==
  ASSUME PlanInv, RestorePlan
  PROVE  PlanInv'
<1>1. PlanTypes' BY SameModules DEF PlanInv, PlanTypes, RestorePlan
<1>2. CacheClean' BY DEF PlanInv, CacheClean, RestorePlan
<1>3. Untouched'
  <2>1. prepared \in {1, 2} /\ planStep = "ready" BY DEF PlanInv, PlanTypes, RestorePlan
  <2> QED BY <2>1 DEF Untouched, RestorePlan
<1> QED BY <1>1, <1>2, <1>3 DEF PlanInv, RestorePlan, BudgetAsked, ResidentsPlaced, StreamedOnly, PlanFits

LEMMA PlanStutter ==
  ASSUME PlanInv, UNCHANGED planVars
  PROVE  PlanInv'
<1>1. UNCHANGED <<tree, cfg, planStep, prepared, device, locked, planCache, budget, residents, wrapped, toPin, fresh>>
  BY DEF planVars
<1>2. PlanTypes' BY <1>1, SameModules DEF PlanInv, PlanTypes
<1>3. CacheClean' /\ Untouched' BY <1>1 DEF PlanInv, CacheClean, Untouched
<1>4. BudgetAsked'
  <2>1. CASE planStep \in {"residents", "place", "pin", "ready"}
    BY <1>1, <2>1, SameBudget DEF PlanInv, PlanTypes, Known
  <2>2. CASE planStep \notin {"residents", "place", "pin", "ready"} BY <1>1, <2>2 DEF BudgetAsked
  <2> QED BY <2>1, <2>2
<1>5. ResidentsPlaced' BY <1>1, SameFit DEF PlanInv, ResidentsPlaced
<1>6. Reachable' = Reachable BY <1>1 DEF Reachable, Modules, Skipped, TensorsAt
<1>7. Streamed' = Streamed BY <1>1 DEF Streamed, PassedOver, Stays, Dense, Skipped, InResident, Modules
<1>8. StreamedOnly' BY <1>1, <1>6, <1>7 DEF PlanInv, StreamedOnly
<1>9. PinsAsAsked' = PinsAsAsked /\ PinsFitRam' = PinsFitRam
  BY <1>1 DEF PinsAsAsked, PinsFitRam, BytesIn, UsableRam, TensorsIn, TensorsAt, Joining, Always, Modules
<1>10. PlanFits' BY <1>1, <1>6, <1>9, SameFit DEF PlanInv, PlanFits
<1> QED BY <1>2, <1>3, <1>4, <1>5, <1>8, <1>10 DEF PlanInv

(* So it always holds.                                                     *)
LEMMA PlanInvariant == PlanSpec => []PlanInv
<1>1. PlanInit => PlanInv BY PlanInitInv
<1>2. PlanInv /\ [PlanNext]_planVars => PlanInv'
  BY LoadAnotherInv, BuildPlanInv, ApplyBudgetsInv, SelectResidentsInv, PlaceModulesInv, PinWeightsInv,
     PlaceAndPinPackedInv, RestorePlanInv, PlanStutter DEF PlanNext
<1> QED BY <1>1, <1>2, PTL DEF PlanSpec

(* The variables of a plan are of their types.                             *)
THEOREM PlanTypeCorrect == PlanSpec => []PlanTypeOK
<1>1. PlanInv => PlanTypeOK BY DEF PlanInv, PlanTypes, PlanTypeOK
<1> QED BY <1>1, PlanInvariant, PTL

(* A hook that is ready keeps its budgets: see PlanFits.                   *)
THEOREM PlansFit == PlanSpec => []PlanFits
<1>1. PlanInv => PlanFits BY DEF PlanInv
<1> QED BY <1>1, PlanInvariant, PTL
================================================================================
