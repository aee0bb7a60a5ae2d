----------------------------- MODULE Weights_proofs -----------------------------
(***************************************************************************)
(* Of the weights that a hook page-locks and lends to layers, for any        *)
(* hooks, weights, namespaces, workers, layers and depth of nested forwards.*)
(*                                                                         *)
(* Page-locked weights come from hooks of one namespace, which share one   *)
(* copy of each.  PinnedTruly alone says nothing of the cache and of what  *)
(* the workers are about to assign; PinInv does.                           *)
(*                                                                         *)
(* Between forwards every parameter has its own data.  A frame owes what it *)
(* keeps and what was not a copy when it began.  The frames that give back  *)
(* in the reverse order leave nothing, because every copy is owed by some   *)
(* frame, and what a frame hands on as a copy is owed by one beneath it.   *)
(***************************************************************************)
EXTENDS PinnedWeights, WeightLending, TLAPS, SequenceTheorems

------------------------------------------------------------------------------
(* Page-locked weights *)

(* The tensors that hook h may have for its weight n.                      *)
KinOrigins(h, n) == {<<g, n>> : g \in Kin(h, n)}

(* A worker that is done copying has something to assign.                  *)
CopiesReady == \A h \in Pinner, n \in AllNames : future[h][n] = "copied" => found[h][n] \in Origin

(* What a hook can find in the cache is of its kin.                        *)
SharedTrue == \A h \in Pinner : \A n \in PinList[h] :
                PinCached /\ CacheKey(h, n) \in DOMAIN shared
                  => shared[CacheKey(h, n)] \in KinOrigins(h, n)

(* So is what a worker has in hand, and what a weight was replaced by.     *)
FoundTrue == \A h \in Pinner : \A n \in PinList[h] :
               /\ found[h][n] = Miss \/ found[h][n] \in KinOrigins(h, n)
               /\ future[h][n] = "copied" => found[h][n] \in KinOrigins(h, n)

DataTrue == \A h \in Pinner : \A n \in PinList[h] : data[h][n].of \in KinOrigins(h, n)

(* Until the cache is emptied, what is page-locked is what it holds.       *)
LockedShared ==
  PinCached /\ ~cleared => \A h \in Pinner : \A n \in PinList[h] :
    data[h][n].locked => /\ CacheKey(h, n) \in DOMAIN shared
                         /\ data[h][n].of = shared[CacheKey(h, n)]

(* A finished future has locked its weight, and is counted only then.      *)
DoneLocked == \A h \in Pinner, n \in AllNames :
                future[h][n] = "done" \/ n \in counted[h] => data[h][n].locked

(* No future is under way once the pool was left.                          *)
PoolEmpty == \A h \in Pinner : pinnerAt[h] \in {"returned", "raised"} =>
                             \A n \in PinList[h] : future[h][n] \notin Unfinished

PinInv ==
  /\ PinTypeOK /\ CopiesReady
  /\ SharedTrue /\ FoundTrue /\ DataTrue /\ LockedShared
  /\ DoneLocked /\ PoolEmpty

------------------------------------------------------------------------------
LEMMA NamesKnown == ASSUME NEW h \in Pinner, NEW n \in PinList[h] PROVE n \in AllNames
  BY DEF AllNames

(* Two hooks that meet in the cache have the same name and the same kin.   *)
LEMMA KeysMeet ==
  ASSUME PinCached, NEW g \in Pinner, NEW h \in Pinner, NEW m \in PinList[g], NEW n \in PinList[h],
         CacheKey(g, m) = CacheKey(h, n)
  PROVE  KinOrigins(g, m) = KinOrigins(h, n)
<1>1. m = n /\ NamespaceOf(g) = NamespaceOf(h) BY DEF CacheKey
<1>2. Kin(g, m) = Kin(h, n) BY <1>1 DEF Kin
<1> QED BY <1>1, <1>2 DEF KinOrigins

LEMMA KinKnown ==
  ASSUME NEW h \in Pinner, NEW n \in PinList[h]
  PROVE  KinOrigins(h, n) \subseteq Origin /\ <<h, n>> \in KinOrigins(h, n)
<1>1. h \in Kin(h, n) /\ Kin(h, n) \subseteq Pinner BY DEF Kin
<1> QED BY <1>1, NamesKnown DEF KinOrigins, Origin

(* A step that assigns no weight keeps all this when what it leaves in the  *)
(* hands of workers is of the kin.                                         *)
LEMMA HandsOnly ==
  ASSUME PinInv, UNCHANGED <<data, shared, cleared>>,
         \A h \in Pinner : \A n \in PinList[h] :
           \/ /\ found'[h][n] = found[h][n]
              /\ future'[h][n] = "copied" => future[h][n] = "copied"
           \/ found'[h][n] = Miss /\ future'[h][n] # "copied"
           \/ found'[h][n] \in KinOrigins(h, n)
  PROVE  SharedTrue' /\ FoundTrue' /\ DataTrue' /\ LockedShared'
<1> USE DEF PinInv
<1>1. SharedTrue' BY DEF SharedTrue, CacheKey, NamespaceOf, KinOrigins, Kin
<1>2. FoundTrue'
  <2> SUFFICES ASSUME NEW h \in Pinner, NEW n \in PinList[h]
               PROVE  /\ found'[h][n] = Miss \/ found'[h][n] \in KinOrigins(h, n)
                      /\ future'[h][n] = "copied" => found'[h][n] \in KinOrigins(h, n)
    BY DEF FoundTrue, KinOrigins, Kin, NamespaceOf
  <2> QED BY DEF FoundTrue
<1>3. DataTrue' BY DEF DataTrue, KinOrigins, Kin, NamespaceOf
<1>4. LockedShared' BY DEF LockedShared, CacheKey, NamespaceOf
<1> QED BY <1>1, <1>2, <1>3, <1>4

FutureStates == {"none", "queued", "runs", "copied", "done", "failed", "taken"}

(* Moving one future of one hook.                                          *)
LEMMA FutureMoves ==
  ASSUME PinTypeOK, NEW h \in Pinner, NEW n \in AllNames, NEW s \in FutureStates,
         future' = To(future, h, n, s)
  PROVE  /\ future' \in [Pinner -> [AllNames -> FutureStates]]
         /\ \A g \in Pinner, m \in AllNames : future'[g][m] = IF g = h /\ m = n THEN s ELSE future[g][m]
<1>1. future \in [Pinner -> [AllNames -> FutureStates]] BY DEF PinTypeOK, FutureStates
<1>2. future' = [future EXCEPT ![h] = [@ EXCEPT ![n] = s]] BY DEF To
<1> HIDE DEF FutureStates
<1> QED BY <1>1, <1>2

------------------------------------------------------------------------------
(* The workers.  A step of one leaves the future of every other alone, and *)
(* only a future under way gets a worker.                                  *)
LEMMA LookingUp ==
  ASSUME PinInv, NEW h \in Pinner, NEW n \in PinList[h], LookUp(h, n)
  PROVE  PinInv'
<1>n. n \in AllNames BY NamesKnown
<1> DEFINE hit == IF PinCached /\ CacheKey(h, n) \in DOMAIN shared THEN shared[CacheKey(h, n)] ELSE Miss
<1>hit. hit \in Origin \cup {Miss} BY DEF PinInv, PinTypeOK
<1>own. hit = Miss \/ hit \in KinOrigins(h, n) BY DEF PinInv, SharedTrue
<1>found. /\ found' \in [Pinner -> [AllNames -> Origin \cup {Miss}]]
          /\ \A g \in Pinner, m \in AllNames : found'[g][m] = IF g = h /\ m = n THEN hit ELSE found[g][m]
  <2>1. found \in [Pinner -> [AllNames -> Origin \cup {Miss}]] BY DEF PinInv, PinTypeOK
  <2>2. found' = To(found, h, n, hit) BY DEF LookUp
  <2> HIDE DEF hit
  <2> QED BY <2>1, <2>2, <1>n, <1>hit DEF To
<1>future. /\ future' \in [Pinner -> [AllNames -> FutureStates]]
           /\ \A g \in Pinner, m \in AllNames : future'[g][m] = IF g = h /\ m = n THEN "runs" ELSE future[g][m]
  <2>1. future' = To(future, h, n, "runs") /\ PinTypeOK /\ "runs" \in FutureStates
    BY DEF LookUp, PinInv, FutureStates
  <2> QED BY <2>1, <1>n, FutureMoves
<1>same. /\ UNCHANGED <<data, shared, pinnerAt, counted, cleared>>
         /\ future[h][n] = "queued"
  BY DEF LookUp
<1> HIDE DEF hit
<1>1. PinTypeOK' BY <1>found, <1>future, <1>same DEF PinInv, PinTypeOK, FutureStates
<1>2. CopiesReady' BY <1>found, <1>future DEF PinInv, CopiesReady
<1>3. SharedTrue' /\ FoundTrue' /\ DataTrue' /\ LockedShared'
  BY <1>found, <1>future, <1>same, <1>own, HandsOnly, NamesKnown
<1>4. DoneLocked' BY <1>future, <1>same DEF PinInv, DoneLocked
<1>5. PoolEmpty' BY <1>future, <1>same, NamesKnown DEF PinInv, PoolEmpty, Unfinished
<1> QED BY <1>1, <1>2, <1>3, <1>4, <1>5 DEF PinInv

LEMMA Copying ==
  ASSUME PinInv, NEW h \in Pinner, NEW n \in PinList[h], Copy(h, n)
  PROVE  PinInv'
<1>n. n \in AllNames BY NamesKnown
<1> DEFINE copy == IF found[h][n] = Miss THEN data[h][n].of ELSE found[h][n]
<1>copy. copy \in Origin BY <1>n DEF PinInv, PinTypeOK
<1>own. copy \in KinOrigins(h, n) BY DEF PinInv, FoundTrue, DataTrue
<1>found. /\ found' \in [Pinner -> [AllNames -> Origin \cup {Miss}]]
          /\ \A g \in Pinner, m \in AllNames : found'[g][m] = IF g = h /\ m = n THEN copy ELSE found[g][m]
  <2>1. found \in [Pinner -> [AllNames -> Origin \cup {Miss}]] BY DEF PinInv, PinTypeOK
  <2>2. CASE found[h][n] = Miss
    <3>1. found' = To(found, h, n, copy) BY <2>2 DEF Copy
    <3> HIDE DEF copy
    <3> QED BY <2>1, <3>1, <1>n, <1>copy DEF To
  <2>3. CASE found[h][n] # Miss BY <2>1, <2>3, <1>n DEF Copy
  <2> QED BY <2>2, <2>3
<1>future. /\ future' \in [Pinner -> [AllNames -> FutureStates]]
           /\ \A g \in Pinner, m \in AllNames : future'[g][m] = IF g = h /\ m = n THEN "copied" ELSE future[g][m]
  <2>1. future' = To(future, h, n, "copied") /\ PinTypeOK /\ "copied" \in FutureStates
    BY DEF Copy, PinInv, FutureStates
  <2> QED BY <2>1, <1>n, FutureMoves
<1>same. /\ UNCHANGED <<data, shared, pinnerAt, counted, cleared>>
         /\ future[h][n] = "runs"
  BY DEF Copy
<1> HIDE DEF copy
<1>1. PinTypeOK' BY <1>found, <1>future, <1>same DEF PinInv, PinTypeOK, FutureStates
<1>2. CopiesReady' BY <1>found, <1>future, <1>copy DEF PinInv, CopiesReady
<1>3. SharedTrue' /\ FoundTrue' /\ DataTrue' /\ LockedShared'
  BY <1>found, <1>future, <1>same, <1>own, HandsOnly, NamesKnown
<1>4. DoneLocked' BY <1>future, <1>same DEF PinInv, DoneLocked
<1>5. PoolEmpty' BY <1>future, <1>same, NamesKnown DEF PinInv, PoolEmpty, Unfinished
<1> QED BY <1>1, <1>2, <1>3, <1>4, <1>5 DEF PinInv

LEMMA Storing ==
  ASSUME PinInv, NEW h \in Pinner, NEW n \in PinList[h], StoreAndAssign(h, n)
  PROVE  PinInv'
<1>n. n \in AllNames BY NamesKnown
<1> DEFINE k == CacheKey(h, n)
<1> DEFINE won == IF PinCached /\ k \in DOMAIN shared THEN shared[k] ELSE found[h][n]
<1>won. /\ won \in Origin
        /\ found[h][n] \in Origin
        /\ won \in KinOrigins(h, n) /\ found[h][n] \in KinOrigins(h, n)
  BY <1>n DEF PinInv, PinTypeOK, CopiesReady, SharedTrue, FoundTrue, StoreAndAssign
<1>data. /\ data' \in [Pinner -> [AllNames -> [of : Origin, locked : BOOLEAN]]]
         /\ \A g \in Pinner, m \in AllNames :
              data'[g][m] = IF g = h /\ m = n THEN [of |-> won, locked |-> TRUE] ELSE data[g][m]
  <2>1. data \in [Pinner -> [AllNames -> [of : Origin, locked : BOOLEAN]]] BY DEF PinInv, PinTypeOK
  <2>2. data' = To(data, h, n, [of |-> won, locked |-> TRUE]) BY DEF StoreAndAssign
  <2> HIDE DEF won
  <2> QED BY <2>1, <2>2, <1>n, <1>won DEF To
<1>fields. \A g \in Pinner, m \in AllNames :
             /\ data'[g][m].of = IF g = h /\ m = n THEN won ELSE data[g][m].of
             /\ data'[g][m].locked = IF g = h /\ m = n THEN TRUE ELSE data[g][m].locked
  <2> HIDE DEF won
  <2> SUFFICES ASSUME NEW g \in Pinner, NEW m \in AllNames
               PROVE  /\ data'[g][m].of = IF g = h /\ m = n THEN won ELSE data[g][m].of
                      /\ data'[g][m].locked = IF g = h /\ m = n THEN TRUE ELSE data[g][m].locked
    OBVIOUS
  <2>1. CASE g = h /\ m = n
    <3>1. data'[g][m] = [of |-> won, locked |-> TRUE] BY <2>1, <1>data
    <3> QED BY <2>1, <3>1
  <2>2. CASE ~(g = h /\ m = n)
    <3>1. data'[g][m] = data[g][m] BY <2>2, <1>data
    <3> QED BY <2>2, <3>1
  <2> QED BY <2>1, <2>2
<1>future. /\ future' \in [Pinner -> [AllNames -> FutureStates]]
           /\ \A g \in Pinner, m \in AllNames : future'[g][m] = IF g = h /\ m = n THEN "done" ELSE future[g][m]
  <2>1. future' = To(future, h, n, "done") /\ PinTypeOK /\ "done" \in FutureStates
    BY DEF StoreAndAssign, PinInv, FutureStates
  <2> QED BY <2>1, <1>n, FutureMoves
<1>shared. /\ \A x \in DOMAIN shared' :
                \/ x \in DOMAIN shared /\ shared'[x] = shared[x]
                \/ x = k /\ shared'[x] = found[h][n]
           /\ \A x \in DOMAIN shared : x \in DOMAIN shared' /\ shared'[x] = shared[x]
           /\ PinCached => k \in DOMAIN shared' /\ shared'[k] = won
  BY DEF StoreAndAssign
<1>same. /\ UNCHANGED <<found, pinnerAt, counted, cleared>>
         /\ future[h][n] = "copied"
  BY DEF StoreAndAssign
<1> HIDE DEF won, k
<1>1. PinTypeOK' BY <1>data, <1>future, <1>shared, <1>same, <1>won DEF PinInv, PinTypeOK, FutureStates
<1>2. CopiesReady' BY <1>future, <1>same DEF PinInv, CopiesReady
<1>3. SharedTrue' /\ FoundTrue' /\ DataTrue' /\ LockedShared'
  <2>1. SharedTrue'
    <3> SUFFICES ASSUME NEW g \in Pinner, NEW m \in PinList[g], PinCached, CacheKey(g, m) \in DOMAIN shared'
                 PROVE  shared'[CacheKey(g, m)] \in KinOrigins(g, m)
      BY DEF SharedTrue, CacheKey, KinOrigins, Kin, NamespaceOf
    <3>1. CASE CacheKey(g, m) \in DOMAIN shared /\ shared'[CacheKey(g, m)] = shared[CacheKey(g, m)]
      BY <3>1 DEF PinInv, SharedTrue
    <3>2. CASE CacheKey(g, m) = k /\ shared'[CacheKey(g, m)] = found[h][n]
      BY <3>2, <1>won, KeysMeet DEF k
    <3> QED BY <3>1, <3>2, <1>shared
  <2>2. FoundTrue'
    BY <1>future, <1>same, NamesKnown DEF PinInv, FoundTrue, KinOrigins, Kin, NamespaceOf
  <2>3. DataTrue'
    <3> SUFFICES ASSUME NEW g \in Pinner, NEW m \in PinList[g]
                 PROVE  data'[g][m].of \in KinOrigins(g, m)
      BY DEF DataTrue, KinOrigins, Kin, NamespaceOf
    <3>1. m \in AllNames BY NamesKnown
    <3> QED BY <3>1, <1>fields, <1>won DEF PinInv, DataTrue
  <2>4. LockedShared'
    <3> SUFFICES ASSUME PinCached, ~cleared, NEW g \in Pinner, NEW m \in PinList[g], data'[g][m].locked
                 PROVE  /\ CacheKey(g, m) \in DOMAIN shared'
                        /\ data'[g][m].of = shared'[CacheKey(g, m)]
      BY <1>same DEF LockedShared, CacheKey, NamespaceOf
    <3>1. m \in AllNames BY NamesKnown
    <3>2. CASE g = h /\ m = n BY <3>1, <3>2, <1>fields, <1>shared DEF k
    <3>3. CASE ~(g = h /\ m = n)
      <4>1. data[g][m].locked /\ data'[g][m].of = data[g][m].of BY <3>1, <3>3, <1>fields
      <4> QED BY <4>1, <1>shared DEF PinInv, LockedShared
    <3> QED BY <3>2, <3>3
  <2> QED BY <2>1, <2>2, <2>3, <2>4
<1>4. DoneLocked'
  <2> SUFFICES ASSUME NEW g \in Pinner, NEW m \in AllNames, future'[g][m] = "done" \/ m \in counted'[g]
               PROVE  data'[g][m].locked
    BY DEF DoneLocked
  <2>1. CASE g = h /\ m = n BY <2>1, <1>fields
  <2>2. CASE ~(g = h /\ m = n)
    <3>1. future[g][m] = "done" \/ m \in counted[g] BY <2>2, <1>future, <1>same
    <3>2. data[g][m].locked BY <3>1 DEF PinInv, DoneLocked
    <3> QED BY <2>2, <3>2, <1>fields
  <2> QED BY <2>1, <2>2
<1>5. PoolEmpty' BY <1>future, <1>same, NamesKnown DEF PinInv, PoolEmpty, Unfinished
<1> QED BY <1>1, <1>2, <1>3, <1>4, <1>5 DEF PinInv

LEMMA Failing ==
  ASSUME PinInv, NEW h \in Pinner, NEW n \in PinList[h], CopyFails(h, n)
  PROVE  PinInv'
<1>n. n \in AllNames BY NamesKnown
<1>future. /\ future' \in [Pinner -> [AllNames -> FutureStates]]
           /\ \A g \in Pinner, m \in AllNames : future'[g][m] = IF g = h /\ m = n THEN "failed" ELSE future[g][m]
  <2>1. future' = To(future, h, n, "failed") /\ PinTypeOK /\ "failed" \in FutureStates
    BY DEF CopyFails, PinInv, FutureStates
  <2> QED BY <2>1, <1>n, FutureMoves
<1>same. UNCHANGED <<data, shared, found, pinnerAt, counted, cleared>> BY DEF CopyFails
<1>1. PinTypeOK' BY <1>future, <1>same DEF PinInv, PinTypeOK, FutureStates
<1>2. CopiesReady' BY <1>future, <1>same DEF PinInv, CopiesReady
<1>3. SharedTrue' /\ FoundTrue' /\ DataTrue' /\ LockedShared'
  BY <1>future, <1>same, HandsOnly, NamesKnown
<1>4. DoneLocked' BY <1>future, <1>same DEF PinInv, DoneLocked
<1>5. PoolEmpty' BY <1>future, <1>same, NamesKnown DEF PinInv, PoolEmpty, Unfinished
<1> QED BY <1>1, <1>2, <1>3, <1>4, <1>5 DEF PinInv

------------------------------------------------------------------------------
(* The call.  It only submits, takes and leaves.                           *)
LEMMA Submitting ==
  ASSUME PinInv, NEW h \in Pinner, Submit(h)
  PROVE  PinInv'
<1>1. PICK n \in At(h, {"none"}) : future' = To(future, h, n, "queued") BY DEF Submit
<1>n. n \in PinList[h] /\ n \in AllNames BY NamesKnown DEF At
<1>future. /\ future' \in [Pinner -> [AllNames -> FutureStates]]
           /\ \A g \in Pinner, m \in AllNames : future'[g][m] = IF g = h /\ m = n THEN "queued" ELSE future[g][m]
  <2>1. PinTypeOK /\ "queued" \in FutureStates BY DEF PinInv, FutureStates
  <2> QED BY <2>1, <1>1, <1>n, FutureMoves
<1>same. UNCHANGED <<data, shared, found, pinnerAt, counted, cleared>> /\ pinnerAt[h] = "submits" BY DEF Submit
<1>2. PinTypeOK' BY <1>future, <1>same DEF PinInv, PinTypeOK, FutureStates
<1>3. CopiesReady' BY <1>future, <1>same DEF PinInv, CopiesReady
<1>4. SharedTrue' /\ FoundTrue' /\ DataTrue' /\ LockedShared'
  BY <1>future, <1>same, HandsOnly, NamesKnown
<1>5. DoneLocked' BY <1>future, <1>same DEF PinInv, DoneLocked
<1>6. PoolEmpty' BY <1>future, <1>same, NamesKnown DEF PinInv, PoolEmpty
<1> QED BY <1>2, <1>3, <1>4, <1>5, <1>6 DEF PinInv

LEMMA TakingDone ==
  ASSUME PinInv, NEW h \in Pinner, TakeDone(h)
  PROVE  PinInv'
<1>1. PICK n \in At(h, {"done"}) : /\ future'  = To(future, h, n, "taken")
                                   /\ counted' = [counted EXCEPT ![h] = @ \cup {n}]
  BY DEF TakeDone
<1>n. n \in PinList[h] /\ n \in AllNames /\ future[h][n] = "done" BY NamesKnown DEF At
<1>future. /\ future' \in [Pinner -> [AllNames -> FutureStates]]
           /\ \A g \in Pinner, m \in AllNames : future'[g][m] = IF g = h /\ m = n THEN "taken" ELSE future[g][m]
  <2>1. PinTypeOK /\ "taken" \in FutureStates BY DEF PinInv, FutureStates
  <2> QED BY <2>1, <1>1, <1>n, FutureMoves
<1>counted. /\ counted' \in [Pinner -> SUBSET AllNames]
            /\ \A g \in Pinner : \A m \in counted'[g] : m \in counted[g] \/ (g = h /\ m = n)
  BY <1>1, <1>n DEF PinInv, PinTypeOK
<1>same. UNCHANGED <<data, shared, found, pinnerAt, cleared>> /\ pinnerAt[h] = "submits" BY DEF TakeDone
<1>2. PinTypeOK' BY <1>future, <1>counted, <1>same DEF PinInv, PinTypeOK, FutureStates
<1>3. CopiesReady' BY <1>future, <1>same DEF PinInv, CopiesReady
<1>4. SharedTrue' /\ FoundTrue' /\ DataTrue' /\ LockedShared'
  BY <1>future, <1>same, HandsOnly, NamesKnown
<1>5. DoneLocked' BY <1>future, <1>counted, <1>same, <1>n DEF PinInv, DoneLocked
<1>6. PoolEmpty' BY <1>future, <1>same, NamesKnown DEF PinInv, PoolEmpty
<1> QED BY <1>2, <1>3, <1>4, <1>5, <1>6 DEF PinInv

LEMMA TakingFailed ==
  ASSUME PinInv, NEW h \in Pinner, TakeFailed(h)
  PROVE  PinInv'
<1>future. /\ future' \in [Pinner -> [AllNames -> FutureStates]]
           /\ \A g \in Pinner, m \in AllNames : future'[g][m] = future[g][m] \/ (g = h /\ future'[g][m] = "taken")
  <2>1. PICK n \in At(h, {"failed"}) : future' = [future EXCEPT ![h] = [x \in AllNames |->
           IF x = n \/ (PinFallback /\ @[x] = "queued") THEN "taken" ELSE @[x]]]
    BY DEF TakeFailed
  <2> QED BY <2>1 DEF PinInv, PinTypeOK, FutureStates
<1>at. /\ pinnerAt' \in [Pinner -> {"submits", "leaves", "raises", "returned", "raised"}]
       /\ \A g \in Pinner : pinnerAt'[g] \in {"returned", "raised"} => pinnerAt[g] = pinnerAt'[g]
  BY DEF PinInv, PinTypeOK, TakeFailed
<1>same. UNCHANGED <<data, shared, found, counted, cleared>> BY DEF TakeFailed
<1>1. PinTypeOK' BY <1>future, <1>at, <1>same DEF PinInv, PinTypeOK, FutureStates
<1>2. CopiesReady'
  <2> SUFFICES ASSUME NEW g \in Pinner, NEW m \in AllNames, future'[g][m] = "copied"
               PROVE  found'[g][m] \in Origin
    BY DEF CopiesReady
  <2>1. future[g][m] = "copied" BY <1>future
  <2> QED BY <2>1, <1>same DEF PinInv, CopiesReady
<1>3. SharedTrue' /\ FoundTrue' /\ DataTrue' /\ LockedShared'
  <2>1. \A g \in Pinner, m \in AllNames : future'[g][m] = "copied" => future[g][m] = "copied" BY <1>future
  <2> QED BY <2>1, <1>same, HandsOnly, NamesKnown
<1>4. DoneLocked'
  <2>1. \A g \in Pinner, m \in AllNames : future'[g][m] = "done" => future[g][m] = "done" BY <1>future
  <2> QED BY <2>1, <1>same DEF PinInv, DoneLocked
<1>5. PoolEmpty'
  <2>1. \A g \in Pinner, m \in AllNames : future'[g][m] \in Unfinished => future[g][m] \in Unfinished
    BY <1>future DEF Unfinished
  <2> QED BY <2>1, <1>at, NamesKnown DEF PinInv, PoolEmpty
<1> QED BY <1>1, <1>2, <1>3, <1>4, <1>5 DEF PinInv

(* Leaving waits for the workers, which is all PoolEmpty says.             *)
LEMMA LeavingPool ==
  ASSUME PinInv, NEW h \in Pinner, AllTaken(h) \/ LeavePool(h)
  PROVE  PinInv'
<1>same. UNCHANGED <<data, shared, future, found, counted, cleared>> BY DEF AllTaken, LeavePool
<1>at. pinnerAt' \in [Pinner -> {"submits", "leaves", "raises", "returned", "raised"}]
  BY DEF PinInv, PinTypeOK, AllTaken, LeavePool
<1>over. \A g \in Pinner : pinnerAt'[g] \in {"returned", "raised"} =>
           \/ pinnerAt[g] = pinnerAt'[g]
           \/ g = h /\ At(h, Unfinished) = {}
  BY DEF PinInv, PinTypeOK, AllTaken, LeavePool
<1>1. PinTypeOK' BY <1>at, <1>same DEF PinInv, PinTypeOK
<1>2. PoolEmpty' BY <1>over, <1>same DEF PinInv, PoolEmpty, At
<1>3. CopiesReady' /\ DoneLocked' BY <1>same DEF PinInv, CopiesReady, DoneLocked
<1>4. SharedTrue' /\ FoundTrue' /\ DataTrue' /\ LockedShared'
  BY <1>same, HandsOnly, NamesKnown
<1> QED BY <1>1, <1>2, <1>3, <1>4 DEF PinInv

LEMMA Clearing ==
  ASSUME PinInv, ClearShared
  PROVE  PinInv'
<1>same. UNCHANGED <<data, future, found, pinnerAt, counted>> BY DEF ClearShared
<1>none. DOMAIN shared' = {} /\ cleared' = TRUE BY DEF ClearShared
<1>1. PinTypeOK' BY <1>same, <1>none DEF PinInv, PinTypeOK
<1>2. CopiesReady' /\ DoneLocked' /\ PoolEmpty'
  BY <1>same DEF PinInv, CopiesReady, DoneLocked, PoolEmpty
<1>3. SharedTrue' /\ FoundTrue' /\ DataTrue' /\ LockedShared'
  BY <1>same, <1>none DEF PinInv, SharedTrue, FoundTrue, DataTrue, LockedShared, KinOrigins, Kin, NamespaceOf
<1> QED BY <1>1, <1>2, <1>3 DEF PinInv

------------------------------------------------------------------------------
LEMMA PinsStart == PinInit => PinInv
<1> SUFFICES ASSUME PinInit PROVE PinInv OBVIOUS
<1>1. PinTypeOK BY DEF PinInit, PinTypeOK, Origin
<1>2. CopiesReady /\ DoneLocked BY DEF PinInit, CopiesReady, DoneLocked
<1>3. SharedTrue /\ FoundTrue /\ DataTrue /\ LockedShared
  BY NamesKnown, KinKnown DEF PinInit, SharedTrue, FoundTrue, DataTrue, LockedShared
<1>4. PoolEmpty BY DEF PinInit, PoolEmpty
<1> QED BY <1>1, <1>2, <1>3, <1>4 DEF PinInv

LEMMA PinnedAlways == PinSpec => []PinInv
<1>1. PinInit => PinInv BY PinsStart
<1>2. PinInv /\ [PinNext]_pinVars => PinInv'
  <2> SUFFICES ASSUME PinInv, [PinNext]_pinVars PROVE PinInv' OBVIOUS
  <2>1. CASE ClearShared BY <2>1, Clearing
  <2>2. ASSUME NEW h \in Pinner,
               Submit(h) \/ TakeDone(h) \/ TakeFailed(h) \/ AllTaken(h) \/ LeavePool(h)
        PROVE  PinInv'
    BY <2>2, Submitting, TakingDone, TakingFailed, LeavingPool
  <2>3. ASSUME NEW h \in Pinner, NEW n \in PinList[h],
               LookUp(h, n) \/ Copy(h, n) \/ CopyFails(h, n) \/ StoreAndAssign(h, n)
        PROVE  PinInv'
    BY <2>3, LookingUp, Copying, Failing, Storing
  <2>4. CASE UNCHANGED pinVars
    BY <2>4 DEF pinVars, PinInv, PinTypeOK, CopiesReady, SharedTrue, FoundTrue, DataTrue,
                LockedShared, DoneLocked, PoolEmpty, CacheKey, KinOrigins, Kin, NamespaceOf
  <2> QED BY <2>1, <2>2, <2>3, <2>4 DEF PinNext
<1> QED BY <1>1, <1>2, PTL DEF PinSpec

(* A weight is only exchanged for the one of the same name in a model of    *)
(* the same namespace, and hooks of a namespace share one page-locked copy *)
(* of it until the cache is emptied; no byte is counted that is not locked, *)
(* and no worker outlives _pin_linear_weights.                             *)
THEOREM PinsAreTrue == PinSpec => []PinnedTruly
<1>1. PinInv => PinnedTruly
  <2> SUFFICES ASSUME PinInv PROVE PinnedTruly OBVIOUS
  <2>1. WeightsFromKin
    <3> SUFFICES ASSUME NEW h \in Pinner, NEW n \in PinList[h]
                 PROVE  \E g \in Kin(h, n) : data[h][n].of = <<g, n>>
      BY DEF WeightsFromKin
    <3>1. data[h][n].of \in KinOrigins(h, n) BY DEF PinInv, DataTrue
    <3> QED BY <3>1 DEF KinOrigins
  <2>3. OneCopy
    <3> SUFFICES ASSUME ~cleared, NEW h \in Pinner, NEW n \in PinList[h], NEW g \in Kin(h, n),
                        data[g][n].locked, data[h][n].locked
                 PROVE  data[g][n].of = data[h][n].of
      BY DEF OneCopy
    <3>1. g \in Pinner /\ n \in PinList[g] /\ (g = h \/ (PinCached /\ CacheKey(g, n) = CacheKey(h, n)))
      BY DEF Kin, CacheKey
    <3> QED BY <3>1 DEF PinInv, LockedShared
  <2>2. CountsHold
    <3>1. \A h \in Pinner : \A n \in counted[h] : data[h][n].locked BY DEF PinInv, PinTypeOK, DoneLocked
    <3>2. \A h \in Pinner : pinnerAt[h] \in {"returned", "raised"} => At(h, Unfinished) = {}
      BY DEF PinInv, PoolEmpty, At
    <3> QED BY <3>1, <3>2 DEF CountsHold
  <2> QED BY <2>1, <2>2, <2>3 DEF PinnedTruly
<1> QED BY <1>1, PinnedAlways, PTL

------------------------------------------------------------------------------
(* Lent weights *)

FrameSet == [layer : Layer, todo : Seq(Parameter), kept : SUBSET Parameter, was : SUBSET Parameter]

Owes(fs, i, p) == p \in fs[i].kept /\ p \notin fs[i].was

(* Every copy is owed by a frame.                                          *)
CopiesOwed == \A p \in lent : \E i \in 1 .. Len(frames) : Owes(frames, i, p)

(* What a frame found as a copy is owed by one beneath it,                 *)
FoundOwed ==
  \A i \in 1 .. Len(frames) : \A p \in frames[i].was : \E j \in 1 .. i - 1 : Owes(frames, j, p)

(* is a copy still,                                                        *)
FoundLent == \A i \in 1 .. Len(frames) : frames[i].was \subseteq lent

(* and was found as one by the frames above that keep it.                  *)
FoundAbove ==
  \A k \in 1 .. Len(frames) : \A i \in 1 .. k - 1 : \A p \in frames[i].was :
    p \in frames[k].kept => p \in frames[k].was

(* A convolution that is closed to calls has a frame that will open it.    *)
ActiveFramed ==
  \A l \in convolving : KindOf[l] = "conv" /\ \E i \in 1 .. Len(frames) : frames[i].layer = l

LendInv ==
  /\ frames \in Seq(FrameSet) /\ lent \subseteq Parameter
  /\ CopiesOwed /\ FoundOwed /\ FoundLent /\ FoundAbove /\ ActiveFramed

------------------------------------------------------------------------------
(* A forward begins: its frame is on top, and nothing beneath changes.  The *)
(* new copies are among what it keeps.                                     *)
LEMMA Pushing ==
  ASSUME LendInv, NEW l \in Layer, NEW todo \in Seq(Parameter), NEW kept \in SUBSET Parameter, NEW new \in SUBSET kept,
         frames' = Append(frames, Frame(l, todo, kept)),
         lent' = lent \cup new,
         convolving' \subseteq convolving \cup (IF KindOf[l] = "conv" THEN {l} ELSE {})
  PROVE  LendInv'
<1> DEFINE n == Len(frames)
           f == Frame(l, todo, kept)
<1>1. f \in FrameSet /\ f.layer = l /\ f.kept = kept /\ f.was = kept \cap lent
  BY DEF Frame, FrameSet, LendInv
<1>2. /\ n \in Nat /\ frames' \in Seq(FrameSet) /\ Len(frames') = n + 1
      /\ \A i \in 1 .. n : frames'[i] = frames[i]
      /\ frames'[n + 1] = f
  BY <1>1, AppendProperties, LenProperties DEF LendInv
<1> HIDE DEF f
<1>3. \A i \in 1 .. n + 1 : i \in 1 .. n \/ i = n + 1
  BY <1>2
<1>4. \A i \in 1 .. n : \A p : Owes(frames', i, p) <=> Owes(frames, i, p)
  BY <1>2 DEF Owes
<1>5. CopiesOwed'
  <2> SUFFICES ASSUME NEW p \in lent' PROVE \E i \in 1 .. n + 1 : Owes(frames', i, p)
    BY <1>2 DEF CopiesOwed
  <2>1. CASE p \in lent
    BY <2>1, <1>2, <1>4 DEF LendInv, CopiesOwed
  <2>2. CASE p \notin lent
    <3>1. p \in kept
      BY <2>2
    <3>2. Owes(frames', n + 1, p)
      BY <2>2, <3>1, <1>1, <1>2 DEF Owes
    <3> QED
      BY <3>2, <1>2
  <2> QED
    BY <2>1, <2>2
<1>6. FoundOwed'
  <2> SUFFICES ASSUME NEW i \in 1 .. n + 1, NEW p \in frames'[i].was PROVE \E j \in 1 .. i - 1 : Owes(frames', j, p)
    BY <1>2 DEF FoundOwed
  <2>1. CASE i \in 1 .. n
    <3>1. \E j \in 1 .. i - 1 : Owes(frames, j, p)
      BY <2>1, <1>2 DEF LendInv, FoundOwed
    <3> QED
      BY <2>1, <3>1, <1>2, <1>4
  <2>2. CASE i = n + 1
    <3>1. \E j \in 1 .. n : Owes(frames, j, p)
      BY <2>2, <1>1, <1>2 DEF LendInv, CopiesOwed
    <3> QED
      BY <2>2, <3>1, <1>2, <1>4
  <2> QED
    BY <1>3, <2>1, <2>2
<1>7. FoundLent'
  BY <1>1, <1>2, <1>3 DEF LendInv, FoundLent
<1>8. FoundAbove'
  <2> SUFFICES ASSUME NEW k \in 1 .. n + 1, NEW i \in 1 .. k - 1, NEW p \in frames'[i].was, p \in frames'[k].kept
               PROVE  p \in frames'[k].was
    BY <1>2 DEF FoundAbove
  <2>1. i \in 1 .. n /\ p \in frames[i].was
    BY <1>2
  <2>2. CASE k \in 1 .. n
    BY <2>1, <2>2, <1>2 DEF LendInv, FoundAbove
  <2>3. CASE k = n + 1
    BY <2>1, <2>3, <1>1, <1>2 DEF LendInv, FoundLent
  <2> QED
    BY <1>3, <2>2, <2>3
<1>9. ActiveFramed'
  <2> SUFFICES ASSUME NEW c \in convolving' PROVE KindOf[c] = "conv" /\ \E i \in 1 .. n + 1 : frames'[i].layer = c
    BY <1>2 DEF ActiveFramed
  <2>1. CASE c \in convolving
    BY <2>1, <1>2 DEF LendInv, ActiveFramed
  <2>2. CASE c \notin convolving
    BY <2>2, <1>1, <1>2
  <2> QED
    BY <2>1, <2>2
<1> QED
  BY <1>2, <1>5, <1>6, <1>7, <1>8, <1>9 DEF LendInv

(* The next parameter is lent: the frame on top owes one more, or goes on. *)
LEMMA Lending == LendInv /\ LendNext => LendInv'
<1> SUFFICES ASSUME LendInv, LendNext PROVE LendInv'
  OBVIOUS
<1> DEFINE n == Len(frames)
           f == frames[n]
           p == Head(f.todo)
           stays == p \in OnDevice \/ p \in lent
           g == [f EXCEPT !.todo = Tail(@), !.kept = IF stays THEN @ ELSE @ \cup {p}]
<1>1. /\ n \in Nat /\ n \in 1 .. n /\ f \in FrameSet /\ f.todo # <<>>
      /\ frames' = [frames EXCEPT ![n] = g]
      /\ lent' = IF stays THEN lent ELSE lent \cup {p}
      /\ convolving' = convolving
  <2>1. frames # <<>> /\ frames \in Seq(FrameSet)
    BY DEF LendNext, LendInv
  <2>2. n \in Nat /\ n # 0
    BY <2>1, LenProperties, EmptySeq
  <2> QED
    BY <2>1, <2>2, ElementOfSeq DEF LendNext, Last
<1>2. p \in Parameter /\ Tail(f.todo) \in Seq(Parameter)
  BY <1>1, HeadTailProperties DEF FrameSet
<1>3. g \in FrameSet /\ g.layer = f.layer /\ g.was = f.was
      /\ g.kept = IF stays THEN f.kept ELSE f.kept \cup {p}
  BY <1>1, <1>2 DEF FrameSet
<1> HIDE DEF g
<1>4. /\ frames' \in Seq(FrameSet) /\ Len(frames') = n
      /\ \A i \in 1 .. n : frames'[i] = IF i = n THEN g ELSE frames[i]
  BY <1>1, <1>3, ExceptSeq DEF LendInv
<1>5. \A i \in 1 .. n : \A q : Owes(frames, i, q) => Owes(frames', i, q)
  BY <1>3, <1>4 DEF Owes
<1>6. \A i \in 1 .. n : frames'[i].was = frames[i].was /\ frames'[i].layer = frames[i].layer
  BY <1>3, <1>4
<1>7. CopiesOwed'
  <2> SUFFICES ASSUME NEW q \in lent' PROVE \E i \in 1 .. n : Owes(frames', i, q)
    BY <1>4 DEF CopiesOwed
  <2>1. CASE q \in lent
    BY <2>1, <1>5 DEF LendInv, CopiesOwed
  <2>2. CASE q \notin lent
    <3>1. q = p /\ ~stays
      BY <2>2, <1>1
    <3>2. q \notin f.was
      BY <2>2, <1>1 DEF LendInv, FoundLent
    <3>3. Owes(frames', n, q)
      BY <3>1, <3>2, <1>1, <1>3, <1>4 DEF Owes
    <3> QED
      BY <3>3, <1>1
  <2> QED
    BY <2>1, <2>2
<1>8. FoundOwed'
  <2> SUFFICES ASSUME NEW i \in 1 .. n, NEW q \in frames'[i].was PROVE \E j \in 1 .. i - 1 : Owes(frames', j, q)
    BY <1>4 DEF FoundOwed
  <2>1. PICK j \in 1 .. i - 1 : Owes(frames, j, q)
    BY <1>6 DEF LendInv, FoundOwed
  <2>2. j \in 1 .. n
    BY <1>1
  <2> QED
    BY <2>1, <2>2, <1>5
<1>9. FoundLent'
  BY <1>1, <1>4, <1>6 DEF LendInv, FoundLent
<1>10. FoundAbove'
  <2> SUFFICES ASSUME NEW k \in 1 .. n, NEW i \in 1 .. k - 1, NEW q \in frames'[i].was, q \in frames'[k].kept
               PROVE  q \in frames'[k].was
    BY <1>4 DEF FoundAbove
  <2>1. i \in 1 .. n /\ q \in frames[i].was
    BY <1>1, <1>6
  <2>2. q \in lent
    BY <2>1 DEF LendInv, FoundLent
  <2>3. q \in frames[k].kept
    BY <2>2, <1>3, <1>4
  <2> QED
    BY <2>1, <2>3, <1>6 DEF LendInv, FoundAbove
<1>11. ActiveFramed'
  <2> SUFFICES ASSUME NEW c \in convolving' PROVE KindOf[c] = "conv" /\ \E i \in 1 .. n : frames'[i].layer = c
    BY <1>4 DEF ActiveFramed
  <2>1. c \in convolving
    BY <1>1
  <2> QED
    BY <2>1, <1>6 DEF LendInv, ActiveFramed
<1>12. lent' \subseteq Parameter
  BY <1>1, <1>2 DEF LendInv
<1> QED
  BY <1>4, <1>7, <1>8, <1>9, <1>10, <1>11, <1>12 DEF LendInv

(* A forward ends: what its frame found as a copy is owed beneath it.      *)
LEMMA Ending == LendInv /\ EndForwardCall => LendInv'
<1> SUFFICES ASSUME LendInv, EndForwardCall PROVE LendInv'
  OBVIOUS
<1> DEFINE n == Len(frames)
           f == frames[n]
<1>1. /\ n \in Nat /\ n \in 1 .. n /\ f \in FrameSet
      /\ frames' = SubSeq(frames, 1, n - 1)
      /\ lent' = (lent \ f.kept) \cup f.was
      /\ convolving' = IF KindOf[f.layer] = "conv" THEN convolving \ {f.layer} ELSE convolving
  <2>1. frames # <<>> /\ frames \in Seq(FrameSet)
    BY DEF EndForwardCall, LendInv
  <2>2. n \in Nat /\ n # 0
    BY <2>1, LenProperties, EmptySeq
  <2> QED
    BY <2>1, <2>2, ElementOfSeq DEF EndForwardCall, EndForwardOf, GiveBack, Last, Front
<1>2. /\ frames' \in Seq(FrameSet) /\ Len(frames') = n - 1
      /\ \A i \in 1 .. n - 1 : frames'[i] = frames[i]
  <2>1. \A i \in 1 .. n - 1 : frames[i] \in FrameSet
    BY <1>1, ElementOfSeq DEF LendInv
  <2>2. /\ SubSeq(frames, 1, n - 1) \in Seq(FrameSet)
        /\ Len(SubSeq(frames, 1, n - 1)) = (IF 1 <= n - 1 THEN (n - 1) - 1 + 1 ELSE 0)
        /\ \A i \in 1 .. (n - 1) - 1 + 1 : SubSeq(frames, 1, n - 1)[i] = frames[1 + i - 1]
    <3>1. 1 \in Int /\ n - 1 \in Int
      BY <1>1
    <3> QED
      BY <2>1, <3>1, SubSeqProperties
  <2>3. (n - 1) - 1 + 1 = n - 1 /\ \A i \in 1 .. n - 1 : 1 + i - 1 = i
    BY <1>1
  <2>4. (IF 1 <= n - 1 THEN (n - 1) - 1 + 1 ELSE 0) = n - 1
    <3> HIDE DEF n
    <3>1. n - 1 \in Nat /\ (1 <= n - 1 \/ n - 1 = 0)
      BY <1>1
    <3>2. CASE 1 <= n - 1
      BY <2>3, <3>2
    <3>3. CASE n - 1 = 0
      BY <3>3
    <3> QED
      BY <3>1, <3>2, <3>3
  <2> QED
    BY <2>2, <2>3, <2>4, <1>1
<1>3. \A i \in 1 .. n - 1 : \A p : Owes(frames', i, p) <=> Owes(frames, i, p)
  BY <1>2 DEF Owes
<1>4. \A i \in 1 .. n : i \in 1 .. n - 1 \/ i = n
  BY <1>1
<1>5. CopiesOwed'
  <2> SUFFICES ASSUME NEW p \in lent' PROVE \E i \in 1 .. n - 1 : Owes(frames', i, p)
    BY <1>2 DEF CopiesOwed
  <2>1. CASE p \in f.was
    BY <2>1, <1>1, <1>3 DEF LendInv, FoundOwed
  <2>2. CASE p \in lent /\ p \notin f.kept
    <3>1. PICK i \in 1 .. n : Owes(frames, i, p)
      BY <2>2 DEF LendInv, CopiesOwed
    <3>2. i # n
      BY <2>2, <3>1 DEF Owes
    <3> QED
      BY <3>1, <3>2, <1>3, <1>4
  <2> QED
    BY <2>1, <2>2, <1>1
<1>6. FoundOwed'
  <2> SUFFICES ASSUME NEW i \in 1 .. n - 1, NEW p \in frames'[i].was PROVE \E j \in 1 .. i - 1 : Owes(frames', j, p)
    BY <1>2 DEF FoundOwed
  <2>1. \E j \in 1 .. i - 1 : Owes(frames, j, p)
    BY <1>1, <1>2 DEF LendInv, FoundOwed
  <2> QED
    BY <2>1, <1>1, <1>3
<1>7. FoundLent'
  <2> SUFFICES ASSUME NEW i \in 1 .. n - 1, NEW p \in frames'[i].was PROVE p \in lent'
    BY <1>2 DEF FoundLent
  <2>1. p \in frames[i].was /\ i \in 1 .. n
    BY <1>1, <1>2
  <2>2. p \in lent
    BY <2>1 DEF LendInv, FoundLent
  <2>3. p \in f.kept => p \in f.was
    BY <2>1, <1>1 DEF LendInv, FoundAbove
  <2> QED
    BY <2>2, <2>3, <1>1
<1>8. FoundAbove'
  BY <1>1, <1>2 DEF LendInv, FoundAbove
<1>9. ActiveFramed'
  <2> SUFFICES ASSUME NEW c \in convolving' PROVE KindOf[c] = "conv" /\ \E i \in 1 .. n - 1 : frames'[i].layer = c
    BY <1>2 DEF ActiveFramed
  <2>1. c \in convolving
    BY <1>1
  <2>2. KindOf[c] = "conv"
    BY <2>1 DEF LendInv, ActiveFramed
  <2>3. PICK i \in 1 .. n : frames[i].layer = c
    BY <2>1 DEF LendInv, ActiveFramed
  <2>4. i # n
    BY <2>2, <2>3, <1>1
  <2> QED
    BY <2>2, <2>3, <2>4, <1>2, <1>4
<1>10. lent' \subseteq Parameter
  BY <1>1 DEF LendInv, FrameSet
<1> QED
  BY <1>2, <1>5, <1>6, <1>7, <1>8, <1>9, <1>10 DEF LendInv

------------------------------------------------------------------------------
(* The parts hold at first and in every step.                              *)
LEMMA LentAlways == LendSpec => []LendInv
<1>1. LendInit => LendInv
  <2> SUFFICES ASSUME LendInit PROVE LendInv
    OBVIOUS
  <2>1. frames = <<>> /\ Len(frames) = 0 /\ frames \in Seq(FrameSet) /\ lent = {} /\ convolving = {}
    BY DEF LendInit
  <2> QED
    BY <2>1 DEF LendInv, CopiesOwed, FoundOwed, FoundLent, FoundAbove, ActiveFramed
<1>2. LendInv /\ [LendingNext]_lendVars => LendInv'
  <2> SUFFICES ASSUME LendInv, [LendingNext]_lendVars PROVE LendInv'
    OBVIOUS
  <2>1. ASSUME NEW l \in Layer, BeginDense(l) PROVE LendInv'
    <3> DEFINE ps == IF Swap THEN ToSet(ParametersOf[l]) ELSE {}
    <3>1. ToSet(ParametersOf[l]) \subseteq Parameter
      BY DEF Parameter
    <3>2. PICK casts \in SUBSET (IF KindOf[l] = "linear" THEN ps ELSE {}) :
            lent' = lent \cup {p \in ps : p \notin OnDevice \/ p \in casts}
      BY <2>1 DEF BeginDense
    <3>3. frames' = Append(frames, Frame(l, <<>>, ps)) /\ convolving' = convolving
      BY <2>1 DEF BeginDense
    <3>4. <<>> \in Seq(Parameter) /\ ps \in SUBSET Parameter /\ {p \in ps : p \notin OnDevice \/ p \in casts} \in SUBSET ps
      BY <3>1
    <3> HIDE DEF ps
    <3> QED
      BY <3>2, <3>3, <3>4, Pushing
  <2>2. ASSUME NEW l \in Layer, BeginPacked(l) PROVE LendInv'
    <3>1. ParametersOf[l] \in Seq(Parameter)
      BY LendAssumption
    <3>2. frames' = Append(frames, Frame(l, ParametersOf[l], {})) /\ lent' = lent \cup {} /\ convolving' = convolving
      BY <2>2 DEF BeginPacked
    <3>3. {} \in SUBSET Parameter /\ {} \in SUBSET {}
      OBVIOUS
    <3> QED
      BY <3>1, <3>2, <3>3, Pushing, Zenon
  <2>3. ASSUME NEW l \in Layer, BeginConvolution(l) PROVE LendInv'
    <3>1. ParametersOf[l] \in Seq(Parameter) /\ ToSet(ParametersOf[l]) \in SUBSET Parameter
      BY LendAssumption DEF Parameter
    <3>2. /\ frames' = Append(frames, Frame(l, ParametersOf[l], ToSet(ParametersOf[l])))
          /\ lent' = lent \cup {} /\ convolving' = convolving \cup {l} /\ KindOf[l] = "conv"
      BY <2>3 DEF BeginConvolution
    <3> QED
      BY <3>1, <3>2, Pushing
  <2>4. CASE LendNext
    BY <2>4, Lending
  <2>5. CASE EndForwardCall
    BY <2>5, Ending
  <2>6. CASE DetachHook \/ DeinitializeHook \/ AttachAgain \/ UNCHANGED lendVars
    <3>1. UNCHANGED <<lent, frames, convolving>>
      BY <2>6 DEF DetachHook, DeinitializeHook, AttachAgain, lendVars
    <3> QED
      BY <3>1 DEF LendInv, CopiesOwed, FoundOwed, FoundLent, FoundAbove, ActiveFramed, Owes
  <2> QED
    BY <2>1, <2>2, <2>3, <2>4, <2>5, <2>6 DEF LendingNext
<1> QED
  BY <1>1, <1>2, PTL DEF LendSpec

(* Between forwards no parameter is a copy and no convolution is closed:    *)
(* the finally blocks of nested forwards undo each other, for parameters   *)
(* shared in any way and exceptions at any point.                          *)
THEOREM LentComesBack == LendSpec => []SourcesReturn
<1>1. LendInv => SourcesReturn
  <2> SUFFICES ASSUME LendInv, frames = <<>> PROVE lent = {} /\ convolving = {}
    BY DEF SourcesReturn
  <2>1. Len(frames) = 0
    OBVIOUS
  <2> QED
    BY <2>1 DEF LendInv, CopiesOwed, ActiveFramed
<1> QED
  BY <1>1, LentAlways, PTL
===============================================================================
