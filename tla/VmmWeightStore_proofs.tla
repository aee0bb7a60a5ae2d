------------------------- MODULE VmmWeightStore_proofs -------------------------
(***************************************************************************)
(* The store of single weights, for any keys and sizes, any number of      *)
(* callers and streams, any budget, and driver calls that fail anywhere.   *)
(*                                                                         *)
(* The argument has two layers.  Basics needs nothing of the streams: one  *)
(* caller at a time holds the lock, what it decided from the slots stays   *)
(* true until it acts (Positions), every lease is somebody's (Leased), and *)
(* the bytes are those of the handles (Accounted).  Ordered is about       *)
(* callers that share a stream: a read that is outstanding is behind its   *)
(* copy and is kept by a lease or a release event (ReadsProtected).        *)
(***************************************************************************)
EXTENDS VmmWeightStore, TLAPS, SequenceTheorems, FiniteSetTheorems

Locked == \A c, d \in Caller : at[c] \in Holding /\ at[d] \in Holding => c = d

(* What a caller found under the lock still holds where it is.             *)
Positions ==
  \A c \in Caller :
    /\ at[c] \in {"reserved", "room", "leased", "evict"} => wants[c] \in Key
    /\ at[c] = "room" => wants[c] \notin handle
    /\ at[c] = "evict" => wants[c] \in handle /\ leases[wants[c]] = 0

Holders(k) == {c \in Caller : at[c] = "leased" /\ wants[c] = k}

Leased ==
  \A k \in Key :
    /\ IsFiniteSet(Holders(k)) /\ leases[k] = Cardinality(Holders(k))
    /\ leases[k] > 0 => k \in viewed

Accounted == IsFiniteSet(Granules(handle)) /\ ResidentAccounted

Basics == TypeOK /\ viewed \subseteq backed /\ Locked /\ Positions /\ Leased /\ Accounted

(* All callers have the same current stream.                               *)
SharedStream == \A c, d \in Caller : StreamOf[c] = StreamOf[d]

(* Nothing but the callers' operations is on the streams.                  *)
OnlyCallers ==
  \A s \in Stream : (\A c \in Caller : StreamOf[c] # s) => queue[s] = <<>>

(* The copy of k stands in the first n operations of stream s.             *)
CopyAhead(k, s, n) == \E j \in 1 .. n : queue[s][j].kind = "copy" /\ queue[s][j].key = k

(* A weight with a view is complete or its copy is on the way.             *)
Landing ==
  \A k \in viewed : k \in complete \/ \E s \in Stream : CopyAhead(k, s, Len(queue[s]))

ReadsProtected ==
  \A s \in Stream : \A i \in 1 .. Len(queue[s]) : queue[s][i].kind = "read" =>
    LET k == queue[s][i].key IN
    /\ k \in viewed
    /\ leases[k] > 0 \/ (event[k].stream = s /\ i <= event[k].left)
    /\ k \in complete \/ CopyAhead(k, s, i - 1)

Ordered == OnlyCallers /\ Landing /\ ReadsProtected

IInv == Basics /\ Ordered

------------------------------------------------------------------------------
(* Granules *)

(* A slot adds its own granules, and takes them away.                      *)
LEMMA GranulesOf ==
  ASSUME NEW K \in SUBSET Key, IsFiniteSet(Granules(K)), NEW k \in Key
  PROVE  /\ k \notin K =>
              /\ IsFiniteSet(Granules(K \cup {k}))
              /\ Cardinality(Granules(K \cup {k})) = Cardinality(Granules(K)) + Size[k]
         /\ k \in K =>
              /\ IsFiniteSet(Granules(K \ {k}))
              /\ Cardinality(Granules(K \ {k})) = Cardinality(Granules(K)) - Size[k]
<1> DEFINE own == {k} \X (1 .. Size[k])
<1>1. IsFiniteSet(own) /\ Cardinality(own) = Size[k]
  <2>1. Size[k] \in Nat BY StoreAssumption
  <2>2. IsFiniteSet({k}) /\ Cardinality({k}) = 1 BY FS_Singleton
  <2>3. IsFiniteSet(1 .. Size[k]) /\ Cardinality(1 .. Size[k]) = Size[k] BY <2>1, FS_Interval
  <2>4. IsFiniteSet(own) /\ Cardinality(own) = Cardinality({k}) * Cardinality(1 .. Size[k])
    BY <2>2, <2>3, FS_Product
  <2> QED BY <2>1, <2>2, <2>3, <2>4
<1>2. Granules(K \cup {k}) = Granules(K) \cup own BY DEF Granules
<1>3. Granules(K \ {k}) = Granules(K) \ own
  <2>1. \A q \in K : q # k => ({q} \X (1 .. Size[q])) \cap own = {} OBVIOUS
  <2> QED BY <2>1 DEF Granules
<1>4. k \notin K => Granules(K) \cap own = {} BY DEF Granules
<1>5. k \in K => Granules(K) \cap own = own BY DEF Granules
<1>6. Cardinality(Granules(K)) \in Nat /\ Size[k] \in Nat BY FS_CardinalityType, StoreAssumption
<1> HIDE DEF own
<1>7. ASSUME k \notin K
      PROVE  /\ IsFiniteSet(Granules(K \cup {k}))
             /\ Cardinality(Granules(K \cup {k})) = Cardinality(Granules(K)) + Size[k]
  <2>1. /\ IsFiniteSet(Granules(K) \cup own)
        /\ Cardinality(Granules(K) \cup own) =
             Cardinality(Granules(K)) + Cardinality(own) - Cardinality(Granules(K) \cap own)
    BY <1>1, FS_Union
  <2>2. Cardinality(Granules(K) \cap own) = 0 BY <1>4, <1>7, FS_EmptySet
  <2>3. Cardinality(Granules(K) \cup own) = Cardinality(Granules(K)) + Size[k]
    BY <1>1, <1>6, <2>1, <2>2
  <2> QED BY <1>2, <2>1, <2>3
<1>8. ASSUME k \in K
      PROVE  /\ IsFiniteSet(Granules(K \ {k}))
             /\ Cardinality(Granules(K \ {k})) = Cardinality(Granules(K)) - Size[k]
  <2>1. /\ IsFiniteSet(Granules(K) \ own)
        /\ Cardinality(Granules(K) \ own) = Cardinality(Granules(K)) - Cardinality(Granules(K) \cap own)
    BY FS_Difference
  <2> QED BY <1>1, <1>3, <1>5, <1>8, <2>1
<1> QED BY <1>7, <1>8

------------------------------------------------------------------------------
(* Steps of one caller *)

Labels == {"idle", "reserved", "room", "leased", "evict", "close"}

(* Caller c moves to a label, and nobody else moves.                       *)
Moves(c, label) ==
  /\ at' \in [Caller -> Labels] /\ wants' \in [Caller -> Key \cup {Nothing}]
  /\ at'[c] = label
  /\ \A d \in Caller : d # c => at'[d] = at[d] /\ wants'[d] = wants[d]

LEMMA Turns ==
  ASSUME TypeOK, NEW c \in Caller, NEW label \in Labels
  PROVE  /\ GoTo(c, label) => Moves(c, label) /\ (label # "idle" => wants'[c] = wants[c])
         /\ \A k \in Key : Begin(c, label, k) => Moves(c, label) /\ wants'[c] = k
BY DEF TypeOK, GoTo, Begin, Moves, Labels

LEMMA LockStep ==
  ASSUME Locked, NEW c \in Caller, NEW label, Moves(c, label),
         label \in Holding => LockFree \/ at[c] \in Holding
  PROVE  Locked'
BY DEF Locked, LockFree, Moves

(* Under the lock, or with the slots as they were, a step disturbs nobody  *)
(* else.                                                                   *)
LEMMA PositionStep ==
  ASSUME Locked, Positions, NEW c \in Caller, NEW label, Moves(c, label),
         LockFree \/ at[c] \in Holding \/ UNCHANGED <<handle, leases>>,
         label \in {"reserved", "room", "leased", "evict"} => wants'[c] \in Key,
         label = "room" => wants'[c] \notin handle',
         label = "evict" => wants'[c] \in handle' /\ leases'[wants'[c]] = 0
  PROVE  Positions'
<1> SUFFICES ASSUME NEW d \in Caller, d # c
             PROVE  /\ at[d] \in {"reserved", "room", "leased", "evict"} => wants[d] \in Key
                    /\ at[d] = "room" => wants[d] \notin handle'
                    /\ at[d] = "evict" => wants[d] \in handle' /\ leases'[wants[d]] = 0
  BY DEF Positions, Moves
<1>1. CASE UNCHANGED <<handle, leases>> BY <1>1 DEF Positions
<1>2. CASE LockFree \/ at[c] \in Holding BY <1>2 DEF Positions, Locked, LockFree, Holding
<1> QED BY <1>1, <1>2

(* The leases are the same, and no leased view goes.                       *)
LEMMA LeasesKept ==
  ASSUME Leased, NEW c \in Caller, NEW label, Moves(c, label),
         at[c] # "leased", label # "leased", leases' = leases,
         \A k \in Key : leases[k] > 0 /\ k \in viewed => k \in viewed'
  PROVE  Leased'
<1>1. \A k \in Key : Holders(k)' = Holders(k) BY DEF Holders, Moves
<1> QED BY <1>1 DEF Leased

LEMMA LeaseTaken ==
  ASSUME TypeOK, Leased, NEW c \in Caller, Moves(c, "leased"),
         at[c] # "leased", NEW k \in Key, wants[c] = k, wants'[c] = k,
         leases' = [leases EXCEPT ![k] = @ + 1],
         viewed \subseteq viewed', k \in viewed'
  PROVE  Leased'
<1>1. Holders(k)' = Holders(k) \cup {c} /\ c \notin Holders(k) BY DEF Holders, Moves
<1>2. \A q \in Key \ {k} : Holders(q)' = Holders(q) BY DEF Holders, Moves
<1>3. leases'[k] = leases[k] + 1 /\ \A q \in Key \ {k} : leases'[q] = leases[q] BY DEF TypeOK
<1>4. IsFiniteSet(Holders(k)') /\ leases'[k] = Cardinality(Holders(k)')
  <2>1. IsFiniteSet(Holders(k)) /\ leases[k] = Cardinality(Holders(k)) BY DEF Leased
  <2>2. /\ IsFiniteSet(Holders(k) \cup {c})
        /\ Cardinality(Holders(k) \cup {c}) = Cardinality(Holders(k)) + 1
    BY <2>1, <1>1, FS_AddElement
  <2> QED BY <2>1, <2>2, <1>1, <1>3
<1>5. \A q \in Key \ {k} :
        /\ IsFiniteSet(Holders(q)') /\ leases'[q] = Cardinality(Holders(q)')
        /\ leases'[q] > 0 => q \in viewed'
  BY <1>2, <1>3 DEF Leased
<1> QED BY <1>4, <1>5 DEF Leased

LEMMA LeaseGiven ==
  ASSUME TypeOK, Leased, NEW c \in Caller, Moves(c, "idle"),
         at[c] = "leased", NEW k \in Key, wants[c] = k,
         leases' = [leases EXCEPT ![k] = @ - 1], viewed' = viewed
  PROVE  Leased' /\ leases' \in [Key -> Nat] /\ leases[k] > 0
<1>1. Holders(k)' = Holders(k) \ {c} /\ c \in Holders(k) BY DEF Holders, Moves
<1>2. \A q \in Key \ {k} : Holders(q)' = Holders(q) BY DEF Holders, Moves
<1>3. leases'[k] = leases[k] - 1 /\ \A q \in Key \ {k} : leases'[q] = leases[q] BY DEF TypeOK
<1>4. IsFiniteSet(Holders(k)') /\ leases'[k] = Cardinality(Holders(k)') /\ leases[k] > 0
  <2>1. IsFiniteSet(Holders(k)) /\ leases[k] = Cardinality(Holders(k)) BY DEF Leased
  <2>2. leases[k] \in Nat /\ leases[k] # 0
    BY <2>1, <1>1, FS_EmptySet DEF TypeOK
  <2>3. /\ IsFiniteSet(Holders(k) \ {c})
        /\ Cardinality(Holders(k) \ {c}) = Cardinality(Holders(k)) - 1
    BY <2>1, <1>1, FS_RemoveElement
  <2> QED BY <2>1, <2>2, <2>3, <1>1, <1>3
<1>5. \A q \in Key \ {k} :
        /\ IsFiniteSet(Holders(q)') /\ leases'[q] = Cardinality(Holders(q)')
        /\ leases'[q] > 0 => q \in viewed'
  BY <1>2, <1>3 DEF Leased
<1>6. leases'[k] > 0 => k \in viewed'
  BY <1>3, <1>4 DEF Leased, TypeOK
<1>7. leases' \in [Key -> Nat]
  <2>1. leases'[k] \in Nat BY <1>3, <1>4 DEF TypeOK
  <2> QED BY <2>1, <1>3 DEF TypeOK
<1> QED BY <1>1, <1>4, <1>5, <1>6, <1>7 DEF Leased

------------------------------------------------------------------------------
(* The order of use *)

LEMMA RemoveAtOf ==
  ASSUME NEW S, NEW s \in Seq(S), NEW i \in 1 .. Len(s)
  PROVE  /\ RemoveAt(s, i) \in Seq(S)
         /\ Len(RemoveAt(s, i)) = Len(s) - 1
         /\ \A j \in 1 .. Len(s) - 1 : RemoveAt(s, i)[j] = IF j < i THEN s[j] ELSE s[j + 1]
<1> DEFINE n == Len(s) p == SubSeq(s, 1, i - 1) q == SubSeq(s, i + 1, n)
<1>0. n \in Nat /\ i \in 1 .. n BY LenProperties
<1>1. \A j \in 1 .. n : s[j] \in S BY ElementOfSeq
<1>2. /\ p \in Seq(S) /\ Len(p) = i - 1
      /\ \A j \in 1 .. i - 1 : p[j] = s[j]
  <2>1. \A j \in 1 .. i - 1 : s[j] \in S BY <1>0, <1>1
  <2>2. 1 \in Int /\ i - 1 \in Int BY <1>0
  <2>3. /\ p \in Seq(S) /\ Len(p) = (IF 1 <= i - 1 THEN i - 1 - 1 + 1 ELSE 0)
        /\ \A j \in 1 .. i - 1 - 1 + 1 : p[j] = s[1 + j - 1]
    BY <2>1, <2>2, SubSeqProperties
  <2>4. (IF 1 <= i - 1 THEN i - 1 - 1 + 1 ELSE 0) = i - 1 BY <1>0
  <2>5. i - 1 - 1 + 1 = i - 1 /\ \A j \in 1 .. i - 1 : 1 + j - 1 = j BY <1>0
  <2> HIDE DEF p
  <2> QED BY <2>3, <2>4, <2>5
<1>3. /\ q \in Seq(S) /\ Len(q) = n - i
      /\ \A j \in 1 .. n - i : q[j] = s[i + j]
  <2>1. \A j \in i + 1 .. n : s[j] \in S BY <1>0, <1>1
  <2>2. i + 1 \in Int /\ n \in Int BY <1>0
  <2>3. /\ q \in Seq(S) /\ Len(q) = (IF i + 1 <= n THEN n - (i + 1) + 1 ELSE 0)
        /\ \A j \in 1 .. n - (i + 1) + 1 : q[j] = s[(i + 1) + j - 1]
    BY <2>1, <2>2, SubSeqProperties
  <2>4. (IF i + 1 <= n THEN n - (i + 1) + 1 ELSE 0) = n - i BY <1>0
  <2>5. n - (i + 1) + 1 = n - i /\ \A j \in 1 .. n - i : (i + 1) + j - 1 = i + j BY <1>0
  <2> HIDE DEF q
  <2> QED BY <2>3, <2>4, <2>5
<1> HIDE DEF n, p, q
<1>4. /\ p \o q \in Seq(S) /\ Len(p \o q) = n - 1
      /\ \A j \in 1 .. n - 1 : (p \o q)[j] = IF j <= i - 1 THEN p[j] ELSE q[j - (i - 1)]
  <2>1. /\ p \o q \in Seq(S) /\ Len(p \o q) = Len(p) + Len(q)
        /\ \A j \in 1 .. Len(p) + Len(q) : (p \o q)[j] = IF j <= Len(p) THEN p[j] ELSE q[j - Len(p)]
    BY <1>2, <1>3, ConcatProperties
  <2>2. Len(p) + Len(q) = n - 1 BY <1>0, <1>2, <1>3
  <2> QED BY <2>1, <2>2, <1>2
<1>5. \A j \in 1 .. n - 1 : (p \o q)[j] = IF j < i THEN s[j] ELSE s[j + 1]
  <2> SUFFICES ASSUME NEW j \in 1 .. n - 1 PROVE (p \o q)[j] = IF j < i THEN s[j] ELSE s[j + 1]
    OBVIOUS
  <2>1. CASE j < i
    <3>1. j \in 1 .. i - 1 /\ j <= i - 1 BY <1>0, <2>1
    <3> QED BY <3>1, <2>1, <1>2, <1>4
  <2>2. CASE ~(j < i)
    <3>1. ~(j <= i - 1) /\ j - (i - 1) \in 1 .. n - i /\ i + (j - (i - 1)) = j + 1 BY <1>0, <2>2
    <3> QED BY <3>1, <2>2, <1>3, <1>4
  <2> QED BY <2>1, <2>2
<1>6. RemoveAt(s, i) = p \o q BY DEF RemoveAt, p, q, n
<1>7. /\ RemoveAt(s, i) \in Seq(S) /\ Len(RemoveAt(s, i)) = n - 1
      /\ \A j \in 1 .. n - 1 : RemoveAt(s, i)[j] = IF j < i THEN s[j] ELSE s[j + 1]
  BY <1>4, <1>5, <1>6
<1> QED BY <1>7 DEF n

(* A slot that is touched is the latest, and is in the order once.         *)
LEMMA TouchKeepsOrder ==
  ASSUME TypeOK, NEW k \in Key, Touch(k)
  PROVE  used' \in Seq(Key) /\ IsInjective(used')
<1>0. /\ used \in Seq(Key) /\ Len(used) \in Nat /\ DOMAIN used = 1 .. Len(used)
      /\ \A m, n \in 1 .. Len(used) : used[m] = used[n] => m = n
  BY LenProperties DEF TypeOK, IsInjective
<1>1. ASSUME NEW r \in Seq(Key), used' = Append(r, k),
             \A m, n \in 1 .. Len(r) : r[m] = r[n] => m = n,
             \A m \in 1 .. Len(r) : r[m] # k
      PROVE  used' \in Seq(Key) /\ IsInjective(used')
  <2>1. /\ used' \in Seq(Key) /\ Len(used') = Len(r) + 1 /\ used'[Len(r) + 1] = k
        /\ \A m \in 1 .. Len(r) : used'[m] = r[m]
    BY <1>1, AppendProperties
  <2>2. Len(r) \in Nat /\ DOMAIN used' = 1 .. Len(r) + 1 BY <2>1, LenProperties
  <2>3. \A m, n \in 1 .. Len(r) + 1 : used'[m] = used'[n] => m = n BY <1>1, <2>1, <2>2
  <2> QED BY <2>1, <2>2, <2>3 DEF IsInjective
<1>2. CASE ~Contains(used, k) /\ used' = Append(used, k)
  BY <1>0, <1>1, <1>2 DEF Contains
<1>3. ASSUME NEW i \in DOMAIN used, used[i] = k, used' = Append(RemoveAt(used, i), k)
      PROVE  used' \in Seq(Key) /\ IsInjective(used')
  <2> DEFINE r == RemoveAt(used, i)
  <2>2. i \in 1 .. Len(used) /\ used \in Seq(Key) BY <1>0, <1>3
  <2>1. /\ r \in Seq(Key) /\ Len(r) = Len(used) - 1
        /\ \A j \in 1 .. Len(used) - 1 : r[j] = IF j < i THEN used[j] ELSE used[j + 1]
    BY <2>2, RemoveAtOf
  <2> HIDE DEF r
  <2>3. \A m, n \in 1 .. Len(r) : r[m] = r[n] => m = n BY <1>0, <2>1, <2>2
  <2>4. \A m \in 1 .. Len(r) : r[m] # k BY <1>0, <1>3, <2>1, <2>2
  <2> QED BY <1>1, <1>3, <2>1, <2>3, <2>4 DEF r
<1> QED BY <1>2, <1>3 DEF Touch

------------------------------------------------------------------------------
(* Basics, action by action *)

(* A step under which slots, bytes and leases stay as they are.            *)
Backing == <<handle, viewed, backed, complete, resident, leases, used>>

LEMMA Untouched ==
  ASSUME Basics, NEW c \in Caller, NEW label \in Labels, Moves(c, label),
         UNCHANGED Backing, at[c] # "leased", label # "leased"
  PROVE  Leased' /\ Accounted' /\ viewed' \subseteq backed'
<1>1. Leased' BY LeasesKept DEF Basics, Backing
<1>2. Accounted' BY DEF Basics, Backing, Accounted, ResidentAccounted, Granules
<1> QED BY <1>1, <1>2 DEF Basics, Backing

LEMMA OperationOnQueue ==
  ASSUME TypeOK, NEW s \in Stream, NEW op \in Operation, Enqueue(s, op)
  PROVE  /\ queue' \in [Stream -> Seq(Operation)]
         /\ \A q \in Stream : Len(queue'[q]) <= MaxQueue
         /\ \A q \in Stream : q # s => queue'[q] = queue[q]
         /\ Len(queue'[s]) = Len(queue[s]) + 1
         /\ queue'[s][Len(queue[s]) + 1] = op
         /\ \A i \in 1 .. Len(queue[s]) : queue'[s][i] = queue[s][i]
         /\ Len(queue[s]) \in Nat
<1>1. queue[s] \in Seq(Operation) /\ queue'[s] = Append(queue[s], op) BY DEF TypeOK, Enqueue
<1>2. /\ queue'[s] \in Seq(Operation) /\ Len(queue'[s]) = Len(queue[s]) + 1
      /\ queue'[s][Len(queue[s]) + 1] = op
      /\ \A i \in 1 .. Len(queue[s]) : queue'[s][i] = queue[s][i]
      /\ Len(queue[s]) \in Nat
  BY <1>1, AppendProperties, LenProperties
<1>3. \A q \in Stream : q # s => queue'[q] = queue[q] BY DEF TypeOK, Enqueue
<1>4. queue' \in [Stream -> Seq(Operation)] BY <1>2, <1>3 DEF TypeOK, Enqueue
<1>5. \A q \in Stream : Len(queue'[q]) <= MaxQueue
  <2>1. Len(queue[s]) < MaxQueue BY DEF Enqueue
  <2>2. Len(queue'[s]) <= MaxQueue BY <1>2, <2>1, StoreAssumption
  <2> QED BY <1>3, <2>2 DEF TypeOK
<1> QED BY <1>2, <1>3, <1>4, <1>5

(* What a step under which slots and bytes stay has to show.               *)
LEMMA Collect ==
  ASSUME Basics, NEW c \in Caller, NEW label \in Labels, Moves(c, label),
         UNCHANGED Backing, at[c] # "leased", label # "leased", TypeOK',
         label \in Holding => LockFree \/ at[c] \in Holding,
         label \in {"reserved", "room", "evict"} => wants'[c] \in Key,
         label = "room" => wants'[c] \notin handle,
         label = "evict" => wants'[c] \in handle /\ leases[wants'[c]] = 0
  PROVE  Basics'
<1>0. Locked /\ Positions BY DEF Basics
<1>1. Locked' BY <1>0, LockStep
<1>2. Positions' BY <1>0, PositionStep DEF Backing
<1> QED BY <1>1, <1>2, Untouched DEF Basics

LEMMA ReserveBasics ==
  ASSUME Basics, NEW c \in Caller, NEW k \in Key, Reserve(c, k)
  PROVE  Basics'
<1>0. TypeOK /\ Locked /\ Positions BY DEF Basics
<1>1. UNCHANGED Backing /\ UNCHANGED <<visited, event, queue>> /\ at[c] = "idle"
  BY DEF Reserve, Backing, backVars, leaseVars
<1>2. /\ slots' \in Seq(Key) /\ Len(slots') \in Nat /\ Len(slots) <= Len(slots')
      /\ addressed' \subseteq Key /\ failures' \in 0 .. MaxFailures
  <2>1. slots \in Seq(Key) /\ Len(slots) \in Nat BY <1>0, LenProperties DEF TypeOK
  <2>2. slots' = slots \/ slots' = Append(slots, k) BY DEF Reserve
  <2>3. slots' \in Seq(Key) /\ Len(slots') \in Nat /\ Len(slots) <= Len(slots')
    BY <2>1, <2>2, AppendProperties
  <2>4. failures' \in 0 .. MaxFailures BY <1>0, StoreAssumption DEF Reserve, DriverError, TypeOK
  <2> QED BY <1>0, <2>3, <2>4 DEF Reserve, TypeOK
<1>3. visited' \in 0 .. Len(slots')
  BY <1>0, <1>1, <1>2, LenProperties DEF TypeOK
<1>4. CASE Begin(c, "reserved", k)
  <2>1. Moves(c, "reserved") /\ wants'[c] = k BY <1>0, <1>4, Turns DEF Labels
  <2>2. TypeOK' BY <1>0, <1>1, <1>2, <1>3, <2>1 DEF TypeOK, Moves, Labels, Backing
  <2> QED BY <1>1, <2>1, <2>2, Collect DEF Labels, Holding
<1>5. CASE UNCHANGED <<at, wants>>
  <2>1. Moves(c, "idle") BY <1>0, <1>1, <1>5 DEF Moves, TypeOK, Labels
  <2>2. TypeOK' BY <1>0, <1>1, <1>2, <1>3, <1>5 DEF TypeOK, Backing
  <2> QED BY <1>1, <2>1, <2>2, Collect DEF Labels, Holding
<1> QED BY <1>4, <1>5 DEF Reserve

LEMMA LeaseBasics ==
  ASSUME Basics, NEW c \in Caller, NEW k \in Key, wants[c] = k, at[c] # "leased", Lease(c, k),
         LockFree \/ at[c] \in Holding,
         viewed \subseteq viewed', k \in viewed'
  PROVE  /\ Moves(c, "leased") /\ Locked' /\ Positions' /\ Leased'
         /\ leases' \in [Key -> Nat] /\ used' \in Seq(Key) /\ IsInjective(used')
<1>0. TypeOK /\ Locked /\ Positions /\ Leased BY DEF Basics
<1>1. Moves(c, "leased") /\ wants'[c] = k BY <1>0, Turns DEF Lease, Labels
<1>2. Locked' BY <1>0, <1>1, LockStep DEF Holding
<1>3. Positions' BY <1>0, <1>1, PositionStep
<1>4. leases' = [leases EXCEPT ![k] = @ + 1] BY DEF Lease
<1>5. Leased' BY <1>0, <1>1, <1>4, LeaseTaken
<1>6. leases' \in [Key -> Nat] BY <1>0, <1>4 DEF TypeOK
<1>7. used' \in Seq(Key) /\ IsInjective(used') BY <1>0, TouchKeepsOrder DEF Lease
<1> QED BY <1>1, <1>2, <1>3, <1>5, <1>6, <1>7

LEMMA AcquireBasics ==
  ASSUME Basics, NEW c \in Caller, Acquire(c)
  PROVE  Basics'
<1>0. TypeOK /\ Locked /\ Positions BY DEF Basics
<1>1. PICK k \in Key : k = wants[c] BY <1>0 DEF Acquire, Positions
<1>2. UNCHANGED <<slots, addressed, visited, handle, viewed, backed, complete, resident, event, failures>>
  BY DEF Acquire, slotVars, backVars
<1>3. queue' \in [Stream -> Seq(Operation)] /\ \A q \in Stream : Len(queue'[q]) <= MaxQueue
  <2>1. StreamOf[c] \in Stream BY StoreAssumption
  <2>2. [kind |-> "wait", key |-> k, stream |-> event[k].stream, left |-> event[k].left] \in Operation
    BY <1>0 DEF TypeOK, Event, Operation
  <2>3. CASE UNCHANGED queue BY <1>0, <2>3 DEF TypeOK
  <2>4. CASE Enqueue(StreamOf[c], [kind |-> "wait", key |-> k, stream |-> event[k].stream, left |-> event[k].left])
    BY <1>0, <2>1, <2>2, <2>4, OperationOnQueue
  <2> QED BY <1>1, <2>3, <2>4 DEF Acquire
<1>4. at[c] = "reserved" /\ LockFree BY DEF Acquire
<1>5. CASE k \in viewed /\ Lease(c, k)
  <2>1. /\ Moves(c, "leased") /\ Locked' /\ Positions' /\ Leased'
        /\ leases' \in [Key -> Nat] /\ used' \in Seq(Key) /\ IsInjective(used')
    BY <1>1, <1>2, <1>4, <1>5, LeaseBasics
  <2>2. TypeOK' BY <1>0, <1>2, <1>3, <2>1 DEF TypeOK, Moves, Labels
  <2>3. Accounted' BY <1>2 DEF Basics, Accounted, ResidentAccounted, Granules
  <2> QED BY <1>2, <2>1, <2>2, <2>3 DEF Basics
<1>6. ASSUME NEW label \in {"room", "idle"}, GoTo(c, label), UNCHANGED leaseVars,
             label = "room" => k \notin handle
      PROVE  Basics'
  <2>1. Moves(c, label) /\ (label = "room" => wants'[c] = k) /\ label \in Labels
    BY <1>0, <1>1, <1>6, Turns DEF Labels
  <2>2. TypeOK' BY <1>0, <1>2, <1>3, <1>6, <2>1 DEF TypeOK, Moves, Labels, leaseVars
  <2>3. UNCHANGED Backing BY <1>2, <1>6 DEF Backing, leaseVars
  <2> QED BY <1>4, <1>6, <2>1, <2>2, <2>3, Collect DEF Labels, Holding
<1> QED BY <1>1, <1>5, <1>6 DEF Acquire, Raise

LEMMA UnmapBasics ==
  ASSUME Basics, NEW c \in Caller, at[c] \in Holding, NEW k \in handle, leases[k] = 0,
         NEW then \in {"room", "idle", "close"}, then = "room" => at[c] = "room",
         Unmap(c, k, then)
  PROVE  Basics'
<1>0. TypeOK /\ Locked /\ Positions /\ Leased /\ Accounted /\ k \in Key BY DEF Basics, TypeOK
<1>1. PICK label \in {then, "idle"} : Moves(c, label) /\ (label # "idle" => wants'[c] = wants[c])
  <2>1. GoTo(c, then) \/ GoTo(c, "idle") BY DEF Unmap, Raise
  <2> QED BY <1>0, <2>1, Turns DEF Labels
<1>2. /\ UNCHANGED <<slots, addressed, visited, leases, used, queue>>
      /\ viewed' = viewed \ {k}
      /\ \/ backed' = backed /\ complete' = complete
         \/ backed' = backed \ {k} /\ complete' = complete \ {k}
      /\ failures' = failures \/ (failures < MaxFailures /\ failures' = failures + 1)
  BY DEF Unmap, slotVars, leaseVars, DriverError
<1>3. \/ handle' = handle /\ resident' = resident /\ event' = event
      \/ /\ handle' = handle \ {k} /\ resident' = resident - Size[k]
         /\ event' = [event EXCEPT ![k].left = 0]
  BY DEF Unmap
<1>4. viewed' \subseteq backed' BY <1>2 DEF Basics
<1>5. Locked' BY <1>0, <1>1, LockStep
<1>6. Positions'
  <2>1. handle' \subseteq handle BY <1>3
  <2>2. at[c] = "room" => wants[c] \notin handle BY <1>0 DEF Positions
  <2>3. label \in {"room", "idle", "close"} /\ (label = "room" => at[c] = "room") BY <1>1
  <2>4. label = "room" => wants'[c] \notin handle' /\ wants'[c] \in Key
    BY <1>0, <1>1, <2>1, <2>2, <2>3 DEF Positions
  <2> QED BY <1>0, <1>1, <2>3, <2>4, PositionStep
<1>7. Leased'
  <2>1. at[c] # "leased" /\ label # "leased" BY <1>1 DEF Holding
  <2>2. \A q \in Key : leases[q] > 0 /\ q \in viewed => q \in viewed' BY <1>2
  <2> QED BY <1>0, <1>1, <1>2, <2>1, <2>2, LeasesKept
<1>8. Accounted' /\ resident' \in Nat
  <2>1. CASE handle' = handle /\ resident' = resident
    BY <1>0, <2>1 DEF Accounted, ResidentAccounted, Granules, TypeOK
  <2>2. CASE handle' = handle \ {k} /\ resident' = resident - Size[k]
    <3>1. /\ IsFiniteSet(Granules(handle \ {k}))
          /\ Cardinality(Granules(handle \ {k})) = Cardinality(Granules(handle)) - Size[k]
      BY <1>0, GranulesOf DEF Accounted, TypeOK
    <3>2. resident' = Cardinality(Granules(handle')) /\ IsFiniteSet(Granules(handle'))
      BY <1>0, <2>2, <3>1 DEF Accounted, ResidentAccounted
    <3>3. resident' \in Nat BY <3>2, FS_CardinalityType
    <3>4. Budget > 0 => resident' <= Budget
      BY <1>0, <2>2, <3>3, StoreAssumption DEF Accounted, ResidentAccounted, TypeOK
    <3> QED BY <3>2, <3>3, <3>4 DEF Accounted, ResidentAccounted, Granules
  <2> QED BY <1>3, <2>1, <2>2
<1>9. TypeOK'
  <2>1. event' \in [Key -> Event]
    <3>0. event \in [Key -> Event] /\ 0 \in 0 .. MaxQueue BY <1>0, StoreAssumption DEF TypeOK
    <3>e. [event[k] EXCEPT !.left = 0] \in Event BY <1>0, <3>0 DEF Event
    <3>1. [event EXCEPT ![k].left = 0] \in [Key -> Event] BY <1>0, <3>0, <3>e
    <3> QED BY <1>0, <1>3, <3>1 DEF TypeOK
  <2>2. viewed' \subseteq handle' /\ handle' \subseteq Key /\ complete' \subseteq backed' /\ backed' \subseteq Key
    BY <1>0, <1>2, <1>3 DEF TypeOK
  <2>3. failures' \in 0 .. MaxFailures BY <1>0, <1>2, StoreAssumption DEF TypeOK
  <2> QED BY <1>0, <1>1, <1>2, <1>8, <2>1, <2>2, <2>3 DEF TypeOK, Moves, Labels
<1> QED BY <1>4, <1>5, <1>6, <1>7, <1>8, <1>9 DEF Basics

LEMMA MakeRoomBasics ==
  ASSUME Basics, NEW c \in Caller, MakeRoom(c)
  PROVE  Basics'
<1>0. TypeOK /\ Locked /\ Positions /\ at[c] = "room" BY DEF Basics, MakeRoom
<1>1. ASSUME NEW i \in Candidates, Unmap(c, used[i], "room") PROVE Basics'
  BY <1>0, <1>1, UnmapBasics DEF Candidates, Candidate, Holding
<1>2. CASE Raise(c) /\ UNCHANGED <<slotVars, backVars, leaseVars, event, queue, failures>>
  <2>1. Moves(c, "idle") BY <1>0, <1>2, Turns DEF Raise, Labels
  <2>2. TypeOK' BY <1>0, <1>2, <2>1 DEF TypeOK, Moves, Labels, slotVars, backVars, leaseVars
  <2>3. UNCHANGED Backing BY <1>2 DEF Backing, backVars, leaseVars
  <2> QED BY <1>0, <2>1, <2>2, <2>3, Collect DEF Labels, Holding
<1> QED BY <1>1, <1>2 DEF MakeRoom

LEMMA MapAndCopyBasics ==
  ASSUME Basics, NEW c \in Caller, MapAndCopy(c)
  PROVE  Basics'
<1>0. TypeOK /\ Locked /\ Positions /\ Accounted /\ at[c] = "room" BY DEF Basics, MapAndCopy
<1>1. PICK k \in Key : k = wants[c] BY <1>0 DEF Positions
<1>2. /\ k \notin handle /\ Fits(k)
      /\ handle' = handle \cup {k} /\ viewed' = viewed \cup {k} /\ backed' = backed \cup {k}
      /\ resident' = resident + Size[k]
      /\ UNCHANGED <<slots, addressed, visited, complete, event, failures>>
      /\ Lease(c, k)
  BY <1>0, <1>1 DEF Positions, MapAndCopy, slotVars
<1>3. queue' \in [Stream -> Seq(Operation)] /\ \A q \in Stream : Len(queue'[q]) <= MaxQueue
  <2>1. StreamOf[c] \in Stream BY StoreAssumption
  <2>2. [kind |-> "copy", key |-> k, stream |-> StreamOf[c], left |-> 0] \in Operation
    BY <2>1, StoreAssumption DEF Operation
  <2> QED BY <1>0, <1>1, <2>1, <2>2, OperationOnQueue DEF MapAndCopy
<1>4. /\ Moves(c, "leased") /\ Locked' /\ Positions' /\ Leased'
      /\ leases' \in [Key -> Nat] /\ used' \in Seq(Key) /\ IsInjective(used')
  BY <1>0, <1>1, <1>2, LeaseBasics DEF Holding
<1>5. Accounted' /\ resident' \in Nat
  <2>1. /\ IsFiniteSet(Granules(handle \cup {k}))
        /\ Cardinality(Granules(handle \cup {k})) = Cardinality(Granules(handle)) + Size[k]
    BY <1>0, <1>2, GranulesOf DEF Accounted, TypeOK
  <2>2. resident' = Cardinality(Granules(handle')) /\ IsFiniteSet(Granules(handle'))
    BY <1>0, <1>2, <2>1 DEF Accounted, ResidentAccounted
  <2>3. resident' \in Nat BY <2>2, FS_CardinalityType
  <2>4. Budget > 0 => resident' <= Budget BY <1>2, StoreAssumption DEF Fits
  <2> QED BY <2>2, <2>3, <2>4 DEF Accounted, ResidentAccounted, Granules
<1>6. TypeOK' BY <1>0, <1>2, <1>3, <1>4, <1>5 DEF TypeOK, Moves, Labels
<1>7. viewed' \subseteq backed' BY <1>2 DEF Basics
<1> QED BY <1>4, <1>5, <1>6, <1>7 DEF Basics

LEMMA MapFailsBasics ==
  ASSUME Basics, NEW c \in Caller, MapFails(c)
  PROVE  Basics'
<1>0. TypeOK /\ Locked /\ Positions /\ at[c] = "room" BY DEF Basics, MapFails
<1>1. PICK k \in Key : k = wants[c] BY <1>0 DEF Positions
<1>2. Moves(c, "idle") BY <1>0, Turns DEF MapFails, Raise, Labels
<1>3. /\ backed \subseteq backed' /\ backed' \subseteq Key /\ failures' \in 0 .. MaxFailures
  BY <1>0, <1>1, StoreAssumption DEF MapFails, DriverError, TypeOK
<1>4. /\ UNCHANGED <<handle, viewed, complete, resident, leases, used, event, queue>>
      /\ UNCHANGED <<slots, addressed, visited>>
  BY DEF MapFails, slotVars, leaseVars
<1>5. TypeOK' BY <1>0, <1>2, <1>3, <1>4 DEF TypeOK, Moves, Labels
<1>6. Locked' BY <1>0, <1>2, LockStep DEF Holding
<1>7. Positions' BY <1>0, <1>2, <1>4, PositionStep
<1>8. Leased' BY <1>0, <1>2, <1>4, LeasesKept DEF Basics
<1>9. Accounted' BY <1>4 DEF Basics, Accounted, ResidentAccounted, Granules
<1>10. viewed' \subseteq backed' BY <1>3, <1>4 DEF Basics
<1> QED BY <1>5, <1>6, <1>7, <1>8, <1>9, <1>10 DEF Basics

LEMMA LaunchBasics ==
  ASSUME Basics, NEW c \in Caller, Launch(c)
  PROVE  Basics'
<1>0. TypeOK /\ Positions /\ at[c] = "leased" BY DEF Basics, Launch
<1>1. PICK k \in Key : k = wants[c] BY <1>0 DEF Positions
<1>2. queue' \in [Stream -> Seq(Operation)] /\ \A q \in Stream : Len(queue'[q]) <= MaxQueue
  <2>1. StreamOf[c] \in Stream BY StoreAssumption
  <2>2. [kind |-> "read", key |-> k, stream |-> StreamOf[c], left |-> 0] \in Operation
    BY <2>1, StoreAssumption DEF Operation
  <2> QED BY <1>0, <1>1, <2>1, <2>2, OperationOnQueue DEF Launch
<1>3. UNCHANGED <<slotVars, backVars, leaseVars, event, at, wants, failures>> BY DEF Launch
<1>4. TypeOK' BY <1>0, <1>2, <1>3 DEF TypeOK, slotVars, backVars, leaseVars
<1> QED
  BY <1>3, <1>4
  DEF Basics, Locked, Positions, Leased, Holders, Accounted, ResidentAccounted, Granules,
      backVars, leaseVars

LEMMA ReleaseBasics ==
  ASSUME Basics, NEW c \in Caller, Release(c)
  PROVE  Basics' /\ leases[wants[c]] > 0
<1>0. TypeOK /\ Locked /\ Positions /\ Leased /\ at[c] = "leased" /\ LockFree BY DEF Basics, Release
<1>1. PICK k \in Key : k = wants[c] BY <1>0 DEF Positions
<1>2. Moves(c, "idle") BY <1>0, Turns DEF Release, Labels
<1>3. /\ UNCHANGED <<slots, addressed, visited, handle, viewed, backed, complete, resident, queue, failures>>
      /\ leases' = [leases EXCEPT ![k] = @ - 1]
      /\ Touch(k)
  BY <1>1 DEF Release, slotVars, backVars
<1>4. Leased' /\ leases' \in [Key -> Nat] /\ leases[k] > 0
  BY <1>0, <1>1, <1>2, <1>3, LeaseGiven
<1>5. used' \in Seq(Key) /\ IsInjective(used') BY <1>0, <1>3, TouchKeepsOrder
<1>6. event' \in [Key -> Event]
  <2> DEFINE s == StreamOf[c]
  <2>1. s \in Stream BY StoreAssumption
  <2>2. queue[s] \in Seq(Operation) /\ Len(queue[s]) <= MaxQueue BY <1>0, <2>1 DEF TypeOK
  <2>3. Len(queue[s]) \in 0 .. MaxQueue BY <2>2, LenProperties, StoreAssumption
  <2>4. [stream |-> s, left |-> Len(queue[s])] \in Event BY <2>1, <2>3 DEF Event
  <2>5. event' = [event EXCEPT ![k] = [stream |-> s, left |-> Len(queue[s])]] \/ event' = event
    BY <1>1 DEF Release
  <2> HIDE DEF s
  <2> QED BY <1>0, <2>4, <2>5 DEF TypeOK
<1>7. TypeOK' BY <1>0, <1>2, <1>3, <1>4, <1>5, <1>6 DEF TypeOK, Moves, Labels
<1>8. Locked' BY <1>0, <1>2, LockStep
<1>9. Positions' BY <1>0, <1>2, PositionStep
<1>10. Accounted' /\ viewed' \subseteq backed'
  BY <1>3 DEF Basics, Accounted, ResidentAccounted, Granules
<1> QED BY <1>1, <1>4, <1>7, <1>8, <1>9, <1>10 DEF Basics

LEMMA EvictBasics ==
  ASSUME Basics, NEW c \in Caller,
         \/ \E k \in Key : BeginEvict(c, k)
         \/ Evict(c)
  PROVE  Basics'
<1>0. TypeOK /\ Locked /\ Positions BY DEF Basics
<1>1. ASSUME NEW k \in Key, BeginEvict(c, k) PROVE Basics'
  <2>1. Moves(c, "evict") /\ wants'[c] = k BY <1>0, <1>1, Turns DEF BeginEvict, Labels
  <2>2. TypeOK' BY <1>0, <1>1, <2>1 DEF BeginEvict, TypeOK, Moves, Labels, slotVars, backVars, leaseVars
  <2>3. UNCHANGED Backing BY <1>1 DEF BeginEvict, Backing, backVars, leaseVars
  <2> QED BY <1>1, <2>1, <2>2, <2>3, Collect DEF BeginEvict, Labels, Holding
<1>2. CASE Evict(c)
  <2>1. PICK k \in handle : k = wants[c] /\ leases[k] = 0 BY <1>0, <1>2 DEF Evict, Positions
  <2> QED BY <1>2, <2>1, UnmapBasics DEF Evict, Holding
<1> QED BY <1>1, <1>2

LEMMA CloseBasics ==
  ASSUME Basics, NEW c \in Caller, BeginClose(c) \/ CloseSlot(c) \/ CloseDone(c)
  PROVE  Basics'
<1>0. TypeOK /\ Locked /\ Positions BY DEF Basics
<1>l. slots \in Seq(Key) /\ Len(slots) \in Nat BY <1>0, LenProperties DEF TypeOK
<1>1. CASE BeginClose(c)
  <2>1. Moves(c, "close") BY <1>0, <1>1, Turns DEF BeginClose, Labels
  <2>2. TypeOK' BY <1>0, <1>l, <1>1, <2>1 DEF BeginClose, TypeOK, Moves, Labels, backVars, leaseVars
  <2>3. UNCHANGED Backing BY <1>1 DEF BeginClose, Backing, backVars, leaseVars
  <2> QED BY <1>1, <2>1, <2>2, <2>3, Collect DEF BeginClose, Labels, Holding
<1>2. CASE CloseSlot(c)
  <2>1. visited + 1 \in 1 .. Len(slots) /\ at[c] = "close" BY <1>0, <1>l, <1>2 DEF TypeOK, CloseSlot
  <2>2. PICK k \in Key : k = slots[visited + 1] BY <1>l, <2>1, ElementOfSeq
  <2>3. CASE k \in handle /\ leases[k] = 0 /\ Unmap(c, k, "close")
    BY <2>1, <2>3, UnmapBasics DEF Holding
  <2>4. CASE Raise(c) /\ UNCHANGED <<slots, visited, backVars, leaseVars, event, queue>>
               /\ addressed' = addressed /\ failures' \in 0 .. MaxFailures
    <3>1. Moves(c, "idle") BY <1>0, <2>4, Turns DEF Raise, Labels
    <3>2. TypeOK' BY <1>0, <2>4, <3>1 DEF TypeOK, Moves, Labels, backVars, leaseVars
    <3>3. UNCHANGED Backing BY <2>4 DEF Backing, backVars, leaseVars
    <3> QED BY <2>1, <3>1, <3>2, <3>3, Collect DEF Labels, Holding
  <2>5. CASE addressed' = addressed \ {k} /\ visited' = visited + 1
               /\ UNCHANGED <<slots, backVars, leaseVars, event, queue, at, wants, failures>>
    <3>1. Moves(c, "close") BY <1>0, <2>1, <2>5 DEF Moves, TypeOK, Labels
    <3>2. visited' \in 0 .. Len(slots) BY <1>l, <2>1, <2>5
    <3>3. TypeOK' BY <1>0, <2>5, <3>2 DEF TypeOK, backVars, leaseVars
    <3>4. UNCHANGED Backing BY <2>5 DEF Backing, backVars, leaseVars
    <3> QED BY <2>1, <3>1, <3>3, <3>4, Collect DEF Labels, Holding
  <2>6. DriverError \/ UNCHANGED failures => failures' \in 0 .. MaxFailures
    BY <1>0, StoreAssumption DEF TypeOK, DriverError
  <2> QED BY <1>2, <2>2, <2>3, <2>4, <2>5, <2>6 DEF CloseSlot, slotVars
<1>3. CASE CloseDone(c)
  <2>1. Moves(c, "idle") /\ at[c] = "close" BY <1>0, <1>3, Turns DEF CloseDone, Labels
  <2>2. UNCHANGED <<addressed, handle, viewed, backed, complete, resident, leases, event, queue, failures>>
    BY <1>3 DEF CloseDone, backVars
  <2>3. slots' = <<>> /\ used' = <<>> /\ visited' = 0 BY <1>3 DEF CloseDone
  <2>4. /\ slots' \in Seq(Key) /\ visited' \in 0 .. Len(slots')
        /\ used' \in Seq(Key) /\ IsInjective(used')
    BY <2>3, EmptySeq DEF IsInjective
  <2>5. TypeOK' BY <1>0, <2>1, <2>2, <2>4 DEF TypeOK, Moves, Labels
  <2>6. Locked' BY <1>0, <2>1, LockStep DEF Holding
  <2>7. Positions' BY <1>0, <2>1, <2>2, PositionStep
  <2>8. Leased' BY <2>1, <2>2, LeasesKept DEF Basics
  <2>9. Accounted' /\ viewed' \subseteq backed'
    BY <2>2 DEF Basics, Accounted, ResidentAccounted, Granules
  <2> QED BY <2>5, <2>6, <2>7, <2>8, <2>9 DEF Basics
<1> QED BY <1>1, <1>2, <1>3

------------------------------------------------------------------------------
(* The streams *)

LEMMA SeqOfFunction ==
  ASSUME NEW S, NEW n \in Nat, NEW f \in [1 .. n -> S]
  PROVE  f \in Seq(S) /\ Len(f) = n
<1>1. f \in Seq(S) BY SeqDef
<1>2. DOMAIN f = 1 .. Len(f) /\ Len(f) \in Nat BY <1>1, LenProperties
<1>3. 1 .. n = 1 .. Len(f) BY <1>2
<1>4. \A m \in Nat : 1 .. n = 1 .. m => m = n
  <2> SUFFICES ASSUME NEW m \in Nat, 1 .. n = 1 .. m PROVE m = n OBVIOUS
  <2>1. n > 0 => n \in 1 .. m OBVIOUS
  <2>2. m > 0 => m \in 1 .. n OBVIOUS
  <2> QED BY <2>1, <2>2
<1> QED BY <1>1, <1>2, <1>3, <1>4

(* An operation that gets nearer is the same operation.                    *)
SameOperation(new, old) == new.kind = old.kind /\ new.key = old.key

LEMMA NearerOf ==
  ASSUME NEW s \in Stream
  PROVE  /\ \A op \in Operation : Nearer(op, s) \in Operation /\ SameOperation(Nearer(op, s), op)
         /\ \A e \in Event :
              /\ Nearer(e, s) \in Event /\ Nearer(e, s).stream = e.stream
              /\ Nearer(e, s).left = IF e.stream = s /\ e.left > 0 THEN e.left - 1 ELSE e.left
<1>1. \A n \in 0 .. MaxQueue : n > 0 => n - 1 \in 0 .. MaxQueue BY StoreAssumption
<1> QED BY <1>1 DEF Nearer, Operation, Event, SameOperation

LEMMA FinishShape ==
  ASSUME TypeOK, NEW s \in Stream, Finish(s)
  PROVE  /\ queue' \in [Stream -> Seq(Operation)] /\ \A q \in Stream : Len(queue'[q]) <= MaxQueue
         /\ \A q \in Stream \ {s} :
              /\ Len(queue'[q]) = Len(queue[q])
              /\ \A i \in 1 .. Len(queue[q]) : SameOperation(queue'[q][i], queue[q][i])
         /\ Len(queue[s]) \in Nat \ {0} /\ Len(queue'[s]) = Len(queue[s]) - 1
         /\ \A i \in 1 .. Len(queue[s]) - 1 : SameOperation(queue'[s][i], queue[s][i + 1])
         /\ Head(queue[s]) = queue[s][1] /\ Head(queue[s]) \in Operation
         /\ event' \in [Key -> Event]
         /\ \A k \in Key :
              /\ event'[k].stream = event[k].stream
              /\ event'[k].left =
                   IF event[k].stream = s /\ event[k].left > 0 THEN event[k].left - 1 ELSE event[k].left
<1>a. queue \in [Stream -> Seq(Operation)] /\ event \in [Key -> Event] /\ queue[s] # <<>>
  BY DEF TypeOK, Finish
<1>1. \A q \in Stream : queue[q] \in Seq(Operation) /\ Len(queue[q]) \in Nat /\ DOMAIN queue[q] = 1 .. Len(queue[q])
  BY <1>a, LenProperties
<1>2. /\ Tail(queue[s]) \in Seq(Operation) /\ Len(Tail(queue[s])) = Len(queue[s]) - 1
      /\ \A i \in 1 .. Len(queue[s]) - 1 : Tail(queue[s])[i] = queue[s][i + 1]
      /\ Head(queue[s]) \in Operation
  BY <1>a, HeadTailProperties
<1>3. Len(queue[s]) \in Nat \ {0} BY <1>a, EmptySeq
<1>4. Head(queue[s]) = queue[s][1] BY <1>a, <1>1
<1>5. /\ DOMAIN queue' = Stream
      /\ \A q \in Stream \ {s} : queue'[q] = [i \in DOMAIN queue[q] |-> Nearer(queue[q][i], s)]
      /\ queue'[s] = [i \in DOMAIN Tail(queue[s]) |-> Nearer(Tail(queue[s])[i], s)]
  BY DEF Finish
<1>6. ASSUME NEW u \in Seq(Operation), NEW v, v = [i \in DOMAIN u |-> Nearer(u[i], s)]
      PROVE  /\ v \in Seq(Operation) /\ Len(v) = Len(u)
             /\ \A i \in 1 .. Len(u) : SameOperation(v[i], u[i])
  <2>1. Len(u) \in Nat /\ DOMAIN u = 1 .. Len(u) BY LenProperties
  <2>2. \A i \in 1 .. Len(u) : u[i] \in Operation BY ElementOfSeq
  <2>3. \A i \in 1 .. Len(u) : v[i] \in Operation /\ SameOperation(v[i], u[i])
    BY <1>6, <2>1, <2>2, NearerOf
  <2>4. v \in [1 .. Len(u) -> Operation] BY <1>6, <2>1, <2>3
  <2> QED BY <2>1, <2>3, <2>4, SeqOfFunction
<1>7. \A q \in Stream \ {s} :
        /\ queue'[q] \in Seq(Operation) /\ Len(queue'[q]) = Len(queue[q])
        /\ \A i \in 1 .. Len(queue[q]) : SameOperation(queue'[q][i], queue[q][i])
  BY <1>1, <1>5, <1>6
<1>8. /\ queue'[s] \in Seq(Operation) /\ Len(queue'[s]) = Len(queue[s]) - 1
      /\ \A i \in 1 .. Len(queue[s]) - 1 : SameOperation(queue'[s][i], queue[s][i + 1])
  <2>1. /\ queue'[s] \in Seq(Operation) /\ Len(queue'[s]) = Len(Tail(queue[s]))
        /\ \A i \in 1 .. Len(Tail(queue[s])) : SameOperation(queue'[s][i], Tail(queue[s])[i])
    BY <1>2, <1>5, <1>6
  <2> QED BY <2>1, <1>2
<1>9. queue' \in [Stream -> Seq(Operation)]
  <2>1. \A q \in Stream : queue'[q] \in Seq(Operation) BY <1>7, <1>8
  <2>2. queue' = [q \in Stream |-> queue'[q]] BY <1>5 DEF Finish
  <2> QED BY <2>1, <2>2
<1>10. \A q \in Stream : Len(queue'[q]) <= MaxQueue
  <2>1. \A q \in Stream : Len(queue[q]) <= MaxQueue BY DEF TypeOK
  <2>2. Len(queue'[s]) <= MaxQueue BY <1>3, <1>8, <2>1, StoreAssumption
  <2> QED BY <1>7, <2>1, <2>2
<1>11. event' = [k \in Key |-> Nearer(event[k], s)] BY DEF Finish
<1>12. /\ event' \in [Key -> Event]
       /\ \A k \in Key :
            /\ event'[k].stream = event[k].stream
            /\ event'[k].left =
                 IF event[k].stream = s /\ event[k].left > 0 THEN event[k].left - 1 ELSE event[k].left
  BY <1>a, <1>11, NearerOf
<1> QED BY <1>2, <1>3, <1>4, <1>7, <1>8, <1>9, <1>10, <1>12

LEMMA FinishBasics ==
  ASSUME Basics, NEW s \in Stream, Finish(s)
  PROVE  Basics'
<1>1. UNCHANGED <<slotVars, handle, viewed, backed, resident, leaseVars, at, wants, failures>>
  BY DEF Finish
<1>2. complete' \subseteq backed' BY DEF Finish, Basics, TypeOK
<1>3. TypeOK' BY <1>1, <1>2, FinishShape DEF Basics, TypeOK, slotVars, leaseVars
<1> QED
  BY <1>1, <1>3
  DEF Basics, Locked, Positions, Leased, Holders, Accounted, ResidentAccounted, Granules, leaseVars

------------------------------------------------------------------------------
(* What needs nothing of the streams *)

LEMMA InitBasics == Init => Basics
<1> SUFFICES ASSUME Init PROVE Basics OBVIOUS
<1>1. (CHOOSE s \in Stream : TRUE) \in Stream BY StoreAssumption
<1>2. 0 \in 0 .. MaxQueue BY StoreAssumption
<1>3. event \in [Key -> Event] BY <1>1, <1>2 DEF Init, Event
<1>4. <<>> \in Seq(Key) /\ <<>> \in Seq(Operation) /\ Len(<<>>) = 0 BY EmptySeq
<1>5. TypeOK
  <2>1. IsInjective(used) BY DEF Init, IsInjective
  <2>2. queue \in [Stream -> Seq(Operation)] /\ \A s \in Stream : Len(queue[s]) <= MaxQueue
    BY <1>4, StoreAssumption DEF Init
  <2>3. visited \in 0 .. Len(slots) BY <1>4 DEF Init
  <2>4. failures \in 0 .. MaxFailures BY StoreAssumption DEF Init
  <2> QED BY <1>3, <1>4, <2>1, <2>2, <2>3, <2>4 DEF Init, TypeOK
<1>e. IsFiniteSet({}) /\ Cardinality({}) = 0 BY FS_EmptySet
<1>6. Locked /\ Positions BY DEF Init, Locked, Positions, Holding
<1>7. Leased
  <2>1. \A k \in Key : Holders(k) = {} BY DEF Init, Holders
  <2>2. \A k \in Key : leases[k] = 0 /\ ~(leases[k] > 0) BY DEF Init
  <2> QED BY <2>1, <2>2, <1>e DEF Leased
<1>8. Accounted
  <2>1. Granules(handle) = {} BY DEF Init, Granules
  <2>2. resident = 0 /\ (Budget > 0 => resident <= Budget) BY StoreAssumption DEF Init
  <2> QED BY <2>1, <2>2, <1>e DEF Accounted, ResidentAccounted
<1> QED BY <1>5, <1>6, <1>7, <1>8 DEF Basics, Init

LEMMA NextBasics == Basics /\ [Next]_vars => Basics'
<1> SUFFICES ASSUME Basics, [Next]_vars PROVE Basics' OBVIOUS
<1>1. ASSUME NEW c \in Caller, NEW k \in Key, Reserve(c, k) PROVE Basics' BY <1>1, ReserveBasics
<1>2. ASSUME NEW c \in Caller, Acquire(c) PROVE Basics' BY <1>2, AcquireBasics
<1>3. ASSUME NEW c \in Caller, Launch(c) PROVE Basics' BY <1>3, LaunchBasics
<1>4. ASSUME NEW c \in Caller, Release(c) PROVE Basics' BY <1>4, ReleaseBasics
<1>5. ASSUME NEW c \in Caller, BeginClose(c) \/ CloseSlot(c) \/ CloseDone(c) PROVE Basics'
  BY <1>5, CloseBasics
<1>6. ASSUME NEW c \in Caller, (\E k \in Key : BeginEvict(c, k)) \/ Evict(c) PROVE Basics'
  BY <1>6, EvictBasics
<1>7. ASSUME NEW c \in Caller, MakeRoom(c) PROVE Basics' BY <1>7, MakeRoomBasics
<1>8. ASSUME NEW c \in Caller, MapAndCopy(c) PROVE Basics' BY <1>8, MapAndCopyBasics
<1>9. ASSUME NEW c \in Caller, MapFails(c) PROVE Basics' BY <1>9, MapFailsBasics
<1>10. ASSUME NEW s \in Stream, Finish(s) PROVE Basics' BY <1>10, FinishBasics
<1>11. CASE UNCHANGED vars
  <2>1. TypeOK' BY <1>11 DEF Basics, TypeOK, vars, slotVars, backVars, leaseVars
  <2> QED
    BY <1>11, <2>1
    DEF vars, backVars, leaseVars, Basics, Locked, Positions, Leased, Holders, Accounted,
        ResidentAccounted, Granules
<1> QED
  BY <1>1, <1>2, <1>3, <1>4, <1>5, <1>6, <1>7, <1>8, <1>9, <1>10, <1>11 DEF Next, Inside

LEMMA AlwaysBasics == Spec => []Basics
BY InitBasics, NextBasics, PTL DEF Spec

(* Leases, slots, streams and bytes have their types.                      *)
THEOREM StoreTypes == Spec => []TypeOK
<1>1. Basics => TypeOK BY DEF Basics
<1> QED BY <1>1, AlwaysBasics, PTL

(* The bytes are those of the mapped slots and within the budget, whatever *)
(* driver calls fail half way through a change, for any sizes.             *)
THEOREM BytesAccounted == Spec => []ResidentAccounted
<1>1. Basics => ResidentAccounted BY DEF Basics, Accounted
<1> QED BY <1>1, AlwaysBasics, PTL

(* A leased weight keeps its backing and its view, on whatever streams.    *)
THEOREM LeasesProtect == Spec => []LeasedStaysViewable
<1>1. Basics => LeasedStaysViewable BY DEF Basics, Leased, Holders, LeasedStaysViewable
<1> QED BY <1>1, AlwaysBasics, PTL

------------------------------------------------------------------------------
(* Callers that share a stream *)

LEMMA Queues ==
  ASSUME TypeOK, NEW s \in Stream
  PROVE  /\ queue[s] \in Seq(Operation) /\ Len(queue[s]) \in Nat
         /\ \A i \in 1 .. Len(queue[s]) : queue[s][i] \in Operation /\ queue[s][i].key \in Key
<1>1. queue[s] \in Seq(Operation) /\ Len(queue[s]) \in Nat BY LenProperties DEF TypeOK
<1>2. \A i \in 1 .. Len(queue[s]) : queue[s][i] \in Operation BY <1>1, ElementOfSeq
<1> QED BY <1>1, <1>2 DEF Operation

(* Operations are outstanding on one stream only.                          *)
LEMMA OneLane ==
  ASSUME SharedStream, OnlyCallers, NEW s \in Stream, NEW t \in Stream,
         queue[s] # <<>>, queue[t] # <<>> \/ \E c \in Caller : t = StreamOf[c]
  PROVE  s = t
BY DEF SharedStream, OnlyCallers

(* A step that takes nothing away, and puts at most op behind the others.  *)
Appends(c, op) ==
  /\ Enqueue(StreamOf[c], op) \/ UNCHANGED queue
  /\ UNCHANGED <<complete, event>>
  /\ viewed \subseteq viewed'
  /\ \/ leases' = leases
     \/ op.kind # "read" /\ \E k \in Key : leases' = [leases EXCEPT ![k] = @ + 1]
  /\ \A k \in viewed' \ viewed : op.kind = "copy" /\ op.key = k /\ Enqueue(StreamOf[c], op)
  /\ op.kind = "read" => op.key \in viewed /\ leases[op.key] > 0

LEMMA AppendsOrdered ==
  ASSUME SharedStream, Basics, Ordered, NEW c \in Caller, NEW op \in Operation, Appends(c, op)
  PROVE  Ordered'
<1>s. PICK s \in Stream : s = StreamOf[c] BY StoreAssumption
<1>0. TypeOK BY DEF Basics
<1>a. \A k \in Key : leases[k] > 0 => leases'[k] > 0
  <2>1. CASE leases' = leases BY <2>1
  <2>2. ASSUME NEW j \in Key, leases' = [leases EXCEPT ![j] = @ + 1]
        PROVE  \A k \in Key : leases[k] > 0 => leases'[k] > 0
    <3>1. \A k \in Key : leases[k] \in Nat BY <1>0 DEF TypeOK
    <3>2. \A k \in Key : leases'[k] = IF k = j THEN leases[k] + 1 ELSE leases[k]
      BY <1>0, <2>2 DEF TypeOK
    <3> QED BY <3>1, <3>2
  <2> QED BY <2>1, <2>2 DEF Appends
<1>1. CASE UNCHANGED queue
  <2>0. ~Enqueue(s, op)
    <3>1. Len(queue[s]) \in Nat BY <1>0, Queues
    <3>2. Enqueue(s, op) => Len(queue'[s]) = Len(queue[s]) + 1 BY <1>0, OperationOnQueue
    <3> QED BY <1>1, <3>1, <3>2
  <2>1. viewed' = viewed BY <1>s, <2>0 DEF Appends
  <2>2. OnlyCallers' BY <1>1 DEF Ordered, OnlyCallers
  <2>3. Landing' BY <1>1, <2>1 DEF Ordered, Landing, CopyAhead, Appends
  <2>4. \A q \in Stream : \A i \in 1 .. Len(queue[q]) : queue[q][i].key \in Key
    BY <1>0, Queues
  <2>5. ReadsProtected' BY <1>a, <1>1, <2>1, <2>4 DEF Ordered, ReadsProtected, CopyAhead, Appends
  <2> QED BY <2>2, <2>3, <2>5 DEF Ordered
<1>2. CASE Enqueue(s, op)
  <2>1. /\ \A q \in Stream : q # s => queue'[q] = queue[q]
        /\ Len(queue'[s]) = Len(queue[s]) + 1
        /\ queue'[s][Len(queue[s]) + 1] = op
        /\ \A i \in 1 .. Len(queue[s]) : queue'[s][i] = queue[s][i]
        /\ Len(queue[s]) \in Nat
    BY <1>0, <1>2, OperationOnQueue
  <2>2. OnlyCallers' BY <1>s, <2>1 DEF Ordered, OnlyCallers
  <2>3. \A k \in Key, q \in Stream, n \in Nat :
          n <= Len(queue[q]) /\ CopyAhead(k, q, n) => CopyAhead(k, q, n)'
    BY <2>1 DEF CopyAhead
  <2>4. \A q \in Stream : Len(queue[q]) \in Nat /\ \A i \in 1 .. Len(queue[q]) : queue[q][i].key \in Key
    BY <1>0, Queues
  <2>5. \A k \in viewed : k \in Key /\ (k \in complete \/ CopyAhead(k, s, Len(queue[s])))
    <3> SUFFICES ASSUME NEW k \in viewed, k \notin complete PROVE CopyAhead(k, s, Len(queue[s]))
      BY <1>0 DEF TypeOK
    <3>1. PICK t \in Stream : CopyAhead(k, t, Len(queue[t])) BY DEF Ordered, Landing
    <3>2. queue[t] # <<>> BY <3>1, EmptySeq DEF CopyAhead
    <3>3. t = s BY <1>s, <3>2, OneLane DEF Ordered
    <3> QED BY <3>1, <3>3
  <2>6. Landing'
    <3> SUFFICES ASSUME NEW k \in viewed'
                 PROVE  k \in complete' \/ \E t \in Stream : CopyAhead(k, t, Len(queue[t]))'
      BY DEF Landing
    <3>1. CASE k \in viewed
      <4>1. k \in complete \/ CopyAhead(k, s, Len(queue[s])) BY <2>5, <3>1
      <4>2. ASSUME CopyAhead(k, s, Len(queue[s])) PROVE CopyAhead(k, s, Len(queue[s]))'
        <5>1. PICK j \in 1 .. Len(queue[s]) : queue[s][j].kind = "copy" /\ queue[s][j].key = k
          BY <4>2 DEF CopyAhead
        <5>2. j \in 1 .. Len(queue'[s]) BY <2>1
        <5>3. queue'[s][j] = queue[s][j] BY <2>1
        <5> QED BY <5>1, <5>2, <5>3 DEF CopyAhead
      <4> QED BY <1>0, <4>1, <4>2 DEF Appends
    <3>2. CASE k \notin viewed
      <4>1. op.kind = "copy" /\ op.key = k BY <3>2 DEF Appends
      <4>2. Len(queue[s]) + 1 \in 1 .. Len(queue'[s]) BY <2>1
      <4>3. CopyAhead(k, s, Len(queue[s]))' BY <2>1, <4>1, <4>2 DEF CopyAhead
      <4> QED BY <1>0, <4>3
    <3> QED BY <3>1, <3>2
  <2>7. ReadsProtected'
    <3> SUFFICES ASSUME NEW q \in Stream, NEW i \in 1 .. Len(queue'[q]), queue'[q][i].kind = "read",
                        NEW k, k = queue'[q][i].key
                 PROVE  /\ k \in viewed'
                        /\ leases'[k] > 0 \/ (event'[k].stream = q /\ i <= event'[k].left)
                        /\ k \in complete' \/ CopyAhead(k, q, i - 1)'
      BY DEF ReadsProtected
    <3>1. CASE i \in 1 .. Len(queue[q]) /\ queue'[q][i] = queue[q][i]
      <4>1. /\ k \in viewed /\ k \in Key
            /\ leases[k] > 0 \/ (event[k].stream = q /\ i <= event[k].left)
            /\ k \in complete \/ CopyAhead(k, q, i - 1)
        BY <2>4, <3>1 DEF Ordered, ReadsProtected
      <4>2. i - 1 \in Nat /\ i - 1 <= Len(queue[q]) BY <2>4, <3>1
      <4>3. CopyAhead(k, q, i - 1) => CopyAhead(k, q, i - 1)' BY <2>3, <4>1, <4>2
      <4> QED BY <1>a, <4>1, <4>3 DEF Appends
    <3>2. CASE q = s /\ i = Len(queue[s]) + 1
      <4>1. op.kind = "read" /\ op.key = k BY <2>1, <3>2
      <4>2. k \in viewed /\ leases[k] > 0 BY <4>1 DEF Appends
      <4>3. k \in Key /\ (k \in complete \/ CopyAhead(k, s, Len(queue[s]))) BY <2>5, <4>2
      <4>4. i - 1 = Len(queue[s]) BY <2>1, <3>2
      <4>5. CopyAhead(k, s, Len(queue[s])) => CopyAhead(k, q, i - 1)'
        <5>1. ASSUME NEW n, n = Len(queue[s]), CopyAhead(k, s, n) PROVE CopyAhead(k, q, n)'
          BY <1>0, <2>1, <2>3, <3>2, <4>3, <5>1
        <5> QED BY <5>1, <4>4
      <4> QED BY <1>a, <4>2, <4>3, <4>5 DEF Appends
    <3> QED BY <2>1, <2>4, <3>1, <3>2
  <2> QED BY <2>2, <2>6, <2>7 DEF Ordered
<1> QED BY <1>s, <1>1, <1>2 DEF Appends

(* Backing goes only from a weight without leases whose event has passed.  *)
Withdraws(k) ==
  /\ leases[k] = 0 /\ event[k].left = 0
  /\ viewed' = viewed \ {k} /\ complete' \in {complete, complete \ {k}}
  /\ \A q \in Key \ {k} : event'[q] = event[q]
  /\ UNCHANGED <<leases, queue>>

LEMMA WithdrawsOrdered ==
  ASSUME Basics, Ordered, NEW k \in Key, Withdraws(k)
  PROVE  Ordered'
<1>0. TypeOK BY DEF Basics
<1>1. OnlyCallers' BY DEF Ordered, OnlyCallers, Withdraws
<1>2. Landing' BY DEF Ordered, Landing, CopyAhead, Withdraws
<1>3. ReadsProtected'
  <2> SUFFICES ASSUME NEW s \in Stream, NEW i \in 1 .. Len(queue[s]), queue[s][i].kind = "read",
                      NEW q, q = queue[s][i].key
               PROVE  /\ q \in viewed'
                      /\ leases[q] > 0 \/ (event'[q].stream = s /\ i <= event'[q].left)
                      /\ q \in complete' \/ CopyAhead(q, s, i - 1)'
    BY DEF ReadsProtected, Withdraws
  <2>1. /\ q \in viewed /\ q \in Key
        /\ leases[q] > 0 \/ (event[q].stream = s /\ i <= event[q].left)
        /\ q \in complete \/ CopyAhead(q, s, i - 1)
    BY <1>0, Queues DEF Ordered, ReadsProtected
  <2>2. Len(queue[s]) \in Nat BY <1>0, Queues
  <2>3. q # k BY <2>1, <2>2 DEF Withdraws
  <2>4. CopyAhead(q, s, i - 1)' = CopyAhead(q, s, i - 1) BY DEF CopyAhead, Withdraws
  <2> QED BY <2>1, <2>3, <2>4 DEF Withdraws
<1> QED BY <1>1, <1>2, <1>3 DEF Ordered

LEMMA ReleaseOrdered ==
  ASSUME SharedStream, Basics, Ordered, NEW c \in Caller, Release(c)
  PROVE  Ordered'
<1>0. TypeOK /\ at[c] = "leased" /\ Positions BY DEF Basics, Release
<1>1. PICK k \in Key : k = wants[c] BY <1>0 DEF Positions
<1>s. PICK s \in Stream : s = StreamOf[c] BY StoreAssumption
<1>2. /\ UNCHANGED <<viewed, complete, queue>>
      /\ leases' = [leases EXCEPT ![k] = @ - 1]
      /\ event' = IF leases[k] = 1
                    THEN [event EXCEPT ![k] = [stream |-> s, left |-> Len(queue[s])]] ELSE event
  BY <1>1, <1>s DEF Release, backVars
<1>3. leases[k] \in Nat /\ leases[k] > 0 BY <1>0, <1>1, ReleaseBasics DEF TypeOK
<1>4. OnlyCallers' BY <1>2 DEF Ordered, OnlyCallers
<1>5. Landing' BY <1>2 DEF Ordered, Landing, CopyAhead
<1>6. ReadsProtected'
  <2> SUFFICES ASSUME NEW t \in Stream, NEW i \in 1 .. Len(queue[t]), queue[t][i].kind = "read",
                      NEW q, q = queue[t][i].key
               PROVE  /\ q \in viewed
                      /\ leases'[q] > 0 \/ (event'[q].stream = t /\ i <= event'[q].left)
                      /\ q \in complete \/ CopyAhead(q, t, i - 1)'
    BY <1>2 DEF ReadsProtected
  <2>1. /\ q \in viewed /\ q \in Key
        /\ leases[q] > 0 \/ (event[q].stream = t /\ i <= event[q].left)
        /\ q \in complete \/ CopyAhead(q, t, i - 1)
    BY <1>0, Queues DEF Ordered, ReadsProtected
  <2>2. CopyAhead(q, t, i - 1)' = CopyAhead(q, t, i - 1) BY <1>2 DEF CopyAhead
  <2>3. Len(queue[t]) \in Nat BY <1>0, Queues
  <2>4. t = s
    <3>1. queue[t] # <<>> BY <2>3, EmptySeq
    <3> QED BY <1>s, <3>1, OneLane DEF Ordered
  <2>5. leases'[q] > 0 \/ (event'[q].stream = t /\ i <= event'[q].left)
    <3>1. CASE q # k
      <4>1. leases'[q] = leases[q] /\ event'[q] = event[q] BY <1>0, <1>2, <2>1, <3>1 DEF TypeOK
      <4> QED BY <2>1, <4>1
    <3>2. CASE q = k /\ leases[k] = 1
      <4>1. event'[k] = [stream |-> s, left |-> Len(queue[s])] BY <1>0, <1>2, <3>2 DEF TypeOK
      <4> QED BY <2>3, <2>4, <3>2, <4>1
    <3>3. CASE q = k /\ leases[k] # 1
      <4>1. leases'[k] = leases[k] - 1 BY <1>0, <1>2 DEF TypeOK
      <4> QED BY <1>3, <3>3, <4>1
    <3> QED BY <3>1, <3>2, <3>3
  <2> QED BY <2>1, <2>2, <2>5
<1> QED BY <1>4, <1>5, <1>6 DEF Ordered

LEMMA FinishOrdered ==
  ASSUME Basics, Ordered, NEW s \in Stream, Finish(s)
  PROVE  Ordered'
<1>0. TypeOK BY DEF Basics
<1>1. UNCHANGED <<viewed, backed, leases>> /\ complete \subseteq complete' BY DEF Finish, leaseVars
<1>2. Head(queue[s]).kind = "copy" /\ Head(queue[s]).key \in viewed => Head(queue[s]).key \in complete'
  BY DEF Finish, Basics
<1>n. \A q \in Stream : Len(queue[q]) \in Nat BY <1>0, Queues
<1>3. /\ \A q \in Stream \ {s} :
           /\ Len(queue'[q]) = Len(queue[q])
           /\ \A i \in 1 .. Len(queue[q]) : SameOperation(queue'[q][i], queue[q][i])
      /\ Len(queue[s]) > 0 /\ Len(queue'[s]) = Len(queue[s]) - 1
      /\ \A i \in 1 .. Len(queue[s]) - 1 : SameOperation(queue'[s][i], queue[s][i + 1])
      /\ Head(queue[s]) = queue[s][1]
      /\ queue' \in [Stream -> Seq(Operation)]
      /\ \A k \in Key :
           /\ event'[k].stream = event[k].stream
           /\ event'[k].left =
                IF event[k].stream = s /\ event[k].left > 0 THEN event[k].left - 1 ELSE event[k].left
  BY <1>0, FinishShape
<1>4. OnlyCallers'
  <2>1. \A q \in Stream : queue[q] = <<>> => queue'[q] = <<>>
    <3> SUFFICES ASSUME NEW q \in Stream, queue[q] = <<>> PROVE queue'[q] = <<>> OBVIOUS
    <3>1. Len(queue[q]) = 0 BY EmptySeq
    <3>2. q # s BY <1>3, <3>1
    <3>3. Len(queue'[q]) = 0 /\ queue'[q] \in Seq(Operation) BY <1>3, <3>1, <3>2
    <3> QED BY <3>3, EmptySeq
  <2> QED BY <2>1 DEF Ordered, OnlyCallers
(* A copy that stood ahead of others still does, or has just landed.       *)
<1>5. ASSUME NEW k \in viewed, NEW q \in Stream, NEW m \in Nat, m <= Len(queue[q]), CopyAhead(k, q, m)
      PROVE  k \in complete' \/ \E n \in Nat : n = (IF q = s THEN m - 1 ELSE m) /\ CopyAhead(k, q, n)'
  <2>1. PICK j \in 1 .. m : queue[q][j].kind = "copy" /\ queue[q][j].key = k BY <1>5 DEF CopyAhead
  <2>2. CASE q # s
    <3>1. SameOperation(queue'[q][j], queue[q][j]) BY <1>3, <1>5, <1>n, <2>1, <2>2
    <3>2. CopyAhead(k, q, m)' BY <2>1, <3>1 DEF CopyAhead, SameOperation
    <3> QED BY <2>2, <3>2
  <2>3. CASE q = s /\ j = 1 BY <1>2, <1>3, <2>1, <2>3
  <2>4. CASE q = s /\ j # 1
    <3>1. j - 1 \in 1 .. Len(queue[s]) - 1 /\ j - 1 \in 1 .. m - 1 /\ (j - 1) + 1 = j
      BY <1>5, <1>n, <2>1, <2>4
    <3>2. SameOperation(queue'[s][j - 1], queue[s][j]) BY <1>3, <3>1
    <3>3. m - 1 \in Nat BY <2>1
    <3>4. CopyAhead(k, q, m - 1)' BY <2>1, <2>4, <3>1, <3>2 DEF CopyAhead, SameOperation
    <3> QED BY <2>4, <3>3, <3>4
  <2> QED BY <2>2, <2>3, <2>4
<1>6. Landing'
  <2> SUFFICES ASSUME NEW k \in viewed, k \notin complete'
               PROVE  \E t \in Stream : CopyAhead(k, t, Len(queue[t]))'
    BY <1>1 DEF Landing
  <2>1. PICK q \in Stream : CopyAhead(k, q, Len(queue[q])) BY <1>1 DEF Ordered, Landing
  <2>2. PICK n \in Nat : n = (IF q = s THEN Len(queue[q]) - 1 ELSE Len(queue[q])) /\ CopyAhead(k, q, n)'
    BY <1>5, <1>n, <2>1
  <2>3. n = Len(queue'[q]) BY <1>3, <2>2
  <2>4. CopyAhead(k, q, Len(queue[q]))' BY <2>2, <2>3 DEF CopyAhead
  <2> QED BY <2>4
<1>7. ReadsProtected'
  <2> SUFFICES ASSUME NEW q \in Stream, NEW i \in 1 .. Len(queue'[q]), queue'[q][i].kind = "read",
                      NEW k, k = queue'[q][i].key
               PROVE  /\ k \in viewed
                      /\ leases[k] > 0 \/ (event'[k].stream = q /\ i <= event'[k].left)
                      /\ k \in complete' \/ CopyAhead(k, q, i - 1)'
    BY <1>1 DEF ReadsProtected
  <2>1. PICK m \in 1 .. Len(queue[q]) :
          m = (IF q = s THEN i + 1 ELSE i) /\ SameOperation(queue'[q][i], queue[q][m])
    <3>1. CASE q = s
      <4>1. i \in 1 .. Len(queue[s]) - 1 /\ i + 1 \in 1 .. Len(queue[s]) BY <1>3, <1>n, <3>1
      <4> QED BY <1>3, <3>1, <4>1
    <3>2. CASE q # s BY <1>3, <3>2
    <3> QED BY <3>1, <3>2
  <2>2. queue[q][m].kind = "read" /\ queue[q][m].key = k BY <2>1 DEF SameOperation
  <2>3. /\ k \in viewed /\ k \in Key
        /\ leases[k] > 0 \/ (event[k].stream = q /\ m <= event[k].left)
        /\ k \in complete \/ CopyAhead(k, q, m - 1)
    BY <1>0, <2>2, Queues DEF Ordered, ReadsProtected
  <2>4. event[k].stream = q /\ m <= event[k].left => event'[k].stream = q /\ i <= event'[k].left
    <3>1. event[k].left \in Nat BY <1>0, <2>3 DEF TypeOK, Event
    <3> QED BY <1>3, <1>n, <2>1, <2>3, <3>1
  <2>5. k \in complete' \/ CopyAhead(k, q, i - 1)'
    <3>1. CASE k \in complete BY <1>1, <3>1
    <3>2. CASE CopyAhead(k, q, m - 1)
      <4>1. m - 1 \in Nat /\ m - 1 <= Len(queue[q]) BY <1>n, <2>1
      <4>2. k \in complete' \/ \E n \in Nat : n = (IF q = s THEN m - 1 - 1 ELSE m - 1) /\ CopyAhead(k, q, n)'
        BY <1>5, <2>3, <3>2, <4>1
      <4>3. (IF q = s THEN m - 1 - 1 ELSE m - 1) = i - 1 BY <1>n, <1>3, <2>1
      <4> QED BY <4>2, <4>3
    <3> QED BY <2>3, <3>1, <3>2
  <2> QED BY <2>3, <2>4, <2>5
<1> QED BY <1>4, <1>6, <1>7 DEF Ordered

(* Every step is of one of these kinds.                                    *)
LEMMA StepKinds ==
  ASSUME Basics, [Next]_vars
  PROVE  \/ \E c \in Caller, op \in Operation : Appends(c, op)
         \/ \E k \in Key : Withdraws(k)
         \/ \E c \in Caller : Release(c)
         \/ \E s \in Stream : Finish(s)
         \/ UNCHANGED <<viewed, complete, leases, event, queue>>
<1> DEFINE Goal == \/ \E c \in Caller, op \in Operation : Appends(c, op)
                   \/ \E k \in Key : Withdraws(k)
                   \/ \E c \in Caller : Release(c)
                   \/ \E s \in Stream : Finish(s)
                   \/ UNCHANGED <<viewed, complete, leases, event, queue>>
<1>0. TypeOK /\ Positions /\ Leased BY DEF Basics
<1>1. ASSUME NEW c \in Caller, NEW k \in Key, wants[c] = k, Acquire(c) PROVE Goal
  <2> DEFINE op == [kind |-> "wait", key |-> k, stream |-> event[k].stream, left |-> event[k].left]
  <2>1. op \in Operation BY <1>0 DEF TypeOK, Event, Operation
  <2>2. Appends(c, op) BY <1>1 DEF Acquire, Appends, Lease, Raise, backVars, leaseVars
  <2> QED BY <2>1, <2>2
<1>2. ASSUME NEW c \in Caller, NEW k \in Key, wants[c] = k, MapAndCopy(c) PROVE Goal
  <2> DEFINE op == [kind |-> "copy", key |-> k, stream |-> StreamOf[c], left |-> 0]
  <2>1. op \in Operation BY StoreAssumption DEF Operation
  <2>2. Appends(c, op) BY <1>2 DEF MapAndCopy, Appends, Lease
  <2> QED BY <2>1, <2>2
<1>3. ASSUME NEW c \in Caller, NEW k \in Key, wants[c] = k, Launch(c) PROVE Goal
  <2> DEFINE op == [kind |-> "read", key |-> k, stream |-> StreamOf[c], left |-> 0]
  <2>1. op \in Operation BY StoreAssumption DEF Operation
  <2>2. leases[k] > 0 /\ k \in viewed
    <3>1. c \in Holders(k) BY <1>3 DEF Launch, Holders
    <3>2. leases[k] # 0 BY <1>0, <3>1, FS_EmptySet DEF Leased
    <3> QED BY <1>0, <3>2 DEF TypeOK, Leased
  <2>3. Appends(c, op) BY <1>3, <2>2 DEF Launch, Appends, backVars, leaseVars
  <2> QED BY <2>1, <2>3
<1>4. ASSUME NEW k \in Key, leases[k] = 0, NEW c \in Caller, NEW then, Unmap(c, k, then) PROVE Goal
  <2>1. Withdraws(k) BY <1>0, <1>4 DEF Unmap, Quiet, Withdraws, leaseVars, TypeOK
  <2> QED BY <2>1
<1>5. ASSUME NEW c \in Caller, MakeRoom(c) PROVE Goal
  <2>1. CASE UNCHANGED <<slotVars, backVars, leaseVars, event, queue, failures>>
    BY <2>1 DEF backVars, leaseVars
  <2>2. ASSUME NEW i \in Candidates, Unmap(c, used[i], "room") PROVE Goal
    BY <1>0, <1>4, <2>2 DEF Candidates, Candidate, TypeOK
  <2> QED BY <1>5, <2>1, <2>2 DEF MakeRoom
<1>6. ASSUME NEW c \in Caller, Evict(c) PROVE Goal
  <2>1. wants[c] \in Key /\ leases[wants[c]] = 0 BY <1>0, <1>6 DEF Evict, Positions
  <2> QED BY <1>4, <1>6, <2>1 DEF Evict
<1>7. ASSUME NEW c \in Caller, CloseSlot(c) PROVE Goal
  <2>1. CASE UNCHANGED backVars /\ UNCHANGED <<leaseVars, event, queue>>
    BY <2>1 DEF backVars, leaseVars
  <2>2. ASSUME NEW k \in handle, leases[k] = 0, Unmap(c, k, "close") PROVE Goal
    BY <1>0, <1>4, <2>2 DEF TypeOK
  <2> QED BY <1>7, <2>1, <2>2 DEF CloseSlot
<1>8. ASSUME NEW c \in Caller,
             \/ \E k \in Key : Reserve(c, k) \/ BeginEvict(c, k)
             \/ BeginClose(c) \/ CloseDone(c) \/ MapFails(c)
      PROVE  UNCHANGED <<viewed, complete, leases, event, queue>>
  BY <1>8 DEF Reserve, BeginEvict, BeginClose, CloseDone, MapFails, backVars, leaseVars
<1>9. CASE UNCHANGED vars BY <1>9 DEF vars, backVars, leaseVars
<1>10. \A c \in Caller : Acquire(c) \/ MapAndCopy(c) \/ Launch(c) => wants[c] \in Key
  BY <1>0 DEF Positions, Acquire, MapAndCopy, Launch
<1> HIDE DEF Goal
<1>11. ASSUME NEW c \in Caller, NEW k \in Key, Reserve(c, k) \/ BeginEvict(c, k) PROVE Goal
  BY <1>8, <1>11 DEF Goal
<1>12. ASSUME NEW c \in Caller, BeginClose(c) \/ Inside(c) PROVE Goal
  BY <1>2, <1>5, <1>6, <1>7, <1>8, <1>10, <1>12 DEF Inside, Goal
<1>13. ASSUME NEW c \in Caller, Acquire(c) \/ Launch(c) PROVE Goal
  BY <1>1, <1>3, <1>10, <1>13
<1>14. ASSUME NEW c \in Caller, Release(c) PROVE Goal BY <1>14 DEF Goal
<1>15. ASSUME NEW s \in Stream, Finish(s) PROVE Goal BY <1>15 DEF Goal
<1>16. Goal BY <1>9, <1>11, <1>12, <1>13, <1>14, <1>15 DEF Next, Goal
<1> QED BY <1>16 DEF Goal

LEMMA NextOrdered ==
  ASSUME SharedStream, Basics, Ordered, [Next]_vars
  PROVE  Ordered'
<1>1. CASE UNCHANGED <<viewed, complete, leases, event, queue>>
  BY <1>1 DEF Ordered, OnlyCallers, Landing, ReadsProtected, CopyAhead
<1> QED BY <1>1, StepKinds, AppendsOrdered, WithdrawsOrdered, ReleaseOrdered, FinishOrdered

LEMMA InitOrdered == Init => Ordered
<1> SUFFICES ASSUME Init PROVE Ordered OBVIOUS
<1>1. \A s \in Stream : queue[s] = <<>> /\ Len(queue[s]) = 0 BY EmptySeq DEF Init
<1>2. viewed = {} BY DEF Init
<1> QED BY <1>1, <1>2 DEF Ordered, OnlyCallers, Landing, ReadsProtected

LEMMA AlwaysOrdered == SharedStream => (Spec => []IInv)
<1> SUFFICES ASSUME SharedStream PROVE Spec => []IInv OBVIOUS
<1>1. Init => IInv BY InitBasics, InitOrdered DEF IInv
<1>2. IInv /\ [Next]_vars => IInv' BY NextBasics, NextOrdered DEF IInv
<1> QED BY <1>1, <1>2, PTL DEF Spec

(* When all callers share a stream, a read that the stream has come to     *)
(* finds its weight complete, through evictions, failures and closing.     *)
THEOREM ReadsAreOrdered == SharedStream => (Spec => []ReadsSeeWeights)
<1> SUFFICES ASSUME SharedStream PROVE Spec => []ReadsSeeWeights OBVIOUS
<1>1. IInv => ReadsSeeWeights
  <2> SUFFICES ASSUME IInv, NEW s \in Stream, queue[s] # <<>>, Head(queue[s]).kind = "read"
               PROVE  Head(queue[s]).key \in complete
    BY DEF ReadsSeeWeights
  <2>1. TypeOK /\ ReadsProtected BY DEF IInv, Basics, Ordered
  <2>2. Len(queue[s]) \in Nat /\ Len(queue[s]) # 0 BY <2>1, Queues, EmptySeq
  <2>3. Head(queue[s]) = queue[s][1] /\ 1 \in 1 .. Len(queue[s]) BY <2>1, <2>2, Queues
  <2>4. \A k : ~CopyAhead(k, s, 1 - 1) BY DEF CopyAhead
  <2> QED BY <2>1, <2>3, <2>4 DEF ReadsProtected
<1> QED BY <1>1, AlwaysOrdered, PTL

------------------------------------------------------------------------------
(* The store implements leasing *)

Held    == {k \in Key : leases[k] > 0}
Started == {k \in Key : \E s \in Stream : \E i \in DOMAIN queue[s] :
              queue[s][i].kind = "read" /\ queue[s][i].key = k}

Reading(k, s) == \E i \in 1 .. Len(queue[s]) : queue[s][i].kind = "read" /\ queue[s][i].key = k

LEMMA StartedOf ==
  ASSUME TypeOK, NEW k \in Key
  PROVE  k \in Started <=> \E s \in Stream : Reading(k, s)
<1>1. \A s \in Stream : DOMAIN queue[s] = 1 .. Len(queue[s]) BY LenProperties DEF TypeOK
<1> QED BY <1>1 DEF Started, Reading

(* What each kind of step does to leasing.                                 *)
Leasing ==
  \/ \E k \in Key :
       \/ complete' = complete \cup {k} /\ Held' = Held /\ Started' = Started
       \/ complete' = complete /\ Held' = Held \cup {k} /\ Started' = Started
       \/ k \in Held /\ complete' = complete /\ Held' = Held /\ Started' = Started \cup {k}
       \/ /\ k \in Started \cap complete
          /\ complete' = complete /\ Held' = Held /\ Started' = Started \ {k}
       \/ complete' = complete /\ Held' = Held \ {k} /\ Started' = Started
       \/ /\ k \notin Held \cup Started
          /\ complete' = complete \ {k} /\ Held' = Held /\ Started' = Started
  \/ complete' = complete /\ Held' = Held /\ Started' = Started

LEMMA LeasingSteps ==
  ASSUME Leasing
  PROVE  [Residency!Next]_(Residency!vars)
<1>1. ASSUME NEW k \in Key,
             complete' = complete \cup {k}, Held' = Held, Started' = Started
      PROVE  Residency!Arrive(k)
  BY <1>1 DEF Residency!Arrive, Held, Started
<1>2. ASSUME NEW k \in Key,
             complete' = complete, Held' = Held \cup {k}, Started' = Started
      PROVE  Residency!Hold(k)
  BY <1>2 DEF Residency!Hold, Held, Started
<1>3. ASSUME NEW k \in Key, k \in Held,
             complete' = complete, Held' = Held, Started' = Started \cup {k}
      PROVE  Residency!Start(k)
  BY <1>3 DEF Residency!Start, Held, Started
<1>4. ASSUME NEW k \in Key, k \in Started \cap complete,
             complete' = complete, Held' = Held, Started' = Started \ {k}
      PROVE  Residency!Finish(k)
  BY <1>4 DEF Residency!Finish, Held, Started
<1>5. ASSUME NEW k \in Key,
             complete' = complete, Held' = Held \ {k}, Started' = Started
      PROVE  Residency!Drop(k)
  BY <1>5 DEF Residency!Drop, Held, Started
<1>6. ASSUME NEW k \in Key, k \notin Held \cup Started,
             complete' = complete \ {k}, Held' = Held, Started' = Started
      PROVE  Residency!Remove({k})
  <2>1. {k} \cap (Held \cup Started) = {} BY <1>6
  <2> QED BY <1>6, <2>1 DEF Residency!Remove, Held, Started
<1>7. ASSUME complete' = complete, Held' = Held, Started' = Started
      PROVE  UNCHANGED Residency!vars
  BY <1>7 DEF Residency!vars, Held, Started
<1>8. \A k \in Key : {k} \in SUBSET Key OBVIOUS
<1> QED BY <1>1, <1>2, <1>3, <1>4, <1>5, <1>6, <1>7, <1>8 DEF Leasing, Residency!Next

LEMMA StartedNext ==
  ASSUME queue' \in [Stream -> Seq(Operation)], NEW k \in Key
  PROVE  k \in Started' <=> \E s \in Stream : Reading(k, s)'
<1>1. \A s \in Stream : DOMAIN queue'[s] = 1 .. Len(queue'[s]) BY LenProperties
<1> QED BY <1>1 DEF Started, Reading

LEMMA AppendsLeases ==
  ASSUME Basics, NEW c \in Caller, NEW op \in Operation, Appends(c, op)
  PROVE  Leasing
<1>s. PICK s \in Stream : s = StreamOf[c] BY StoreAssumption
<1>0. TypeOK /\ op.key \in Key BY DEF Basics, Operation
<1>1. ASSUME UNCHANGED queue \/ (Enqueue(s, op) /\ op.kind # "read") PROVE Started' = Started
  <2>1. CASE UNCHANGED queue BY <2>1 DEF Started
  <2>2. CASE Enqueue(s, op) /\ op.kind # "read"
    <3>1. /\ \A q \in Stream : q # s => queue'[q] = queue[q]
          /\ queue' \in [Stream -> Seq(Operation)]
          /\ Len(queue'[s]) = Len(queue[s]) + 1
          /\ queue'[s][Len(queue[s]) + 1] = op
          /\ \A i \in 1 .. Len(queue[s]) : queue'[s][i] = queue[s][i]
          /\ Len(queue[s]) \in Nat
      BY <1>0, <2>2, OperationOnQueue
    <3>2. ASSUME NEW k \in Key, NEW q \in Stream PROVE Reading(k, q)' <=> Reading(k, q)
      <4>1. CASE q # s BY <3>1, <4>1 DEF Reading
      <4>2. ASSUME Reading(k, s)' PROVE Reading(k, s)
        <5>1. PICK i \in 1 .. Len(queue'[s]) : queue'[s][i].kind = "read" /\ queue'[s][i].key = k
          BY <4>2 DEF Reading
        <5>2. i # Len(queue[s]) + 1 BY <2>2, <3>1, <5>1
        <5>3. i \in 1 .. Len(queue[s]) BY <3>1, <5>2
        <5> QED BY <3>1, <5>1, <5>3 DEF Reading
      <4>3. ASSUME Reading(k, s) PROVE Reading(k, s)' BY <3>1, <4>3 DEF Reading
      <4> QED BY <4>1, <4>2, <4>3
    <3> QED BY <1>0, <3>1, <3>2, StartedOf, StartedNext DEF Started
  <2> QED BY <1>1, <2>1, <2>2
<1>2. ASSUME Enqueue(s, op), op.kind = "read" PROVE Started' = Started \cup {op.key}
  <2>1. /\ \A q \in Stream : q # s => queue'[q] = queue[q]
        /\ queue' \in [Stream -> Seq(Operation)]
        /\ Len(queue'[s]) = Len(queue[s]) + 1
        /\ queue'[s][Len(queue[s]) + 1] = op
        /\ \A i \in 1 .. Len(queue[s]) : queue'[s][i] = queue[s][i]
        /\ Len(queue[s]) \in Nat
    BY <1>0, <1>2, OperationOnQueue
  <2>2. \A k \in Key, q \in Stream : Reading(k, q)' <=> Reading(k, q) \/ (q = s /\ k = op.key)
    BY <1>2, <2>1, SMTT(30) DEF Reading
  <2>3. \A k \in Key : k \in Started' <=> k \in Started \/ k = op.key
    BY <1>0, <2>1, <2>2, StartedOf, StartedNext
  <2>4. Started \subseteq Key /\ Started' \subseteq Key BY DEF Started
  <2> QED BY <1>0, <2>3, <2>4
<1>3. ASSUME NEW k \in Key, leases' = [leases EXCEPT ![k] = @ + 1] PROVE Held' = Held \cup {k}
  <2>1. \A j \in Key : leases[j] \in Nat BY <1>0 DEF TypeOK
  <2>2. \A j \in Key : leases'[j] = IF j = k THEN leases[j] + 1 ELSE leases[j]
    BY <1>0, <1>3 DEF TypeOK
  <2> QED BY <2>1, <2>2 DEF Held
<1>4. leases' = leases => Held' = Held BY DEF Held
<1>5. CASE Enqueue(s, op) /\ op.kind = "read"
  <2>1. leases' = leases /\ op.key \in Held BY <1>0, <1>5 DEF Appends, Held
  <2> QED BY <1>0, <1>2, <1>4, <1>5, <2>1 DEF Leasing, Appends
<1>6. CASE UNCHANGED queue \/ (Enqueue(s, op) /\ op.kind # "read")
  BY <1>1, <1>3, <1>4, <1>6 DEF Leasing, Appends
<1> QED BY <1>s, <1>5, <1>6 DEF Appends

LEMMA WithdrawsLeases ==
  ASSUME Basics, Ordered, NEW k \in Key, Withdraws(k)
  PROVE  Leasing
<1>0. TypeOK BY DEF Basics
<1>1. Held' = Held /\ Started' = Started BY DEF Held, Started, Withdraws
<1>2. k \notin Held BY DEF Held, Withdraws
<1>3. k \notin Started
  <2> SUFFICES ASSUME NEW s \in Stream, NEW i \in 1 .. Len(queue[s]),
                      queue[s][i].kind = "read", queue[s][i].key = k
               PROVE  FALSE
    BY <1>0, StartedOf DEF Reading
  <2>1. i <= event[k].left \/ leases[k] > 0 BY DEF Ordered, ReadsProtected
  <2>2. Len(queue[s]) \in Nat BY <1>0, Queues
  <2> QED BY <2>1, <2>2 DEF Withdraws
<1> QED BY <1>1, <1>2, <1>3 DEF Leasing, Withdraws

LEMMA ReleaseLeases ==
  ASSUME Basics, NEW c \in Caller, Release(c)
  PROVE  Leasing
<1>0. TypeOK /\ at[c] = "leased" /\ Positions BY DEF Basics, Release
<1>1. PICK k \in Key : k = wants[c] BY <1>0 DEF Positions
<1>2. UNCHANGED <<complete, queue>> /\ leases' = [leases EXCEPT ![k] = @ - 1]
  BY <1>1 DEF Release, backVars
<1>3. Started' = Started BY <1>2 DEF Started
<1>4. \A j \in Key : leases[j] \in Nat BY <1>0 DEF TypeOK
<1>5. leases[k] # 0 BY <1>0, <1>1, ReleaseBasics
<1>6. \A j \in Key : leases'[j] = IF j = k THEN leases[j] - 1 ELSE leases[j]
  BY <1>0, <1>2 DEF TypeOK
<1>7. CASE leases[k] = 1
  <2>1. Held' = Held \ {k} BY <1>4, <1>6, <1>7 DEF Held
  <2> QED BY <1>2, <1>3, <2>1 DEF Leasing
<1>8. CASE leases[k] # 1
  <2>1. leases'[k] > 0 /\ leases[k] > 0 BY <1>4, <1>5, <1>6, <1>8
  <2>2. Held' = Held BY <1>6, <2>1 DEF Held
  <2> QED BY <1>2, <1>3, <2>2 DEF Leasing
<1> QED BY <1>7, <1>8

LEMMA FinishLeases ==
  ASSUME Basics, Ordered, NEW s \in Stream, Finish(s)
  PROVE  Leasing
<1>0. TypeOK BY DEF Basics
<1>1. Held' = Held BY DEF Held, Finish, leaseVars
<1>2. /\ \A q \in Stream \ {s} :
           /\ Len(queue'[q]) = Len(queue[q])
           /\ \A i \in 1 .. Len(queue[q]) : SameOperation(queue'[q][i], queue[q][i])
      /\ Len(queue[s]) > 0 /\ Len(queue'[s]) = Len(queue[s]) - 1
      /\ \A i \in 1 .. Len(queue[s]) - 1 : SameOperation(queue'[s][i], queue[s][i + 1])
      /\ Head(queue[s]) = queue[s][1]
      /\ queue' \in [Stream -> Seq(Operation)]
  BY <1>0, FinishShape
<1>n. Len(queue[s]) \in Nat BY <1>0, Queues
<1>3. PICK op \in Operation : op = queue[s][1] BY <1>0, <1>2, <1>n, Queues
<1>4. op.key \in Key BY DEF Operation
<1>5. ASSUME NEW k \in Key
      PROVE  /\ Reading(k, s) <=> Reading(k, s)' \/ (op.kind = "read" /\ op.key = k)
             /\ \A q \in Stream \ {s} : Reading(k, q)' <=> Reading(k, q)
  <2>1. ASSUME Reading(k, s) PROVE Reading(k, s)' \/ (op.kind = "read" /\ op.key = k)
    <3>1. PICK i \in 1 .. Len(queue[s]) : queue[s][i].kind = "read" /\ queue[s][i].key = k
      BY <2>1 DEF Reading
    <3>2. CASE i = 1 BY <1>3, <3>1, <3>2
    <3>3. CASE i # 1
      <4>1. i - 1 \in 1 .. Len(queue[s]) - 1 /\ (i - 1) + 1 = i BY <1>n, <3>3
      <4>2. SameOperation(queue'[s][i - 1], queue[s][i]) BY <1>2, <4>1
      <4> QED BY <1>2, <3>1, <4>1, <4>2 DEF Reading, SameOperation
    <3> QED BY <3>2, <3>3
  <2>2. ASSUME Reading(k, s)' PROVE Reading(k, s)
    <3>1. PICK i \in 1 .. Len(queue'[s]) : queue'[s][i].kind = "read" /\ queue'[s][i].key = k
      BY <2>2 DEF Reading
    <3>2. i \in 1 .. Len(queue[s]) - 1 /\ i + 1 \in 1 .. Len(queue[s]) BY <1>2, <1>n
    <3>3. SameOperation(queue'[s][i], queue[s][i + 1]) BY <1>2, <3>2
    <3> QED BY <3>1, <3>2, <3>3 DEF Reading, SameOperation
  <2>3. op.kind = "read" /\ op.key = k => Reading(k, s) BY <1>2, <1>3, <1>n DEF Reading
  <2>4. \A q \in Stream \ {s} : Reading(k, q)' <=> Reading(k, q) BY <1>2 DEF Reading, SameOperation
  <2> QED BY <2>1, <2>2, <2>3, <2>4
<1>6. Started \subseteq Key /\ Started' \subseteq Key BY DEF Started
<1>7. \A k \in Key : (k \in Started <=> k \in Started' \/ (op.kind = "read" /\ op.key = k))
  BY <1>0, <1>2, <1>5, StartedOf, StartedNext
<1>8. complete' = IF op.kind = "copy" THEN complete \cup ({op.key} \cap backed) ELSE complete
  BY <1>2, <1>3 DEF Finish
<1>9. CASE op.kind = "read"
  <2>1. complete' = complete /\ op.key \in Started BY <1>4, <1>7, <1>8, <1>9
  <2>2. op.key \in complete
    <3>1. op.key \in complete \/ CopyAhead(op.key, s, 1 - 1)
      BY <1>2, <1>3, <1>9, <1>n DEF Ordered, ReadsProtected
    <3> QED BY <3>1 DEF CopyAhead
  <2>3. Started' = Started \/ Started' = Started \ {op.key} BY <1>4, <1>6, <1>7
  <2> QED BY <1>1, <1>4, <2>1, <2>2, <2>3 DEF Leasing
<1>10. CASE op.kind # "read"
  <2>1. Started' = Started BY <1>6, <1>7, <1>10
  <2>2. complete' = complete \/ complete' = complete \cup {op.key} BY <1>8
  <2> QED BY <1>1, <1>4, <2>1, <2>2 DEF Leasing
<1> QED BY <1>9, <1>10

(* Seen through its complete weights, its leases and the reads on its      *)
(* streams, the store is leasing, for callers that share a stream: kernels *)
(* start under a lease, find their weight, and no weight is taken from one.*)
THEOREM LeasingImplemented == SharedStream => (Spec => ImplementsResidency)
<1> SUFFICES ASSUME SharedStream PROVE Spec => ImplementsResidency OBVIOUS
<1>1. Init => Residency!Init
  <2> SUFFICES ASSUME Init PROVE Residency!Init OBVIOUS
  <2>1. TypeOK /\ complete = {} BY InitBasics DEF Basics, Init
  <2>2. Held = {} BY DEF Init, Held
  <2>3. \A s \in Stream : Len(queue[s]) = 0 BY EmptySeq DEF Init
  <2>4. Started = {}
    <3>1. \A k \in Key : k \notin Started BY <2>1, <2>3, StartedOf DEF Reading
    <3> QED BY <3>1 DEF Started
  <2> QED BY <2>1, <2>2, <2>4 DEF Residency!Init, Held, Started
<1>2. IInv /\ [Next]_vars => [Residency!Next]_(Residency!vars)
  <2> SUFFICES ASSUME IInv, [Next]_vars PROVE [Residency!Next]_(Residency!vars) OBVIOUS
  <2>1. Basics /\ Ordered BY DEF IInv
  <2>2. UNCHANGED <<complete, leases, queue>> => Leasing BY DEF Leasing, Held, Started
  <2>3. Leasing
    BY <2>1, <2>2, StepKinds, AppendsLeases, WithdrawsLeases, ReleaseLeases, FinishLeases
  <2> QED BY <2>3, LeasingSteps
<1>3. Spec => []IInv BY AlwaysOrdered
<1> QED BY <1>1, <1>2, <1>3, PTL DEF Spec, ImplementsResidency, Residency!Spec
=============================================================================
