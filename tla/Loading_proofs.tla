----------------------------- MODULE Loading_proofs -----------------------------
(***************************************************************************)
(* What loading may rely on, for any number of loads, files, tensors and   *)
(* storages: loads nested in one another undo their patches and note every *)
(* file, the registry of sources names the bytes that storages hold,       *)
(* page-locked memory has one owner, staged tensors have their own bytes,  *)
(* and handles outlive the reads through them.                             *)
(***************************************************************************)
EXTENDS MCLoading, Planner_proofs, Weights_proofs, HookLife_proofs

------------------------------------------------------------------------------
(* The patch of safetensors *)

(* The function that the n-th load in progress replaced.                   *)
Below(stack, n) == IF n = 1 THEN Original ELSE stack[n - 1]

(* Only loads have been entered that have something saved, each once, and  *)
(* each has saved what the load around it had put in place.                *)
Chained ==
  /\ \A n \in 1 .. Len(active) : saved[active[n]] = Below(active, n)
  /\ \A m, n \in 1 .. Len(active) : active[m] = active[n] => m = n
  /\ safeOpen = Below(active, Len(active) + 1)

(* Modules imported in time follow safetensors, and are put back with it.  *)
EarlyFollow ==
  /\ \A i \in EarlyImports : captured[i] = safeOpen
  /\ \A n \in 1 .. Len(active) : EarlyImports \subseteq patched[active[n]]

PatchTypes ==
  /\ safeOpen \in Function /\ captured \in [Importer -> Function \cup {NotImported}]
  /\ saved \in [Load -> Function \cup {NotImported}] /\ patched \in [Load -> SUBSET Importer]
  /\ active \in Seq(Load)

IInv == PatchTypes /\ Chained /\ EarlyFollow

------------------------------------------------------------------------------
(* A load that has nothing saved is not in progress.                       *)
LEMMA EnteredOnce ==
  ASSUME IInv, NEW l \in Load, saved[l] = NotImported, NEW n \in 1 .. Len(active)
  PROVE  active[n] # l
<1>1. Below(active, n) \in Function BY DEF IInv, PatchTypes, Below, Function
<1> QED BY <1>1, PatchAssumption DEF IInv, Chained, Function

(* What is left of a sequence without its last element.                    *)
LEMMA FrontOf ==
  ASSUME NEW S, NEW s \in Seq(S), Len(s) \in Nat \ {0}
  PROVE  /\ SubSeq(s, 1, Len(s) - 1) \in Seq(S)
         /\ Len(SubSeq(s, 1, Len(s) - 1)) = Len(s) - 1
         /\ \A n \in 1 .. Len(s) - 1 : SubSeq(s, 1, Len(s) - 1)[n] = s[n]
<1> DEFINE m == Len(s) - 1
<1>0. Len(s) \in Nat \ {0} OBVIOUS
<1>1. m \in Nat /\ m <= Len(s) /\ (1 <= m \/ m = 0)
  <2>1. \A n \in Nat \ {0} : n - 1 \in Nat /\ n - 1 <= n /\ (1 <= n - 1 \/ n - 1 = 0) OBVIOUS
  <2> QED BY <1>0, <2>1
<1>2. \A n \in 1 .. m : s[n] \in S
  <2>1. \A n \in 1 .. m : n \in 1 .. Len(s) BY <1>1
  <2> QED BY <2>1, ElementOfSeq
<1> HIDE DEF m
<1>3. /\ SubSeq(s, 1, m) \in Seq(S)
      /\ Len(SubSeq(s, 1, m)) = (IF 1 <= m THEN m - 1 + 1 ELSE 0)
      /\ \A n \in 1 .. m - 1 + 1 : SubSeq(s, 1, m)[n] = s[1 + n - 1]
  <2>1. 1 \in Int /\ m \in Int BY <1>1
  <2> QED BY <2>1, <1>2, SubSeqProperties
<1>4. m - 1 + 1 = m /\ \A n \in 1 .. m : 1 + n - 1 = n BY <1>1
<1>5. (IF 1 <= m THEN m - 1 + 1 ELSE 0) = m BY <1>1
<1>6. /\ SubSeq(s, 1, m) \in Seq(S) /\ Len(SubSeq(s, 1, m)) = m
      /\ \A n \in 1 .. m : SubSeq(s, 1, m)[n] = s[n]
  BY <1>3, <1>4, <1>5
<1> QED BY <1>6 DEF m

LEMMA Entering ==
  ASSUME IInv, NEW l \in Load, EnterLoad(l)
  PROVE  IInv'
<1> USE DEF IInv
<1>active. /\ active' \in Seq(Load) /\ Len(active') = Len(active) + 1
           /\ active'[Len(active) + 1] = l
           /\ \A n \in 1 .. Len(active) : active'[n] = active[n]
  BY DEF EnterLoad, PatchTypes
<1>saved. /\ saved' \in [Load -> Function \cup {NotImported}]
          /\ \A k \in Load : saved'[k] = IF k = l THEN safeOpen ELSE saved[k]
  BY DEF EnterLoad, PatchTypes
<1>new. \A n \in 1 .. Len(active) : active[n] # l /\ active[n] \in Load
  BY EnteredOnce DEF EnterLoad, PatchTypes
<1>patched. /\ patched' \in [Load -> SUBSET Importer]
            /\ \A k \in Load : patched'[k] = IF k = l THEN ImportersToPatch ELSE patched[k]
  BY DEF EnterLoad, PatchTypes, ImportersToPatch
<1>captured. /\ captured' \in [Importer -> Function \cup {NotImported}]
             /\ \A i \in ImportersToPatch : captured'[i] = l
  BY DEF EnterLoad, PatchTypes, ImportersToPatch, Function
<1>early. EarlyImports \subseteq ImportersToPatch
  BY PatchAssumption DEF EarlyFollow, ImportersToPatch
<1>safe. safeOpen' = l BY DEF EnterLoad
<1>1. PatchTypes' BY <1>active, <1>saved, <1>patched, <1>captured, <1>safe DEF PatchTypes, Function
<1>2. Chained'
  <2>1. \A n \in 1 .. Len(active') : saved'[active'[n]] = Below(active', n)
    <3> SUFFICES ASSUME NEW n \in 1 .. Len(active') PROVE saved'[active'[n]] = Below(active', n)
      OBVIOUS
    <3>0. Len(active) \in Nat BY DEF PatchTypes
    <3>1. CASE n = Len(active) + 1
      BY <3>0, <3>1, <1>active, <1>saved DEF Chained, Below
    <3>2. CASE n \in 1 .. Len(active)
      <4>1. saved'[active'[n]] = saved[active[n]] BY <3>2, <1>active, <1>saved, <1>new
      <4>2. Below(active', n) = Below(active, n) BY <3>0, <3>2, <1>active DEF Below
      <4> QED BY <3>2, <4>1, <4>2 DEF Chained
    <3> QED BY <3>0, <3>1, <3>2, <1>active
  <2>2. \A m, n \in 1 .. Len(active') : active'[m] = active'[n] => m = n
    <3>0. Len(active) \in Nat BY DEF PatchTypes
    <3> QED BY <3>0, <1>active, <1>new DEF Chained
  <2>3. safeOpen' = Below(active', Len(active') + 1)
    <3>0. Len(active) \in Nat BY DEF PatchTypes
    <3> QED BY <3>0, <1>active, <1>safe DEF Below
  <2> QED BY <2>1, <2>2, <2>3 DEF Chained
<1>3. EarlyFollow'
  <2>1. \A i \in EarlyImports : captured'[i] = safeOpen' BY <1>captured, <1>early, <1>safe
  <2>2. \A n \in 1 .. Len(active') : EarlyImports \subseteq patched'[active'[n]]
    <3>0. Len(active) \in Nat BY DEF PatchTypes
    <3>1. EarlyImports \subseteq patched'[l] BY <1>patched, <1>early
    <3>2. \A n \in 1 .. Len(active) : EarlyImports \subseteq patched'[active[n]]
      BY <1>patched, <1>new DEF EarlyFollow
    <3> QED BY <3>0, <3>1, <3>2, <1>active
  <2> QED BY <2>1, <2>2 DEF EarlyFollow
<1> QED BY <1>1, <1>2, <1>3

LEMMA Exiting ==
  ASSUME IInv, NEW l \in Load, ExitLoad(l)
  PROVE  IInv'
<1> USE DEF IInv
<1>0. Len(active) \in Nat \ {0} /\ active[Len(active)] = l
  BY DEF ExitLoad, PatchTypes, Last
<1>active. /\ active' \in Seq(Load) /\ Len(active') = Len(active) - 1
           /\ \A n \in 1 .. Len(active') : active'[n] = active[n]
  <2>1. active \in Seq(Load) /\ active' = SubSeq(active, 1, Len(active) - 1) BY DEF ExitLoad, PatchTypes, Front
  <2> QED BY <1>0, <2>1, FrontOf
<1>same. UNCHANGED <<saved, patched>> BY DEF ExitLoad
<1>safe. safeOpen' = saved[l] /\ saved[l] = Below(active, Len(active))
  BY <1>0 DEF ExitLoad, Chained
<1>known. safeOpen' \in Function
  <2>1. CASE Len(active) = 1 BY <2>1, <1>safe DEF Below, Function
  <2>2. CASE Len(active) # 1
    <3>0. Len(active) - 1 \in 1 .. Len(active)
      <4>1. \A n \in Nat \ {0} : n # 1 => n - 1 \in 1 .. n OBVIOUS
      <4> QED BY <4>1, <2>2, <1>0
    <3>seq. active \in Seq(Load) BY DEF PatchTypes
    <3>all. \A n \in 1 .. Len(active) : active[n] \in Load BY <3>seq, ElementOfSeq
    <3>1. active[Len(active) - 1] \in Load BY <3>0, <3>all
    <3> QED BY <2>2, <3>1, <1>safe DEF Below, Function
  <2> QED BY <2>1, <2>2
<1>captured. /\ captured' \in [Importer -> Function \cup {NotImported}]
             /\ \A i \in patched[l] : captured'[i] = saved[l]
  BY DEF ExitLoad, PutBack, PatchTypes
<1>1. PatchTypes' BY <1>active, <1>same, <1>known, <1>captured DEF PatchTypes
<1>2. Chained'
  <2>1. \A n \in 1 .. Len(active') : Below(active', n) = Below(active, n)
    BY <1>0, <1>active DEF Below
  <2>2. \A n \in 1 .. Len(active') : saved'[active'[n]] = Below(active', n)
    BY <2>1, <1>0, <1>active, <1>same DEF Chained
  <2>3. \A m, n \in 1 .. Len(active') : active'[m] = active'[n] => m = n
    BY <1>0, <1>active DEF Chained
  <2>4. safeOpen' = Below(active', Len(active') + 1)
    BY <1>0, <1>active, <1>safe DEF Below
  <2> QED BY <2>2, <2>3, <2>4 DEF Chained
<1>3. EarlyFollow'
  <2>1. EarlyImports \subseteq patched[l] BY <1>0 DEF EarlyFollow
  <2>2. \A n \in 1 .. Len(active') : EarlyImports \subseteq patched'[active'[n]]
    BY <1>0, <1>active, <1>same DEF EarlyFollow
  <2> QED BY <2>1, <2>2, <1>captured, <1>safe DEF EarlyFollow
<1> QED BY <1>1, <1>2, <1>3

LEMMA Invariant == PatchSpec => []IInv
<1>1. PatchInit => IInv
  <2> SUFFICES ASSUME PatchInit PROVE IInv OBVIOUS
  <2>1. PatchTypes BY DEF PatchInit, PatchTypes, Function
  <2>2. Chained BY DEF PatchInit, Chained, Below
  <2>3. EarlyFollow BY PatchAssumption DEF PatchInit, EarlyFollow
  <2> QED BY <2>1, <2>2, <2>3 DEF IInv
<1>2. IInv /\ [PatchNext]_patchVars => IInv'
  <2> SUFFICES ASSUME IInv, [PatchNext]_patchVars PROVE IInv' OBVIOUS
  <2>1. ASSUME NEW l \in Load, EnterLoad(l) PROVE IInv' BY <2>1, Entering
  <2>2. ASSUME NEW l \in Load, ExitLoad(l) PROVE IInv' BY <2>2, Exiting
  <2>3. ASSUME UNCHANGED <<safeOpen, captured, saved, patched, active>> PROVE IInv'
    BY <2>3 DEF IInv, PatchTypes, Chained, EarlyFollow, Below
  <2>4. ASSUME NEW p \in Shard, ReadShard(p) PROVE IInv' BY <2>3, <2>4 DEF ReadShard
  <2>5. CASE UNCHANGED patchVars BY <2>3, <2>5 DEF patchVars
  <2> QED BY <2>1, <2>2, <2>4, <2>5 DEF PatchNext
<1> QED BY <1>1, <1>2, PTL DEF PatchSpec

(* After all loads, safetensors and every loader module that was imported  *)
(* before them have the function they had, whatever was imported meanwhile.*)
EarlyUndone == active = <<>> => safeOpen = Original /\ \A i \in EarlyImports : captured[i] = Original

(* This holds of every behaviour of nested loads.                          *)
THEOREM EarlyImportsRestored == PatchSpec => []EarlyUndone
<1>1. IInv => EarlyUndone
  BY DEF IInv, Chained, EarlyFollow, EarlyUndone, Below
<1> QED BY <1>1, Invariant, PTL

(* Where no loader module is imported late, everything is as it was.       *)
THEOREM PatchComesOff == Importer \subseteq EarlyImports => (PatchSpec => []PatchUndone)
<1> SUFFICES ASSUME Importer \subseteq EarlyImports PROVE PatchSpec => []PatchUndone OBVIOUS
<1>1. EarlyUndone => PatchUndone BY DEF EarlyUndone, PatchUndone
<1> QED BY <1>1, EarlyImportsRestored, PTL

(* Every load in progress is passed by a call of the present function.     *)
LEMMA AllArePassed ==
  ASSUME IInv
  PROVE  ToSet(active) \subseteq Through(safeOpen)
<1> USE DEF IInv
<1>1. Len(active) \in Nat /\ \A n \in 1 .. Len(active) : active[n] \in Load
  BY ElementOfSeq DEF PatchTypes
<1> SUFFICES ASSUME NEW n \in 1 .. Len(active), NEW S \in SUBSET Load, ClosedUnder(safeOpen, S)
             PROVE  active[n] \in S
  <2>1. \A l \in ToSet(active) : \E k \in 1 .. Len(active) : l = active[k]
    BY DEF ToSet, PatchTypes
  <2> QED BY <2>1, <1>1 DEF Through
<1> DEFINE missed == {k \in 1 .. Len(active) : active[k] \notin S}
           behind == {Len(active) - k : k \in missed}
<1> SUFFICES ASSUME missed # {} PROVE FALSE OBVIOUS
<1>2. PICK b \in behind : \A m \in behind : b <= m
  <2>1. behind \subseteq Nat /\ behind # {} BY <1>1
  <2> HIDE DEF behind
  <2> QED BY <2>1, LeastNumber
<1>3. PICK k \in missed : b = Len(active) - k OBVIOUS
<1>4. ASSUME k + 1 \in 1 .. Len(active) PROVE active[k + 1] \in S
  <2> SUFFICES ASSUME active[k + 1] \notin S PROVE FALSE OBVIOUS
  <2>1. k + 1 \in missed BY <1>4
  <2>2. Len(active) - (k + 1) \in behind BY <2>1
  <2>3. b <= Len(active) - (k + 1) BY <2>2, <1>2
  <2> QED BY <2>3, <1>1, <1>3
<1>5. CASE k = Len(active)
  <2>1. safeOpen = active[k] BY <1>1, <1>5 DEF Chained, Below
  <2> QED BY <2>1, <1>1, PatchAssumption DEF ClosedUnder
<1>6. CASE k # Len(active)
  <2>1. k + 1 \in 1 .. Len(active) BY <1>1, <1>6
  <2>2. saved[active[k + 1]] = active[k] BY <2>1, <1>1 DEF Chained, Below
  <2> QED BY <2>1, <2>2, <1>1, <1>4, PatchAssumption DEF ClosedUnder
<1> QED BY <1>5, <1>6

(* Whichever way a loader reaches safe_open, every load in progress notes  *)
(* the file, where no loader module is imported late.                      *)
THEOREM FilesAreReported == Importer \subseteq EarlyImports => (PatchSpec => []OpensReported)
<1> SUFFICES ASSUME Importer \subseteq EarlyImports PROVE PatchSpec => []OpensReported OBVIOUS
<1> DEFINE Noted == /\ OpensReported
                    /\ opened \in [Load -> SUBSET Shard] /\ readFor \in [Load -> SUBSET Shard]
<1>1. PatchInit => Noted BY DEF PatchInit, OpensReported
<1>2. IInv /\ Noted /\ [PatchNext]_patchVars => Noted'
  <2> SUFFICES ASSUME IInv, Noted, [PatchNext]_patchVars PROVE Noted' OBVIOUS
  <2>1. ASSUME NEW p \in Shard, ReadShard(p) PROVE Noted'
    <3>1. PICK f \in ({safeOpen} \cup {captured[i] : i \in Importer}) \ {NotImported} :
            opened' = [l \in Load |-> IF l \in Through(f) THEN opened[l] \cup {p} ELSE opened[l]]
      BY <2>1 DEF ReadShard
    <3>2. f = safeOpen BY DEF IInv, EarlyFollow
    <3>3. readFor' = [l \in Load |-> IF l \in ToSet(active) THEN readFor[l] \cup {p} ELSE readFor[l]]
      BY <2>1 DEF ReadShard
    <3>4. ToSet(active) \subseteq Through(f) BY <3>2, AllArePassed
    <3> QED BY <3>1, <3>3, <3>4 DEF OpensReported
  <2>2. CASE UNCHANGED <<opened, readFor>> BY <2>2 DEF OpensReported
  <2> QED BY <2>1, <2>2 DEF PatchNext, EnterLoad, ExitLoad, patchVars
<1>3. Noted => OpensReported OBVIOUS
<1> QED BY <1>1, <1>2, <1>3, Invariant, PTL DEF PatchSpec

------------------------------------------------------------------------------
(* Registered memory *)

(* The entries of the pages that are still to be given back: all of them,  *)
(* or those from the one that close has come to.                           *)
Left(i) == unpinning <= i

(* Each page has one owned entry at most; what is registered as ours has   *)
(* one that is left; and as long as no close raised, only that has.        *)
OnePerPage ==
  \A i, j \in DOMAIN registrations :
    /\ registrations[i].owned /\ registrations[j].owned
    /\ PageOf[registrations[i].weight] = PageOf[registrations[j].weight]
    => i = j

OursAreLeft ==
  \A p \in Page : pinned[p] = "ours" =>
    \E i \in DOMAIN registrations :
      Left(i) /\ registrations[i].owned /\ PageOf[registrations[i].weight] = p

LeftAreOurs ==
  hostRegistry # "half" =>
    \A i \in DOMAIN registrations :
      Left(i) /\ registrations[i].owned => pinned[PageOf[registrations[i].weight]] = "ours"

HostTypes ==
  /\ pinned \in [Page -> {"no", "ours", "theirs"}]
  /\ registrations \in Seq([weight : Weight, owned : BOOLEAN])
  /\ unpinning \in Nat

HostInv == HostTypes /\ OnePerPage /\ OursAreLeft /\ LeftAreOurs

LEMMA HostInvNext ==
  ASSUME HostInv, [HostNext]_hostVars
  PROVE  HostInv'
<1> USE DEF HostInv
<1>a. /\ pinned \in [Page -> {"no", "ours", "theirs"}] /\ Len(registrations) \in Nat
      /\ DOMAIN registrations = 1 .. Len(registrations)
      /\ registrations \in Seq([weight : Weight, owned : BOOLEAN]) /\ unpinning \in Nat
  BY DEF HostTypes
<1>b. \A i \in DOMAIN registrations :
        /\ registrations[i] \in [weight : Weight, owned : BOOLEAN]
        /\ PageOf[registrations[i].weight] \in Page
  <2>1. \A i \in DOMAIN registrations : registrations[i] \in [weight : Weight, owned : BOOLEAN]
    BY <1>a, ElementOfSeq
  <2> QED BY <2>1 DEF Page
<1>1. CASE UNCHANGED <<pinned, registrations, unpinning, hostRegistry>>
  BY <1>1 DEF HostTypes, OnePerPage, OursAreLeft, LeftAreOurs, Left
<1>2. ASSUME NEW w \in Weight, Register(w) PROVE HostInv'
  <2> DEFINE r == [weight |-> w, owned |-> Owns(w)]
  <2>1. r \in [weight : Weight, owned : BOOLEAN] /\ PageOf[w] \in Page BY DEF Owns, Page
  <2>2. /\ registrations' \in Seq([weight : Weight, owned : BOOLEAN])
        /\ DOMAIN registrations' = 1 .. Len(registrations) + 1
        /\ registrations'[Len(registrations) + 1] = r
        /\ \A i \in DOMAIN registrations : registrations'[i] = registrations[i]
    BY <1>2, <1>a, <2>1 DEF Register
  <2>3. r.weight = w /\ (r.owned <=> pinned[PageOf[w]] = "no") BY DEF Owns
  <2> HIDE DEF r
  <2>4. /\ unpinning = 0 /\ unpinning' = 0 /\ hostRegistry = "open" /\ hostRegistry' = "open"
        /\ pinned' = [pinned EXCEPT ![PageOf[w]] = IF @ = "no" THEN "ours" ELSE @]
    BY <1>2 DEF Register
  <2>5. \A i \in DOMAIN registrations : Left(i) BY <1>a, <2>4 DEF Left
  <2>6. \A i \in DOMAIN registrations' : Left(i)' BY <1>a, <2>2, <2>4 DEF Left
  <2>7. \A i \in DOMAIN registrations' : i \in DOMAIN registrations \/ i = Len(registrations) + 1
    BY <1>a, <2>2
  <2>8. Len(registrations) + 1 \in DOMAIN registrations' /\ DOMAIN registrations \subseteq DOMAIN registrations'
    BY <1>a, <2>2
  <2>9. HostTypes' BY <1>a, <2>1, <2>2, <2>4 DEF HostTypes
  <2>10. r.owned => \A i \in DOMAIN registrations :
                      registrations[i].owned => PageOf[registrations[i].weight] # PageOf[w]
    BY <2>3, <2>4, <2>5 DEF LeftAreOurs
  <2>11. OnePerPage' BY <2>2, <2>3, <2>7, <2>10 DEF OnePerPage
  <2>12. OursAreLeft' BY <1>a, <2>1, <2>2, <2>3, <2>4, <2>6, <2>8 DEF OursAreLeft
  <2>13. LeftAreOurs' BY <1>a, <1>b, <2>1, <2>2, <2>3, <2>4, <2>5, <2>7 DEF LeftAreOurs
  <2> QED BY <2>9, <2>11, <2>12, <2>13
<1>3. ASSUME NEW p \in Page, OtherPins(p) PROVE HostInv'
  <2>1. /\ pinned' \in [Page -> {"no", "ours", "theirs"}]
        /\ \A q \in Page : pinned'[q] = "ours" <=> pinned[q] = "ours"
        /\ UNCHANGED <<registrations, unpinning, hostRegistry>>
    BY <1>3, <1>a DEF OtherPins
  <2> QED BY <1>b, <2>1 DEF HostTypes, OnePerPage, OursAreLeft, LeftAreOurs, Left
<1>4. CASE CloseHost
  <2>1. unpinning = 0 /\ unpinning' = 1 /\ UNCHANGED <<pinned, registrations, hostRegistry>>
    BY <1>4 DEF CloseHost
  <2>2. \A i \in DOMAIN registrations : Left(i) /\ Left(i)' BY <1>a, <2>1 DEF Left
  <2> QED BY <2>1, <2>2 DEF HostTypes, OnePerPage, OursAreLeft, LeftAreOurs
<1>5. CASE UnpinNext
  <2>1. PICK r : r = registrations[unpinning] OBVIOUS
  <2>2. /\ unpinning \in DOMAIN registrations /\ unpinning' = unpinning + 1
        /\ pinned' = (IF r.owned THEN [pinned EXCEPT ![PageOf[r.weight]] = "no"] ELSE pinned)
        /\ UNCHANGED <<registrations, hostRegistry>>
    BY <1>5, <1>a, <2>1 DEF UnpinNext
  <2>3. \A i \in DOMAIN registrations : (Left(i)' <=> Left(i) /\ i # unpinning)
    BY <1>a, <2>2 DEF Left
  <2>4. PageOf[r.weight] \in Page /\ r \in [weight : Weight, owned : BOOLEAN] BY <1>b, <2>1, <2>2
  <2>5. HostTypes' BY <1>a, <2>2, <2>4 DEF HostTypes
  <2>6. OursAreLeft'
    <3> SUFFICES ASSUME NEW p \in Page, pinned'[p] = "ours"
                 PROVE  \E i \in DOMAIN registrations :
                          Left(i)' /\ registrations[i].owned /\ PageOf[registrations[i].weight] = p
      BY <2>2 DEF OursAreLeft
    <3>1. pinned[p] = "ours" /\ ~(r.owned /\ PageOf[r.weight] = p) BY <1>a, <2>2, <2>4
    <3> QED BY <2>1, <2>3, <3>1 DEF OursAreLeft
  <2>7. LeftAreOurs'
    <3> SUFFICES ASSUME hostRegistry # "half", NEW i \in DOMAIN registrations, Left(i)',
                        registrations[i].owned
                 PROVE  pinned'[PageOf[registrations[i].weight]] = "ours"
      BY <2>2 DEF LeftAreOurs
    <3>1. pinned[PageOf[registrations[i].weight]] = "ours" /\ i # unpinning
      BY <2>3 DEF LeftAreOurs
    <3>2. r.owned => PageOf[registrations[i].weight] # PageOf[r.weight]
      BY <2>1, <2>2, <3>1 DEF OnePerPage
    <3> QED BY <1>a, <1>b, <2>2, <2>4, <3>1, <3>2
  <2> QED BY <2>2, <2>5, <2>6, <2>7 DEF OnePerPage
<1>6. CASE UnpinRaises
  <2>1. unpinning' = 0 /\ hostRegistry' = "half" /\ UNCHANGED <<pinned, registrations>>
    BY <1>6 DEF UnpinRaises
  <2>2. \A i \in DOMAIN registrations : Left(i)' BY <1>a, <2>1 DEF Left
  <2> QED BY <2>1, <2>2 DEF HostTypes, OnePerPage, OursAreLeft, LeftAreOurs
<1>7. CASE CloseHostDone
  <2>1. /\ unpinning = Len(registrations) + 1 /\ registrations' = <<>> /\ unpinning' = 0
        /\ pinned' = pinned
    BY <1>7 DEF CloseHostDone
  <2>2. \A i \in DOMAIN registrations : ~Left(i) BY <1>a, <2>1 DEF Left
  <2>3. \A p \in Page : pinned[p] # "ours" BY <2>2 DEF OursAreLeft
  <2>4. DOMAIN registrations' = {} BY <2>1
  <2> QED BY <2>1, <2>3, <2>4 DEF HostTypes, OnePerPage, OursAreLeft, LeftAreOurs
<1> QED
  BY <1>1, <1>2, <1>3, <1>4, <1>5, <1>6, <1>7
  DEF HostNext, RegisterSkipped, RegisterRejected, hostVars

(* Page-locked memory is given back once and by whoever registered it,     *)
(* however registrations, refusals and closes that raise are mixed.        *)
THEOREM PinnedHasOneOwner == HostSpec => []PinnedIsOwned
<1>1. HostInit => HostInv
  <2> SUFFICES ASSUME HostInit PROVE HostInv OBVIOUS
  <2>1. DOMAIN registrations = {} /\ \A p \in Page : pinned[p] # "ours" BY DEF HostInit
  <2> QED BY <2>1 DEF HostInit, HostInv, HostTypes, OnePerPage, OursAreLeft, LeftAreOurs
<1>2. HostInv => PinnedIsOwned
  <2> SUFFICES ASSUME HostInv, hostRegistry # "half", unpinning = 0, NEW p \in Page
               PROVE  Cardinality({i \in DOMAIN registrations :
                         registrations[i].owned /\ PageOf[registrations[i].weight] = p})
                        = IF pinned[p] = "ours" THEN 1 ELSE 0
    BY DEF PinnedIsOwned
  <2> DEFINE own == {i \in DOMAIN registrations :
                       registrations[i].owned /\ PageOf[registrations[i].weight] = p}
  <2>1. \A i \in DOMAIN registrations : Left(i) BY DEF HostInv, HostTypes, Left
  <2>2. CASE pinned[p] = "ours"
    <3>1. PICK i \in own : TRUE BY <2>2 DEF HostInv, OursAreLeft
    <3>2. own = {i} BY <3>1 DEF HostInv, OnePerPage
    <3> HIDE DEF own
    <3>3. Cardinality(own) = 1 BY <3>2, FS_Singleton
    <3> QED BY <2>2, <3>3 DEF own
  <2>3. CASE pinned[p] # "ours"
    <3>1. own = {} BY <2>1, <2>3 DEF HostInv, LeftAreOurs
    <3> HIDE DEF own
    <3>2. Cardinality(own) = 0 BY <3>1, FS_EmptySet
    <3> QED BY <2>3, <3>2 DEF own
  <2> QED BY <2>2, <2>3
<1> QED BY <1>1, <1>2, HostInvNext, PTL DEF HostSpec

------------------------------------------------------------------------------
(* The layout of a slot *)

(* A batch of n slices.                                                    *)
Batch(e, n) ==
  /\ n \in Nat /\ DOMAIN e = 1 .. n
  /\ \A k \in 1 .. n : e[k].offset \in Nat /\ e[k].size \in Nat

(* The bytes of a batch are finitely many.                                 *)
LEMMA PackedFinitely ==
  ASSUME NEW e, NEW n, Batch(e, n), NEW K \in SUBSET (1 .. n)
  PROVE  IsFiniteSet(PackedBytes(e, K)) /\ SizeOf(e, K) \in Nat
<1> DEFINE T == {m \in 0 .. n : ~ IsFiniteSet(PackedBytes(e, 1 .. m))}
<1>1. n \in Nat /\ \A k \in 1 .. n : e[k].size \in Nat BY DEF Batch
<1>2. T = {}
  <2> SUFFICES ASSUME T # {} PROVE FALSE OBVIOUS
  <2>1. T \subseteq Nat BY <1>1
  <2>2. PICK m \in T : \A i \in T : m <= i
    <3> HIDE DEF T
    <3> QED BY <2>1, LeastNumber
  <2>3. m # 0
    <3>1. PackedBytes(e, 1 .. 0) = {} BY DEF PackedBytes
    <3> QED BY <3>1, FS_EmptySet
  <2>4. m - 1 \in 0 .. n /\ m - 1 \notin T /\ m \in 1 .. n BY <1>1, <2>2, <2>3
  <2>5. 1 .. m = (1 .. m - 1) \cup {m} /\ (1 .. m - 1) \cap {m} = {} BY <2>4
  <2>6. IsFiniteSet(PackedBytes(e, 1 .. m - 1)) BY <2>4
  <2>7. IsFiniteSet(PackedBytes(e, {m})) BY <1>1, <2>4, PackedAlone
  <2>8. IsFiniteSet(PackedBytes(e, (1 .. m - 1) \cup {m})) BY <2>5, <2>6, <2>7, PackedTogether
  <2> QED BY <2>2, <2>5, <2>8
<1>3. IsFiniteSet(PackedBytes(e, 1 .. n)) BY <1>1, <1>2
<1>4. PackedBytes(e, K) \in SUBSET PackedBytes(e, 1 .. n) BY DEF PackedBytes
<1> QED BY <1>3, <1>4, FS_Subset, FS_CardinalityType DEF SizeOf

LEMMA SizesAdd ==
  ASSUME NEW e, NEW n, Batch(e, n), NEW K \in SUBSET (1 .. n), NEW L \in SUBSET (1 .. n), K \cap L = {}
  PROVE  SizeOf(e, K \cup L) = SizeOf(e, K) + SizeOf(e, L)
BY PackedFinitely, PackedTogether

LEMMA SizesGrow ==
  ASSUME NEW e, NEW n, Batch(e, n), NEW L \in SUBSET (1 .. n), NEW K \in SUBSET L
  PROVE  SizeOf(e, K) <= SizeOf(e, L)
<1>1. PackedBytes(e, K) \in SUBSET PackedBytes(e, L) BY DEF PackedBytes
<1> QED BY <1>1, PackedFinitely, FS_Subset DEF SizeOf

(* A tensor ends where the next begins.                                    *)
LEMMA TensorsInLine ==
  ASSUME NEW e, NEW n, Batch(e, n), NEW k \in 1 .. n
  PROVE  /\ Start(e, k) \in Nat /\ Start(e, k) + e[k].size = SizeOf(e, 1 .. k)
         /\ k > 1 => Start(e, k) = Start(e, k - 1) + e[k - 1].size
<1>1. n \in Nat /\ k \in Int /\ \A j \in 1 .. n : e[j].size \in Nat BY DEF Batch
<1>2. \A j \in 1 .. n : SizeOf(e, 1 .. j) = SizeOf(e, 1 .. j - 1) + e[j].size
  <2> SUFFICES ASSUME NEW j \in 1 .. n PROVE SizeOf(e, 1 .. j) = SizeOf(e, 1 .. j - 1) + e[j].size
    OBVIOUS
  <2>1. 1 .. j = (1 .. j - 1) \cup {j} /\ (1 .. j - 1) \cap {j} = {} BY <1>1
  <2>2. (1 .. j - 1) \in SUBSET (1 .. n) /\ {j} \in SUBSET (1 .. n) BY <1>1
  <2>3. SizeOf(e, {j}) = e[j].size BY <1>1, PackedAlone
  <2>4. SizeOf(e, (1 .. j - 1) \cup {j}) = SizeOf(e, 1 .. j - 1) + SizeOf(e, {j})
    BY <2>1, <2>2, SizesAdd
  <2> QED BY <2>1, <2>3, <2>4
<1>3. (1 .. k - 1) \in SUBSET (1 .. n) BY <1>1
<1>4. SizeOf(e, 1 .. k - 1) \in Nat BY <1>3, PackedFinitely
<1>5. k > 1 => k - 1 \in 1 .. n /\ SizeOf(e, 1 .. k - 1) = SizeOf(e, 1 .. (k - 1) - 1) + e[k - 1].size
  BY <1>1, <1>2
<1> QED BY <1>2, <1>4, <1>5 DEF Start

(* Every tensor is in a run.                                               *)
LEMMA EveryTensorRead ==
  ASSUME NEW e, NEW n, Batch(e, n), NEW k \in 1 .. n
  PROVE  \E h \in Heads(e) : k \in JoinedTo(e, h)
<1> DEFINE T == {h \in 1 .. k : (h + 1 .. k) \cap Heads(e) = {}}
<1>1. n \in Nat /\ DOMAIN e = 1 .. n BY DEF Batch
<1>2. k \in T /\ T \subseteq Nat BY <1>1
<1>3. PICK h \in T : \A i \in T : h <= i
  <2> HIDE DEF T
  <2> QED BY <1>2, LeastNumber
<1>4. h \in Heads(e)
  <2> SUFFICES ASSUME h \notin Heads(e) PROVE FALSE OBVIOUS
  <2>1. h \in 1 .. n BY <1>1, <1>3
  <2>2. h # 1 BY <1>1, <2>1 DEF Heads
  <2>3. h - 1 \in 1 .. k /\ ((h - 1) + 1 .. k) = {h} \cup (h + 1 .. k) BY <1>1, <1>3, <2>2
  <2>4. h - 1 \in T BY <1>3, <2>3
  <2> QED BY <1>1, <1>3, <2>1, <2>4
<1>5. k \in JoinedTo(e, h) BY <1>1, <1>3 DEF JoinedTo
<1> QED BY <1>4, <1>5

(* A run has the bytes of its tensors in the order of the slot.            *)
LEMMA RunsAligned ==
  ASSUME NEW e, NEW n, Batch(e, n), NEW h \in Heads(e), NEW k \in JoinedTo(e, h)
  PROVE  e[k].path = e[h].path /\ e[k].offset - Start(e, k) = e[h].offset - Start(e, h)
<1> DEFINE Fit(j) == e[j].path = e[h].path /\ e[j].offset - Start(e, j) = e[h].offset - Start(e, h)
           T == {j \in JoinedTo(e, h) : ~ Fit(j)}
<1>1. /\ n \in Nat /\ DOMAIN e = 1 .. n /\ h \in 1 .. n
      /\ \A j \in 1 .. n : e[j].size \in Nat /\ e[j].offset \in Nat
  BY DEF Batch, Heads
<1>2. \A j \in JoinedTo(e, h) : j \in 1 .. n /\ j >= h /\ (h + 1 .. j) \cap Heads(e) = {}
  BY <1>1 DEF JoinedTo
<1>3. T = {}
  <2> SUFFICES ASSUME T # {} PROVE FALSE OBVIOUS
  <2>1. T \subseteq Nat BY <1>1, <1>2
  <2>2. PICK j \in T : \A i \in T : j <= i
    <3> HIDE DEF T
    <3> QED BY <2>1, LeastNumber
  <2>3. j \in 1 .. n /\ j >= h /\ (h + 1 .. j) \cap Heads(e) = {} /\ ~ Fit(j) BY <1>2, <2>2
  <2>4. j # h BY <2>3
  <2>5. j - 1 \in 1 .. n /\ j - 1 >= h /\ (h + 1 .. j - 1) \subseteq (h + 1 .. j) /\ j \in h + 1 .. j
    BY <1>1, <2>3, <2>4
  <2>6. j - 1 \in JoinedTo(e, h) BY <1>1, <2>3, <2>5 DEF JoinedTo
  <2>7. Fit(j - 1)
    <3> HIDE DEF Fit
    <3>1. j - 1 \notin T BY <2>2, <2>3, <2>5
    <3> QED BY <2>6, <3>1
  <2>8. Joins(e[j - 1], e[j]) BY <1>1, <2>3, <2>5 DEF Heads
  <2>9. Start(e, j) = Start(e, j - 1) + e[j - 1].size /\ Start(e, j - 1) \in Nat /\ Start(e, h) \in Nat
    <3>1. j > 1 BY <1>1, <2>3, <2>5
    <3>2. \A i \in 1 .. n : Start(e, i) \in Nat BY TensorsInLine
    <3>3. Start(e, j) = Start(e, j - 1) + e[j - 1].size BY <2>3, <3>1, TensorsInLine
    <3> QED BY <1>1, <2>5, <3>2, <3>3
  <2>10. Fit(j)
    <3>1. e[j].path = e[h].path BY <2>7, <2>8 DEF Joins
    <3>2. e[j].offset = e[j - 1].offset + e[j - 1].size BY <2>8 DEF Joins
    <3>3. e[j - 1].offset - Start(e, j - 1) = e[h].offset - Start(e, h) BY <2>7
    <3>4. /\ e[j - 1].offset \in Nat /\ e[j - 1].size \in Nat /\ e[h].offset \in Nat /\ e[j].offset \in Nat
      BY <1>1, <2>3, <2>5
    <3>5. e[j].offset - Start(e, j) = e[h].offset - Start(e, h) BY <2>9, <3>2, <3>3, <3>4
    <3> QED BY <3>1, <3>5
  <2> QED BY <2>3, <2>10
<1> QED BY <1>3

(* A run holds its tensors, ends before the next begins, and in the slot.  *)
LEMMA RunsInLine ==
  ASSUME NEW e, NEW n, Batch(e, n), NEW h \in Heads(e)
  PROVE  /\ Start(e, h) \in Nat /\ SizeOf(e, JoinedTo(e, h)) \in Nat
         /\ \A k \in JoinedTo(e, h) :
              /\ Start(e, h) <= Start(e, k)
              /\ Start(e, k) + e[k].size <= Start(e, h) + SizeOf(e, JoinedTo(e, h))
         /\ \A g \in Heads(e) : g > h => Start(e, h) + SizeOf(e, JoinedTo(e, h)) <= Start(e, g)
         /\ Start(e, h) + SizeOf(e, JoinedTo(e, h)) <= SizeOf(e, DOMAIN e)
<1> DEFINE before == 1 .. h - 1
           mine   == JoinedTo(e, h)
<1>1. n \in Nat /\ DOMAIN e = 1 .. n /\ h \in 1 .. n /\ Heads(e) \subseteq 1 .. n BY DEF Batch, Heads
<1>2. before \in SUBSET (1 .. n) /\ mine \in SUBSET (1 .. n) /\ before \cap mine = {}
  BY <1>1 DEF JoinedTo
<1>3. SizeOf(e, before \cup mine) = Start(e, h) + SizeOf(e, mine)
  <2>1. SizeOf(e, before \cup mine) = SizeOf(e, before) + SizeOf(e, mine)
    <3> HIDE DEF before, mine
    <3> QED BY <1>2, SizesAdd
  <2> QED BY <2>1 DEF Start
<1>4. Start(e, h) \in Nat /\ SizeOf(e, mine) \in Nat BY <1>1, <1>2, PackedFinitely, TensorsInLine
<1>5. ASSUME NEW k \in mine
      PROVE  Start(e, h) <= Start(e, k) /\ Start(e, k) + e[k].size <= Start(e, h) + SizeOf(e, mine)
  <2>1. k \in 1 .. n /\ k >= h /\ (h + 1 .. k) \cap Heads(e) = {} BY <1>1 DEF JoinedTo
  <2>2. before \subseteq 1 .. k - 1 /\ (1 .. k - 1) \in SUBSET (1 .. n) BY <1>1, <2>1
  <2>3. Start(e, h) <= Start(e, k) BY <2>2, SizesGrow DEF Start
  <2>4. 1 .. k \subseteq before \cup mine
    <3> SUFFICES ASSUME NEW j \in 1 .. k, j \notin before PROVE j \in mine OBVIOUS
    <3>1. j \in 1 .. n /\ j >= h /\ (h + 1 .. j) \subseteq (h + 1 .. k) BY <1>1, <2>1
    <3> QED BY <1>1, <2>1, <3>1 DEF JoinedTo
  <2>5. SizeOf(e, 1 .. k) <= SizeOf(e, before \cup mine)
    <3>1. before \cup mine \in SUBSET (1 .. n) BY <1>2
    <3> HIDE DEF before, mine
    <3> QED BY <2>4, <3>1, SizesGrow
  <2>6. Start(e, k) + e[k].size = SizeOf(e, 1 .. k) BY <2>1, TensorsInLine
  <2> QED BY <1>3, <2>3, <2>5, <2>6
<1>6. ASSUME NEW g \in Heads(e), g > h PROVE Start(e, h) + SizeOf(e, mine) <= Start(e, g)
  <2>1. g \in 1 .. n /\ (1 .. g - 1) \in SUBSET (1 .. n) BY <1>1
  <2>2. before \cup mine \subseteq 1 .. g - 1
    <3>1. before \subseteq 1 .. g - 1 BY <1>1, <1>6, <2>1
    <3>2. ASSUME NEW j \in mine PROVE j \in 1 .. g - 1
      <4>1. j \in 1 .. n /\ j >= h /\ (h + 1 .. j) \cap Heads(e) = {} BY <1>1 DEF JoinedTo
      <4>2. g \notin h + 1 .. j BY <4>1
      <4> QED BY <1>1, <1>6, <2>1, <4>1, <4>2
    <3> QED BY <3>1, <3>2
  <2>3. SizeOf(e, before \cup mine) <= SizeOf(e, 1 .. g - 1)
    <3> HIDE DEF before, mine
    <3> QED BY <2>1, <2>2, SizesGrow
  <2> QED BY <1>3, <2>3 DEF Start
<1>7. SizeOf(e, before \cup mine) <= SizeOf(e, DOMAIN e)
  <2>1. before \cup mine \in SUBSET (DOMAIN e) /\ DOMAIN e \in SUBSET (1 .. n) BY <1>1, <1>2
  <2> HIDE DEF before, mine
  <2> QED BY <2>1, SizesGrow
<1> QED BY <1>3, <1>4, <1>5, <1>6, <1>7

(* The same bytes of the same file at the same place.                      *)
Within(c, run) ==
  /\ c.path = run.path /\ c.at \in Nat /\ c.offset \in Nat /\ c.size \in Nat
  /\ c.offset - c.at = run.offset - run.at
  /\ run.at <= c.at /\ c.at + c.size <= run.at + run.size

(* The chunks of a run are within it, and leave nothing out.               *)
LEMMA ChunksFill ==
  ASSUME NEW run, run.at \in Nat, run.offset \in Nat, run.size \in Nat
  PROVE  /\ \A c \in Chunks(run) : Within(c, run)
         /\ \A x \in Int : Covers(run, x) => \E c \in Chunks(run) : Covers(c, x)
<1> DEFINE
  Dones   == {d \in {n * ChunkBytes : n \in 0 .. run.size} : d < run.size}
  left(d) == IF run.size - d < ChunkBytes THEN run.size - d ELSE ChunkBytes
  chunk(d) == [path |-> run.path, offset |-> run.offset + d, at |-> run.at + d, size |-> left(d)]
<1>1. Chunks(run) = {chunk(d) : d \in Dones} BY DEF Chunks
<1>2. ChunkBytes \in Nat /\ ChunkBytes > 0 BY ReadsAssumption
<1>3. \A n \in Nat : n * ChunkBytes \in Nat /\ n * ChunkBytes >= n
  <2> SUFFICES ASSUME NEW n \in Nat PROVE n * ChunkBytes \in Nat /\ n * ChunkBytes >= n OBVIOUS
  <2>1. PICK m \in Nat : ChunkBytes = m + 1
    <3>1. ChunkBytes - 1 \in Nat /\ ChunkBytes = (ChunkBytes - 1) + 1 BY <1>2
    <3> QED BY <3>1
  <2>2. n * (m + 1) = n * m + n /\ n * m \in Nat OBVIOUS
  <2> QED BY <2>1, <2>2
<1>4. \A d \in Dones : d \in Nat /\ d < run.size
  <2> SUFFICES ASSUME NEW n \in 0 .. run.size PROVE n * ChunkBytes \in Nat OBVIOUS
  <2> QED BY <1>3
<1>5. \A d \in Dones : left(d) \in Nat /\ d + left(d) <= run.size
  <2> HIDE DEF Dones
  <2> QED BY <1>2, <1>4
<1>6. ASSUME NEW c \in Chunks(run) PROVE Within(c, run)
  <2>1. PICK d \in Dones : c = chunk(d) BY <1>1
  <2> HIDE DEF Dones, left
  <2>2. /\ c.path = run.path /\ c.offset = run.offset + d /\ c.at = run.at + d /\ c.size = left(d)
    BY <2>1
  <2> QED BY <1>4, <1>5, <2>2 DEF Within
<1>7. ASSUME NEW x \in Int, Covers(run, x) PROVE \E c \in Chunks(run) : Covers(c, x)
  <2> DEFINE y == x - run.at
             T == {n \in Nat : y < (n + 1) * ChunkBytes}
  <2>1. y \in Nat /\ y < run.size BY <1>7 DEF Covers
  <2>2. y \in T
    <3>1. (y + 1) * ChunkBytes >= y + 1 /\ (y + 1) * ChunkBytes \in Nat BY <1>3, <2>1
    <3> QED BY <2>1, <3>1
  <2>3. PICK n \in T : \A m \in T : n <= m
    <3>1. T \subseteq Nat /\ T # {} BY <2>2
    <3> HIDE DEF T
    <3> QED BY <3>1, LeastNumber
  <2>4. n \in Nat /\ n <= y BY <2>2, <2>3
  <2>5. n * ChunkBytes \in Nat /\ (n + 1) * ChunkBytes = n * ChunkBytes + ChunkBytes BY <1>2, <1>3, <2>4
  <2>6. n * ChunkBytes <= y
    <3>1. CASE n = 0 BY <3>1, <2>1, <1>2
    <3>2. CASE n # 0
      <4>1. n - 1 \in Nat /\ n - 1 \notin T BY <2>3, <2>4, <3>2
      <4>2. ~ (y < ((n - 1) + 1) * ChunkBytes) BY <4>1
      <4>3. (n - 1) + 1 = n BY <2>4
      <4> QED BY <2>1, <2>5, <4>2, <4>3
    <3> QED BY <3>1, <3>2
  <2>7. n * ChunkBytes \in Dones
    <3>1. n \in 0 .. run.size BY <2>1, <2>4
    <3> QED BY <2>1, <2>5, <2>6, <3>1
  <2>8. y < n * ChunkBytes + ChunkBytes BY <2>3, <2>5
  <2> DEFINE d == n * ChunkBytes
  <2>9. d \in Dones /\ d \in Nat /\ d <= y /\ y < d + ChunkBytes BY <2>5, <2>6, <2>7, <2>8
  <2> HIDE DEF d, Dones
  <2>10. y < d + left(d) BY <1>2, <2>1, <2>9
  <2>11. chunk(d) \in Chunks(run) BY <1>1, <2>9
  <2>12. chunk(d).at = run.at + d /\ chunk(d).size = left(d) OBVIOUS
  <2>13. x \in (run.at + d) .. (run.at + d) + left(d) - 1
    <3>1. left(d) \in Nat BY <1>5, <2>9
    <3> HIDE DEF left, T
    <3> QED BY <2>1, <2>9, <2>10, <3>1
  <2>14. Covers(chunk(d), x)
    <3> HIDE DEF chunk
    <3> QED BY <2>12, <2>13 DEF Covers
  <2> QED BY <2>11, <2>14
<1> QED BY <1>6, <1>7

LEMMA BatchesAre ==
  ASSUME NEW e \in BoundedSeq(Slices, MaxEntries)
  PROVE  \E n \in Nat : Batch(e, n)
<1>1. PICK n \in 0 .. MaxEntries : e \in [1 .. n -> Slices] BY DEF BoundedSeq, SeqOf
<1>2. n \in Nat BY ReadsAssumption
<1> QED BY <1>1, <1>2, ReadsAssumption DEF Batch

(* Runs are in the slot, apart from one another.                           *)
LEMMA RunsPlaced ==
  ASSUME NEW e \in BoundedSeq(Slices, MaxEntries), FitsIn(e), NEW h \in Heads(e)
  PROVE  /\ RunsOf(e)[h].at \in Nat /\ RunsOf(e)[h].offset \in Nat /\ RunsOf(e)[h].size \in Nat
         /\ RunsOf(e)[h].at + RunsOf(e)[h].size <= SlotBytes
         /\ \A x \in Int : Covers(RunsOf(e)[h], x) => x \in Cell
         /\ \A g \in Heads(e) : \A x \in Int :
              Covers(RunsOf(e)[h], x) /\ Covers(RunsOf(e)[g], x) => g = h
<1>1. PICK n \in Nat : Batch(e, n) BY BatchesAre
<1>2. Heads(e) \subseteq 1 .. n /\ DOMAIN e = 1 .. n /\ \A g \in Heads(e) : e[g].offset \in Nat
  BY <1>1 DEF Heads, Batch
<1>3. \A g \in Heads(e) : /\ RunsOf(e)[g].at = Start(e, g) /\ RunsOf(e)[g].offset = e[g].offset
                          /\ RunsOf(e)[g].size = SizeOf(e, JoinedTo(e, g))
  BY DEF RunsOf
<1>4. \A g \in Heads(e) : Start(e, g) \in Nat /\ SizeOf(e, JoinedTo(e, g)) \in Nat BY <1>1, RunsInLine
<1>5. \A f, g \in Heads(e) : g > f => Start(e, f) + SizeOf(e, JoinedTo(e, f)) <= Start(e, g)
  BY <1>1, RunsInLine
<1>6. Start(e, h) + SizeOf(e, JoinedTo(e, h)) <= SlotBytes
  <2>1. Start(e, h) + SizeOf(e, JoinedTo(e, h)) <= SizeOf(e, DOMAIN e) BY <1>1, RunsInLine
  <2>2. SizeOf(e, DOMAIN e) <= SlotBytes BY DEF FitsIn
  <2>3. SizeOf(e, DOMAIN e) \in Nat /\ SlotBytes \in Nat BY <1>1, <1>2, PackedFinitely, ReadsAssumption
  <2> QED BY <1>4, <2>1, <2>2, <2>3
<1>7. ASSUME NEW x \in Int, Covers(RunsOf(e)[h], x) PROVE x \in Cell
  BY <1>3, <1>4, <1>6, <1>7, ReadsAssumption DEF Covers, Cell
<1>8. ASSUME NEW g \in Heads(e), NEW x \in Int, Covers(RunsOf(e)[h], x), Covers(RunsOf(e)[g], x)
      PROVE  g = h
  <2>1. /\ Start(e, h) <= x /\ x < Start(e, h) + SizeOf(e, JoinedTo(e, h))
        /\ Start(e, g) <= x /\ x < Start(e, g) + SizeOf(e, JoinedTo(e, g))
    BY <1>3, <1>4, <1>8 DEF Covers
  <2>2. ~ (g > h) /\ ~ (h > g) BY <1>4, <1>5, <2>1
  <2> QED BY <1>2, <2>2
<1> QED BY <1>2, <1>3, <1>4, <1>6, <1>7, <1>8

(* Every byte of a tensor is where a run puts it.                          *)
LEMMA TensorsRead ==
  ASSUME NEW e \in BoundedSeq(Slices, MaxEntries), NEW k \in DOMAIN e, NEW i \in 0 .. e[k].size - 1
  PROVE  \E h \in Heads(e) :
           /\ Start(e, k) + i \in Int /\ Covers(RunsOf(e)[h], Start(e, k) + i)
           /\ ByteOf(RunsOf(e)[h], Start(e, k) + i) = <<e[k].path, e[k].offset + i>>
<1>1. PICK n \in Nat : Batch(e, n) BY BatchesAre
<1>2. k \in 1 .. n /\ e[k].size \in Nat /\ e[k].offset \in Nat BY <1>1 DEF Batch
<1>3. PICK h \in Heads(e) : k \in JoinedTo(e, h) BY <1>1, <1>2, EveryTensorRead
<1>4. e[k].path = e[h].path /\ e[k].offset - Start(e, k) = e[h].offset - Start(e, h)
  BY <1>1, <1>3, RunsAligned
<1>5. /\ Start(e, h) \in Nat /\ SizeOf(e, JoinedTo(e, h)) \in Nat /\ Start(e, h) <= Start(e, k)
      /\ Start(e, k) + e[k].size <= Start(e, h) + SizeOf(e, JoinedTo(e, h))
  BY <1>1, <1>3, RunsInLine
<1>6. Start(e, k) \in Nat BY <1>1, <1>2, TensorsInLine
<1>7. /\ RunsOf(e)[h].at = Start(e, h) /\ RunsOf(e)[h].offset = e[h].offset
      /\ RunsOf(e)[h].size = SizeOf(e, JoinedTo(e, h)) /\ RunsOf(e)[h].path = e[h].path
  BY DEF RunsOf
<1>8. e[h].offset \in Nat BY <1>1, <1>3 DEF Batch, Heads
<1>9. i \in Nat /\ i < e[k].size BY <1>2
<1>10. Covers(RunsOf(e)[h], Start(e, k) + i) BY <1>2, <1>5, <1>6, <1>7, <1>9 DEF Covers
<1>11. e[h].offset + (Start(e, k) + i) - Start(e, h) = e[k].offset + i BY <1>2, <1>4, <1>5, <1>6, <1>8, <1>9
<1> QED BY <1>4, <1>6, <1>7, <1>9, <1>10, <1>11 DEF ByteOf

------------------------------------------------------------------------------
(* Requests *)

Request(run, state, left, failed) == [run |-> run, state |-> state, left |-> left, failed |-> failed]

Shaped ==
  \A i \in DOMAIN requests :
    requests[i] = Request(requests[i].run, requests[i].state, requests[i].left, requests[i].failed)

(* What a step makes of its request.                                       *)
Becomes(i, state, left, failed) ==
  requests' = [requests EXCEPT ![i] = Request(requests[i].run, state, left, failed)]

LEMMA RequestFields ==
  ASSUME NEW run, NEW state, NEW left, NEW failed, NEW r, r = Request(run, state, left, failed)
  PROVE  r.run = run /\ r.state = state /\ r.left = left /\ r.failed = failed
BY DEF Request

LEMMA RequestSteps ==
  ASSUME Shaped, NEW i \in DOMAIN requests
  PROVE  /\ ReadMapped(i) =>
              Becomes(i, IF Readable(requests[i].run) THEN "done" ELSE "failed", requests[i].left, requests[i].failed)
         /\ StartRead(i) => Becomes(i, "reading", Chunks(requests[i].run), requests[i].failed)
         /\ ReadChunk(i) =>
              \E c \in requests[i].left :
                /\ cells' = Filled(c)
                /\ Becomes(i, requests[i].state, requests[i].left \ {c}, requests[i].failed)
         /\ ChunkFails(i) =>
              \E c \in requests[i].left :
                Becomes(i, requests[i].state, requests[i].left \ {c}, requests[i].failed \cup {c})
         /\ EndRead(i) =>
              \/ /\ requests[i].left = {} /\ requests[i].failed = {}
                 /\ Becomes(i, "done", requests[i].left, requests[i].failed)
              \/ Becomes(i, "failed", requests[i].left, requests[i].failed)
<1>0. requests[i] = Request(requests[i].run, requests[i].state, requests[i].left, requests[i].failed)
  BY DEF Shaped
<1>a. ASSUME NEW s, NEW x, NEW y
      PROVE  /\ [requests[i] EXCEPT !.state = s] = Request(requests[i].run, s, requests[i].left, requests[i].failed)
             /\ [requests[i] EXCEPT !.left = x] = Request(requests[i].run, requests[i].state, x, requests[i].failed)
             /\ [requests[i] EXCEPT !.state = s, !.left = x] = Request(requests[i].run, s, x, requests[i].failed)
             /\ [requests[i] EXCEPT !.left = x, !.failed = y] = Request(requests[i].run, requests[i].state, x, y)
  <2>1. PICK r, run, state, left, failed :
          /\ r = requests[i] /\ r = Request(run, state, left, failed)
          /\ run = r.run /\ state = r.state /\ left = r.left /\ failed = r.failed
    BY <1>0
  <2>2. /\ [r EXCEPT !.state = s] = Request(run, s, left, failed)
        /\ [r EXCEPT !.left = x] = Request(run, state, x, failed)
    BY <2>1 DEF Request
(* Fields that are changed together may be changed one after the other.    *)
  <2>3. [r EXCEPT !.state = s, !.left = x] = Request(run, s, x, failed)
    <3>1. [r EXCEPT !.state = s, !.left = x] = [[r EXCEPT !.state = s] EXCEPT !.left = x] OBVIOUS
    <3>2. [Request(run, s, left, failed) EXCEPT !.left = x] = Request(run, s, x, failed) BY DEF Request
    <3> QED BY <2>2, <3>1, <3>2
  <2>4. [r EXCEPT !.left = x, !.failed = y] = Request(run, state, x, y)
    <3>1. [r EXCEPT !.left = x, !.failed = y] = [[r EXCEPT !.left = x] EXCEPT !.failed = y] OBVIOUS
    <3>2. [Request(run, state, x, failed) EXCEPT !.failed = y] = Request(run, state, x, y) BY DEF Request
    <3> QED BY <2>2, <3>1, <3>2
  <2> QED BY <2>1, <2>2, <2>3, <2>4
<1>1. ASSUME ReadMapped(i)
      PROVE  Becomes(i, IF Readable(requests[i].run) THEN "done" ELSE "failed", requests[i].left, requests[i].failed)
  <2> DEFINE s == IF Readable(requests[i].run) THEN "done" ELSE "failed"
  <2>1. requests' = [requests EXCEPT ![i] = [requests[i] EXCEPT !.state = s]] BY <1>1 DEF ReadMapped
  <2> HIDE DEF s
  <2>2. Becomes(i, s, requests[i].left, requests[i].failed) BY <1>a, <2>1 DEF Becomes
  <2> QED BY <2>2 DEF s
<1>2. ASSUME StartRead(i)
      PROVE  Becomes(i, "reading", Chunks(requests[i].run), requests[i].failed)
  <2>1. requests' = [requests EXCEPT ![i] =
                       [requests[i] EXCEPT !.state = "reading", !.left = Chunks(requests[i].run)]]
    BY <1>2 DEF StartRead
  <2>2. [requests[i] EXCEPT !.state = "reading", !.left = Chunks(requests[i].run)] =
          Request(requests[i].run, "reading", Chunks(requests[i].run), requests[i].failed)
    BY <1>a
  <2> QED BY <2>1, <2>2 DEF Becomes
<1>3. ASSUME ReadChunk(i)
      PROVE  \E c \in requests[i].left :
               /\ cells' = Filled(c)
               /\ Becomes(i, requests[i].state, requests[i].left \ {c}, requests[i].failed)
  <2>1. PICK c \in requests[i].left :
          /\ cells' = Filled(c)
          /\ requests' = [requests EXCEPT ![i] = [requests[i] EXCEPT !.left = @ \ {c}]]
    BY <1>3 DEF ReadChunk
  <2>2. [requests[i] EXCEPT !.left = @ \ {c}] = [requests[i] EXCEPT !.left = requests[i].left \ {c}]
    OBVIOUS
  <2>3. [requests[i] EXCEPT !.left = requests[i].left \ {c}] =
          Request(requests[i].run, requests[i].state, requests[i].left \ {c}, requests[i].failed)
    BY <1>a
  <2> QED BY <2>1, <2>2, <2>3 DEF Becomes
<1>4. ASSUME ChunkFails(i)
      PROVE  \E c \in requests[i].left :
               Becomes(i, requests[i].state, requests[i].left \ {c}, requests[i].failed \cup {c})
  <2>1. PICK c \in requests[i].left :
          requests' = [requests EXCEPT ![i] = [requests[i] EXCEPT !.left = @ \ {c}, !.failed = @ \cup {c}]]
    BY <1>4 DEF ChunkFails
  <2>2. [requests[i] EXCEPT !.left = @ \ {c}, !.failed = @ \cup {c}] =
          [requests[i] EXCEPT !.left = requests[i].left \ {c}, !.failed = requests[i].failed \cup {c}]
    OBVIOUS
  <2>3. [requests[i] EXCEPT !.left = requests[i].left \ {c}, !.failed = requests[i].failed \cup {c}] =
          Request(requests[i].run, requests[i].state, requests[i].left \ {c}, requests[i].failed \cup {c})
    BY <1>a, ZenonT(40)
  <2> QED BY <2>1, <2>2, <2>3 DEF Becomes
<1>5. ASSUME EndRead(i)
      PROVE  \/ /\ requests[i].left = {} /\ requests[i].failed = {}
                /\ Becomes(i, "done", requests[i].left, requests[i].failed)
             \/ Becomes(i, "failed", requests[i].left, requests[i].failed)
  <2>1. CASE /\ requests[i].left = {} /\ requests[i].failed = {}
             /\ requests' = [requests EXCEPT ![i] = [requests[i] EXCEPT !.state = "done"]]
    BY <1>a, <2>1 DEF Becomes
  <2>2. CASE requests' = [requests EXCEPT ![i] = [requests[i] EXCEPT !.state = "failed"]]
    BY <1>a, <2>2 DEF Becomes
  <2> QED BY <1>5, <2>1, <2>2 DEF EndRead
<1> QED BY <1>1, <1>2, <1>3, <1>4, <1>5

LEMMA OneRequest ==
  ASSUME Shaped, NEW i \in DOMAIN requests, NEW state, NEW left, NEW failed, Becomes(i, state, left, failed)
  PROVE  /\ Shaped' /\ DOMAIN requests' = DOMAIN requests
         /\ requests'[i].run = requests[i].run /\ requests'[i].state = state
         /\ requests'[i].left = left /\ requests'[i].failed = failed
         /\ \A j \in DOMAIN requests : j # i => requests'[j] = requests[j]
<1> DEFINE r == Request(requests[i].run, state, left, failed)
<1>1. /\ DOMAIN requests' = DOMAIN requests /\ requests'[i] = r
      /\ \A j \in DOMAIN requests : j # i => requests'[j] = requests[j]
  BY DEF Becomes
<1>2. r.run = requests[i].run /\ r.state = state /\ r.left = left /\ r.failed = failed BY DEF Request
<1>3. Shaped'
  <2> SUFFICES ASSUME NEW j \in DOMAIN requests
               PROVE  requests'[j] = Request(requests'[j].run, requests'[j].state,
                                             requests'[j].left, requests'[j].failed)
    BY <1>1 DEF Shaped
  <2>1. CASE j = i BY <2>1, <1>1, <1>2
  <2>2. CASE j # i
    <3>1. requests'[j] = requests[j] BY <1>1, <2>2
    <3> QED BY <3>1 DEF Shaped
  <2> QED BY <2>1, <2>2
<1> QED BY <1>1, <1>2, <1>3

------------------------------------------------------------------------------
(* Contents of the slot *)

Right(run, x) == cells[x] \in {ByteOf(run, x), Late}

(* A batch that is being read is read whole, and is staged when all is.    *)
Laid ==
  /\ staged \in BoundedSeq(Slices, MaxEntries) /\ FitsIn(staged) /\ DOMAIN cells = Cell
  /\ DOMAIN requests \subseteq Heads(staged)
  /\ staging \in {"reading", "waiting", "staged"} => DOMAIN requests = Heads(staged)
  /\ staging = "staged" => \A i \in DOMAIN requests : requests[i].state = "done"

(* What a request has not filled is in a chunk that is left or failed.     *)
Filling ==
  \A i \in DOMAIN requests :
    /\ requests[i].run = RunsOf(staged)[i]
    /\ \A c \in requests[i].left \cup requests[i].failed : Within(c, requests[i].run)
    /\ \A x \in Cell : Covers(requests[i].run, x) /\ requests[i].state \in {"reading", "done"} =>
         \/ Right(requests[i].run, x)
         \/ requests[i].state = "reading" /\ \E c \in requests[i].left \cup requests[i].failed : Covers(c, x)

ReadsInv == Shaped /\ Laid /\ Filling

(* A slot without tensors.                                                 *)
LEMMA NothingStaged ==
  <<>> \in BoundedSeq(Slices, MaxEntries) /\ FitsIn(<<>>) /\ Heads(<<>>) = {}
<1>1. <<>> \in BoundedSeq(Slices, MaxEntries)
  <2>1. <<>> \in [1 .. 0 -> Slices] /\ 0 \in 0 .. MaxEntries BY ReadsAssumption
  <2> QED BY <2>1 DEF BoundedSeq, SeqOf
<1>2. PackedBytes(<<>>, {}) = {} BY DEF PackedBytes
<1>3. DOMAIN <<>> = {} OBVIOUS
<1>4. SizeOf(<<>>, DOMAIN <<>>) = 0 BY <1>2, <1>3, FS_EmptySet DEF SizeOf
<1>5. SlotBytes \in Nat BY ReadsAssumption
<1> QED BY <1>1, <1>3, <1>4, <1>5 DEF FitsIn, Heads

(* What a step of a request has to show: it writes nothing, or the bytes   *)
(* of its run.                                                             *)
LEMMA RequestFills ==
  ASSUME ReadsInv, NEW i \in DOMAIN requests, NEW state, NEW left, NEW failed,
         Becomes(i, state, left, failed), UNCHANGED <<staged, staging>>,
         DOMAIN cells' = Cell,
         \A x \in Cell : \/ cells'[x] = cells[x]
                         \/ Covers(requests[i].run, x) /\ cells'[x] = ByteOf(requests[i].run, x),
         requests[i].state = "done" => state = "done",
         \A c \in left \cup failed : Within(c, requests[i].run),
         \A x \in Cell : Covers(requests[i].run, x) /\ state \in {"reading", "done"} =>
           \/ cells'[x] \in {ByteOf(requests[i].run, x), Late}
           \/ state = "reading" /\ \E c \in left \cup failed : Covers(c, x)
  PROVE  ReadsInv'
<1>1. /\ Shaped' /\ DOMAIN requests' = DOMAIN requests
      /\ requests'[i].run = requests[i].run /\ requests'[i].state = state
      /\ requests'[i].left = left /\ requests'[i].failed = failed
      /\ \A j \in DOMAIN requests : j # i => requests'[j] = requests[j]
  BY OneRequest DEF ReadsInv
<1>2. /\ staged \in BoundedSeq(Slices, MaxEntries) /\ FitsIn(staged) /\ DOMAIN requests \subseteq Heads(staged)
      /\ staging = "staged" => requests[i].state = "done"
  BY DEF ReadsInv, Laid
<1>3. Laid' BY <1>1, <1>2 DEF ReadsInv, Laid, FitsIn
<1>4. \A j \in DOMAIN requests : requests[j].run = RunsOf(staged)[j] BY DEF ReadsInv, Filling
<1>5. ASSUME NEW j \in DOMAIN requests, j # i, NEW x \in Cell, Covers(requests[j].run, x)
      PROVE  cells'[x] = cells[x]
  <2>1. x \in Int BY DEF Cell
  <2>2. ~ Covers(requests[i].run, x) BY <1>2, <1>4, <1>5, <2>1, RunsPlaced
  <2> QED BY <2>2
<1>6. Filling'
  <2> SUFFICES ASSUME NEW j \in DOMAIN requests
               PROVE  /\ requests'[j].run = RunsOf(staged)[j]
                      /\ \A c \in requests'[j].left \cup requests'[j].failed : Within(c, requests'[j].run)
                      /\ \A x \in Cell : Covers(requests'[j].run, x) /\ requests'[j].state \in {"reading", "done"} =>
                           \/ cells'[x] \in {ByteOf(requests'[j].run, x), Late}
                           \/ /\ requests'[j].state = "reading"
                              /\ \E c \in requests'[j].left \cup requests'[j].failed : Covers(c, x)
    BY <1>1 DEF Filling, Right
  <2>1. CASE j = i BY <2>1, <1>1, <1>4
  <2>2. CASE j # i
    <3>1. requests'[j] = requests[j] BY <1>1, <2>2
    <3>2. \A x \in Cell : Covers(requests[j].run, x) => cells'[x] = cells[x] BY <1>5, <2>2
    <3> QED BY <3>1, <3>2 DEF ReadsInv, Filling, Right
  <2> QED BY <2>1, <2>2
<1> QED BY <1>1, <1>3, <1>6 DEF ReadsInv

(* A chunk within a run has the run's bytes.                               *)
LEMMA ChunkBytesRight ==
  ASSUME NEW run, run.at \in Nat, run.offset \in Nat, run.size \in Nat, NEW c, Within(c, run),
         NEW x \in Cell, Covers(c, x)
  PROVE  Covers(run, x) /\ ByteOf(c, x) = ByteOf(run, x)
<1>1. x \in Int BY DEF Cell
<1>2. Covers(run, x) BY <1>1 DEF Covers, Within
<1>3. c.offset + x - c.at = run.offset + x - run.at BY <1>1 DEF Within
<1> QED BY <1>2, <1>3 DEF ByteOf, Within

LEMMA ReadsInvNext ==
  ASSUME ReadsInv, [ReadsNext]_readVars
  PROVE  ReadsInv'
<1>a. /\ staged \in BoundedSeq(Slices, MaxEntries) /\ FitsIn(staged) /\ DOMAIN cells = Cell
      /\ DOMAIN requests \subseteq Heads(staged)
      /\ staging = "staged" => \A i \in DOMAIN requests : requests[i].state = "done"
  BY DEF ReadsInv, Laid
<1>b. ASSUME NEW i \in DOMAIN requests
      PROVE  /\ requests[i].run.at \in Nat /\ requests[i].run.offset \in Nat /\ requests[i].run.size \in Nat
             /\ \A c \in requests[i].left \cup requests[i].failed : Within(c, requests[i].run)
             /\ \A x \in Cell : Covers(requests[i].run, x) /\ requests[i].state \in {"reading", "done"} =>
                  \/ Right(requests[i].run, x)
                  \/ /\ requests[i].state = "reading"
                     /\ \E c \in requests[i].left \cup requests[i].failed : Covers(c, x)
  <2>1. requests[i].run = RunsOf(staged)[i] BY DEF ReadsInv, Filling
  <2>2. i \in Heads(staged) BY <1>a
  <2> QED BY <1>a, <2>1, <2>2, RunsPlaced DEF ReadsInv, Filling
<1>1. CASE UNCHANGED readVars
  BY <1>1 DEF readVars, ReadsInv, Shaped, Laid, Filling, Right, FitsIn
<1>2. ASSUME NEW e \in BoundedSeq(Slices, MaxEntries), Stage(e) PROVE ReadsInv'
  <2>1. cells' = cells BY <1>2 DEF Stage
  <2>2. CASE /\ FitsIn(e) /\ staged' = e
             /\ requests' = [i \in DOMAIN RunsOf(e) |->
                  [run |-> RunsOf(e)[i], state |-> "queued", left |-> {}, failed |-> {}]]
             /\ staging' \in {"reading", "waiting"}
    <3>1. DOMAIN RunsOf(e) = Heads(e) BY DEF RunsOf
    <3>2. DOMAIN requests' = Heads(e) BY <2>2, <3>1
    <3>3. \A i \in Heads(e) : requests'[i] = Request(RunsOf(e)[i], "queued", {}, {})
      BY <2>2, <3>1 DEF Request
    <3>4. \A i \in Heads(e) : /\ requests'[i].run = RunsOf(e)[i] /\ requests'[i].state = "queued"
                              /\ requests'[i].left = {} /\ requests'[i].failed = {}
      BY <3>3, RequestFields
    <3>5. Shaped' BY <3>2, <3>3, <3>4 DEF Shaped
    <3>6. Laid' BY <1>a, <2>1, <2>2, <3>2 DEF Laid, FitsIn
    <3>7. Filling' BY <2>2, <3>2, <3>4 DEF Filling
    <3> QED BY <3>5, <3>6, <3>7 DEF ReadsInv
  <2>3. CASE staged' = <<>> /\ requests' = <<>> /\ staging' = "raised"
    <3>1. DOMAIN requests' = {} BY <2>3
    <3> QED BY <1>a, <2>1, <2>3, <3>1, NothingStaged DEF ReadsInv, Shaped, Laid, Filling, FitsIn
  <2>4. (IF overlapped THEN {"reading", "waiting"} ELSE {"reading"}) \subseteq {"reading", "waiting"} OBVIOUS
  <2> QED BY <1>2, <2>2, <2>3, <2>4 DEF Stage
<1>3. ASSUME NEW i \in DOMAIN requests, ReadMapped(i) PROVE ReadsInv'
  <2> DEFINE state == IF Readable(requests[i].run) THEN "done" ELSE "failed"
  <2>1. Becomes(i, state, requests[i].left, requests[i].failed) BY <1>3, RequestSteps DEF ReadsInv
  <2>2. /\ requests[i].state = "queued" /\ UNCHANGED <<staged, staging>>
        /\ cells' = IF Readable(requests[i].run) THEN Filled(requests[i].run) ELSE cells
    BY <1>3 DEF ReadMapped, InTurn
  <2>3. DOMAIN cells' = Cell BY <1>a, <2>2 DEF Filled
  <2>4. \A x \in Cell : \/ cells'[x] = cells[x]
                        \/ Covers(requests[i].run, x) /\ cells'[x] = ByteOf(requests[i].run, x)
    BY <2>2 DEF Filled
  <2>5. \A x \in Cell : Covers(requests[i].run, x) /\ state \in {"reading", "done"} =>
          cells'[x] = ByteOf(requests[i].run, x)
    BY <2>2 DEF Filled
  <2> HIDE DEF state
  <2> QED BY <1>b, <2>1, <2>2, <2>3, <2>4, <2>5, RequestFills
<1>4. ASSUME NEW i \in DOMAIN requests, StartRead(i) PROVE ReadsInv'
  <2>1. Becomes(i, "reading", Chunks(requests[i].run), requests[i].failed) BY <1>4, RequestSteps DEF ReadsInv
  <2>2. requests[i].state = "queued" /\ UNCHANGED <<staged, staging, cells>> BY <1>4 DEF StartRead, InTurn
  <2>3. \A c \in Chunks(requests[i].run) : Within(c, requests[i].run) BY <1>b, ChunksFill
  <2>4. \A x \in Cell : Covers(requests[i].run, x) => \E c \in Chunks(requests[i].run) : Covers(c, x)
    BY <1>b, ChunksFill DEF Cell
  <2> QED BY <1>a, <1>b, <2>1, <2>2, <2>3, <2>4, RequestFills
<1>5. ASSUME NEW i \in DOMAIN requests, ReadChunk(i) PROVE ReadsInv'
  <2>1. PICK c \in requests[i].left :
          /\ cells' = Filled(c)
          /\ Becomes(i, requests[i].state, requests[i].left \ {c}, requests[i].failed)
    BY <1>5, RequestSteps DEF ReadsInv
  <2>2. UNCHANGED <<staged, staging>> BY <1>5 DEF ReadChunk
  <2>3. \A x \in Cell : Covers(c, x) => Covers(requests[i].run, x) /\ ByteOf(c, x) = ByteOf(requests[i].run, x)
    BY <1>b, ChunkBytesRight
  <2>4. DOMAIN cells' = Cell /\ \A x \in Cell : cells'[x] = IF Covers(c, x) THEN ByteOf(c, x) ELSE cells[x]
    BY <2>1 DEF Filled
  <2>5. \A x \in Cell : Covers(requests[i].run, x) /\ requests[i].state \in {"reading", "done"} =>
          \/ cells'[x] \in {ByteOf(requests[i].run, x), Late}
          \/ /\ requests[i].state = "reading"
             /\ \E b \in (requests[i].left \ {c}) \cup requests[i].failed : Covers(b, x)
    <3> SUFFICES ASSUME NEW x \in Cell, Covers(requests[i].run, x), requests[i].state \in {"reading", "done"},
                        ~ Covers(c, x)
                 PROVE  \/ cells'[x] \in {ByteOf(requests[i].run, x), Late}
                        \/ /\ requests[i].state = "reading"
                           /\ \E b \in (requests[i].left \ {c}) \cup requests[i].failed : Covers(b, x)
      BY <2>3, <2>4
    <3> QED BY <1>b, <2>4 DEF Right
  <2> QED BY <1>b, <2>1, <2>2, <2>3, <2>4, <2>5, RequestFills
<1>6. ASSUME NEW i \in DOMAIN requests, ChunkFails(i) PROVE ReadsInv'
  <2>1. PICK c \in requests[i].left :
          Becomes(i, requests[i].state, requests[i].left \ {c}, requests[i].failed \cup {c})
    BY <1>6, RequestSteps DEF ReadsInv
  <2>2. UNCHANGED <<staged, staging, cells>> BY <1>6 DEF ChunkFails
  <2>3. (requests[i].left \ {c}) \cup (requests[i].failed \cup {c}) = requests[i].left \cup requests[i].failed
    OBVIOUS
  <2>4. \A x \in Cell : Covers(requests[i].run, x) /\ requests[i].state \in {"reading", "done"} =>
          \/ cells'[x] \in {ByteOf(requests[i].run, x), Late}
          \/ /\ requests[i].state = "reading"
             /\ \E b \in (requests[i].left \ {c}) \cup (requests[i].failed \cup {c}) : Covers(b, x)
    BY <1>b, <2>2, <2>3 DEF Right
  <2>5. \A b \in (requests[i].left \ {c}) \cup (requests[i].failed \cup {c}) : Within(b, requests[i].run)
    BY <1>b, <2>3
  <2> QED BY <1>a, <2>1, <2>2, <2>4, <2>5, RequestFills
<1>7. ASSUME NEW i \in DOMAIN requests, EndRead(i) PROVE ReadsInv'
  <2>1. requests[i].state = "reading" /\ UNCHANGED <<staged, staging, cells>> BY <1>7 DEF EndRead
  <2>2. CASE /\ requests[i].left = {} /\ requests[i].failed = {}
             /\ Becomes(i, "done", requests[i].left, requests[i].failed)
    <3>1. \A x \in Cell : Covers(requests[i].run, x) => cells'[x] \in {ByteOf(requests[i].run, x), Late}
      BY <1>b, <2>1, <2>2 DEF Right
    <3> QED BY <1>a, <1>b, <2>1, <2>2, <3>1, RequestFills
  <2>3. CASE Becomes(i, "failed", requests[i].left, requests[i].failed)
    BY <1>a, <1>b, <2>1, <2>3, RequestFills
  <2> QED BY <1>7, <2>2, <2>3, RequestSteps DEF ReadsInv
<1>8. CASE LateChunk
  <2>1. /\ UNCHANGED <<staged, staging, requests>> /\ DOMAIN cells' = Cell
        /\ \A x \in Cell : cells'[x] = cells[x] \/ cells'[x] = Late
    <3>1. PICK c \in late : cells' = IF Readable(c) THEN [x \in Cell |-> IF Covers(c, x) THEN Late ELSE cells[x]]
                                                    ELSE cells
      BY <1>8 DEF LateChunk
    <3> QED BY <1>8, <1>a, <3>1 DEF LateChunk
  <2>2. Shaped' /\ Laid' BY <1>a, <2>1 DEF ReadsInv, Shaped, Laid, FitsIn
  <2>3. Filling' BY <2>1 DEF ReadsInv, Filling, Right
  <2> QED BY <2>2, <2>3 DEF ReadsInv
<1>9. CASE StagingDone
  <2>1. staging \in {"reading", "waiting"} /\ UNCHANGED <<staged, cells>> BY <1>9 DEF StagingDone
  <2>2. DOMAIN requests = Heads(staged) BY <2>1 DEF ReadsInv, Laid
  <2>3. CASE /\ \A i \in DOMAIN requests : requests[i].state = "done"
             /\ staging' = "staged" /\ UNCHANGED requests
    BY <1>a, <2>1, <2>2, <2>3 DEF ReadsInv, Shaped, Laid, Filling, Right, FitsIn
  <2>4. CASE /\ staging' = "raised" /\ DOMAIN requests' \subseteq DOMAIN requests
             /\ \A j \in DOMAIN requests' : requests'[j] = requests[j]
    <3>1. Shaped' BY <2>4 DEF ReadsInv, Shaped
    <3>2. Laid' BY <1>a, <2>1, <2>4 DEF Laid, FitsIn
    <3>3. Filling' BY <2>1, <2>4 DEF ReadsInv, Filling, Right
    <3> QED BY <3>1, <3>2, <3>3 DEF ReadsInv
  <2>5. ASSUME NEW i \in DOMAIN requests, requests' = [j \in Before(i) \cup {i} |-> requests[j]]
        PROVE  DOMAIN requests' \subseteq DOMAIN requests /\ \A j \in DOMAIN requests' : requests'[j] = requests[j]
    BY <2>5 DEF Before
  <2> QED BY <1>9, <2>3, <2>4, <2>5 DEF StagingDone
<1>10. CASE ClosePool
  BY <1>10, <1>a DEF ClosePool, ReadsInv, Shaped, Laid, Filling, Right, FitsIn
<1> QED BY <1>1, <1>2, <1>3, <1>4, <1>5, <1>6, <1>7, <1>8, <1>9, <1>10 DEF ReadsNext

LEMMA ReadsInvInit == ReadsInit => ReadsInv
<1> SUFFICES ASSUME ReadsInit PROVE ReadsInv OBVIOUS
<1>1. requests = <<>> /\ staged = <<>> /\ staging = "idle" /\ DOMAIN cells = Cell BY DEF ReadsInit
<1>2. DOMAIN requests = {} BY <1>1
<1> QED BY <1>1, <1>2, NothingStaged DEF ReadsInv, Shaped, Laid, Filling

LEMMA ReadsAlways == ReadsSpec => []ReadsInv
BY ReadsInvInit, ReadsInvNext, PTL DEF ReadsSpec

(* Whatever slices a batch has and in whichever order its chunks are read, *)
(* a staged tensor has its own bytes, or those of late chunks.             *)
THEOREM StagedBytesMatch == ReadsSpec => []StagedMatches
<1>1. ReadsInv => StagedMatches
  <2> SUFFICES ASSUME ReadsInv, staging = "staged", NEW k \in DOMAIN staged,
                      NEW i \in 0 .. staged[k].size - 1
               PROVE  cells[Start(staged, k) + i] \in {<<staged[k].path, staged[k].offset + i>>, Late}
    BY DEF StagedMatches
  <2>1. /\ staged \in BoundedSeq(Slices, MaxEntries) /\ FitsIn(staged)
        /\ DOMAIN requests = Heads(staged) /\ \A h \in DOMAIN requests : requests[h].state = "done"
    BY DEF ReadsInv, Laid
  <2>2. PICK h \in Heads(staged) :
          /\ Start(staged, k) + i \in Int /\ Covers(RunsOf(staged)[h], Start(staged, k) + i)
          /\ ByteOf(RunsOf(staged)[h], Start(staged, k) + i) = <<staged[k].path, staged[k].offset + i>>
    BY <2>1, TensorsRead
  <2>3. Start(staged, k) + i \in Cell BY <2>1, <2>2, RunsPlaced
  <2>4. requests[h].run = RunsOf(staged)[h] /\ requests[h].state = "done" BY <2>1 DEF ReadsInv, Filling
  <2>5. Right(RunsOf(staged)[h], Start(staged, k) + i) BY <2>1, <2>2, <2>3, <2>4 DEF ReadsInv, Filling
  <2> QED BY <2>2, <2>5 DEF Right
<1> QED BY <1>1, ReadsAlways, PTL

------------------------------------------------------------------------------
(* Handles *)

HandlesInv == Shaped /\ HandlesOutliveReads

LEMMA HandlesInvNext ==
  ASSUME HandlesInv, [ReadsNext]_readVars
  PROVE  HandlesInv'
<1>a. /\ \A c \in late : c.path \in handles
      /\ \A i \in DOMAIN requests : \A c \in requests[i].left : c.path \in handles
  BY DEF HandlesInv, HandlesOutliveReads
(* What a step of one request has to show.                                 *)
<1>b. ASSUME NEW i \in DOMAIN requests, NEW state, NEW left, NEW failed, Becomes(i, state, left, failed),
             \A c \in left : c.path \in handles', handles \subseteq handles', UNCHANGED late
      PROVE  HandlesInv'
  <2>1. /\ Shaped' /\ DOMAIN requests' = DOMAIN requests /\ requests'[i].left = left
        /\ \A j \in DOMAIN requests : j # i => requests'[j] = requests[j]
    BY <1>b, OneRequest DEF HandlesInv
  <2>2. \A j \in DOMAIN requests' : \A c \in requests'[j].left : c.path \in handles'
    BY <1>a, <1>b, <2>1
  <2>3. \A c \in late' : c.path \in handles' BY <1>a, <1>b
  <2> QED BY <2>1, <2>2, <2>3 DEF HandlesInv, HandlesOutliveReads
(* What a step that starts or stops no reads of a request has to show.     *)
<1>c. ASSUME \A j \in DOMAIN requests' : j \in DOMAIN requests /\ requests'[j] = requests[j],
             late' \subseteq late, handles' = handles
      PROVE  HandlesInv'
  <2>1. Shaped' BY <1>c DEF HandlesInv, Shaped
  <2>2. HandlesOutliveReads' BY <1>a, <1>c DEF HandlesOutliveReads
  <2> QED BY <2>1, <2>2 DEF HandlesInv
<1>1. CASE UNCHANGED readVars BY <1>1, <1>c DEF readVars
<1>2. ASSUME NEW entries, Stage(entries) PROVE HandlesInv'
  <2>1. \A c \in late' : c.path \in handles' BY <1>2 DEF Stage
  <2>2. CASE FitsIn(entries)
    <3>1. requests' = [i \in DOMAIN RunsOf(entries) |->
             [run |-> RunsOf(entries)[i], state |-> "queued", left |-> {}, failed |-> {}]]
      BY <1>2, <2>2 DEF Stage
    <3> QED BY <2>1, <3>1 DEF HandlesInv, Shaped, Request, HandlesOutliveReads
  <2>3. CASE ~FitsIn(entries)
    <3>1. DOMAIN requests' = {} BY <1>2, <2>3 DEF Stage
    <3> QED BY <2>1, <3>1 DEF HandlesInv, Shaped, HandlesOutliveReads
  <2> QED BY <2>2, <2>3
<1>3. ASSUME NEW i \in DOMAIN requests, ReadMapped(i) PROVE HandlesInv'
  <2> DEFINE state == IF Readable(requests[i].run) THEN "done" ELSE "failed"
  <2>1. Becomes(i, state, requests[i].left, requests[i].failed) BY <1>3, RequestSteps DEF HandlesInv
  <2>2. handles \subseteq handles' /\ UNCHANGED late BY <1>3 DEF ReadMapped
  <2> HIDE DEF state
  <2> QED BY <1>a, <1>b, <2>1, <2>2
<1>4. ASSUME NEW i \in DOMAIN requests, StartRead(i) PROVE HandlesInv'
  <2>1. Becomes(i, "reading", Chunks(requests[i].run), requests[i].failed)
    BY <1>4, RequestSteps DEF HandlesInv
  <2>2. handles' = handles \cup {requests[i].run.path} /\ UNCHANGED late BY <1>4 DEF StartRead
  <2>3. \A c \in Chunks(requests[i].run) : c.path = requests[i].run.path BY DEF Chunks
  <2> QED BY <1>b, <2>1, <2>2, <2>3
<1>5. ASSUME NEW i \in DOMAIN requests, ReadChunk(i) PROVE HandlesInv'
  <2>1. PICK c \in requests[i].left :
          Becomes(i, requests[i].state, requests[i].left \ {c}, requests[i].failed)
    BY <1>5, RequestSteps DEF HandlesInv
  <2>2. UNCHANGED <<late, handles>> BY <1>5 DEF ReadChunk
  <2> QED BY <1>a, <1>b, <2>1, <2>2
<1>6. ASSUME NEW i \in DOMAIN requests, ChunkFails(i) PROVE HandlesInv'
  <2>1. PICK c \in requests[i].left :
          Becomes(i, requests[i].state, requests[i].left \ {c}, requests[i].failed \cup {c})
    BY <1>6, RequestSteps DEF HandlesInv
  <2>2. UNCHANGED <<late, handles>> BY <1>6 DEF ChunkFails
  <2> QED BY <1>a, <1>b, <2>1, <2>2
<1>7. ASSUME NEW i \in DOMAIN requests, EndRead(i) PROVE HandlesInv'
  <2>1. PICK state : Becomes(i, state, requests[i].left, requests[i].failed)
    BY <1>7, RequestSteps DEF HandlesInv
  <2>2. UNCHANGED <<late, handles>> BY <1>7 DEF EndRead
  <2> QED BY <1>a, <1>b, <2>1, <2>2
<1>8. CASE LateChunk BY <1>8, <1>c DEF LateChunk
<1>9. CASE StagingDone
  <2>1. \A j \in DOMAIN requests' : j \in DOMAIN requests /\ requests'[j] = requests[j]
    <3>1. CASE UNCHANGED requests BY <3>1
    <3>2. ASSUME NEW i \in DOMAIN requests, requests' = [j \in Before(i) \cup {i} |-> requests[j]]
          PROVE  \A j \in DOMAIN requests' : j \in DOMAIN requests /\ requests'[j] = requests[j]
      BY <3>2 DEF Before
    <3> QED BY <1>9, <3>1, <3>2 DEF StagingDone
  <2> QED BY <1>9, <1>c, <2>1 DEF StagingDone
<1>10. CASE ClosePool
  <2>1. late' = {} /\ requests' = requests /\ \A i \in DOMAIN requests : requests[i].left = {}
    BY <1>10 DEF ClosePool, ReadsEnd, RequestsEnd, Outstanding
  <2> QED BY <2>1 DEF HandlesInv, Shaped, HandlesOutliveReads
<1> QED BY <1>1, <1>2, <1>3, <1>4, <1>5, <1>6, <1>7, <1>8, <1>9, <1>10 DEF ReadsNext

(* No chunk is read through a handle that was closed, however reads fail   *)
(* and batches follow one another.                                         *)
THEOREM HandlesStayOpen == ReadsSpec => []HandlesOutliveReads
<1>1. ReadsInit => HandlesInv BY DEF ReadsInit, HandlesInv, Shaped, HandlesOutliveReads
<1>2. HandlesInv => HandlesOutliveReads BY DEF HandlesInv
<1> QED BY <1>1, <1>2, HandlesInvNext, PTL DEF ReadsSpec

------------------------------------------------------------------------------
(* Sources of tensors *)

(* What the files have under the names of a storage.                       *)
NamedBy(a) == UNION {headers[t] : t \in Owners(a)}

SourceTypes ==
  /\ headers \in [Tensor -> SUBSET SourceRange]
  /\ holds \in [Address -> SourceRange \cup {Other, Free}] /\ at \in [Tensor -> Address]
  /\ slices \in [Address -> SourceRange \cup {Nothing}] /\ known \in [Tensor -> SourceRange \cup {Nothing}]
  /\ changed \in Seq([tensor : Tensor, from : Address])
  /\ sources \in {"loaded", "bound", "moving", "restoring", "moved", "started", "closed"}

(* A load has filled each storage with what the file has for its names.    *)
LoadedTrue ==
  sources = "loaded" =>
    \A a \in Held : holds[a] \in IF converted \/ NamedBy(a) = {} THEN {Other} ELSE NamedBy(a)

(* An address in the registry is allocated and holds what it says.         *)
RegistryTrue == \A a \in Address : slices[a] # Nothing => holds[a] = slices[a]

Alive == \A t \in Tensor : holds[at[t]] # Free

KnownAgrees ==
  sources \in {"bound", "moved", "started"} => \A t \in Tensor : slices[at[t]] = known[t]

(* While storages are moved, the copies are as the originals and new to    *)
(* the registry; a tensor is where it was, or noted with its old address.  *)
Moving ==
  /\ sources \notin {"moving", "restoring"} => changed = <<>>
  /\ sources \in {"moving", "restoring"} =>
     /\ \A b \in DOMAIN moves : /\ b \in Address /\ moves[b] \in Address
                                /\ slices[b] # Nothing /\ slices[moves[b]] = Nothing
                                /\ holds[moves[b]] = holds[b]
     /\ \A b, c \in DOMAIN moves : moves[b] = moves[c] => b = c
     /\ \A i \in DOMAIN changed : /\ changed[i].from \in DOMAIN moves
                                  /\ at[changed[i].tensor] = moves[changed[i].from]
                                  /\ slices[changed[i].from] = known[changed[i].tensor]
     /\ \A t \in Tensor : \/ slices[at[t]] = known[t] /\ \A b \in DOMAIN moves : moves[b] # at[t]
                          \/ \E i \in DOMAIN changed : changed[i].tensor = t

SourcesInv == SourceTypes /\ LoadedTrue /\ RegistryTrue /\ Alive /\ KnownAgrees /\ Moving

LEMMA SourcesInvInit == SourcesInit => SourcesInv
<1> SUFFICES ASSUME SourcesInit PROVE SourcesInv OBVIOUS
<1>1. headers \in [Tensor -> SUBSET SourceRange]
  <2>1. {{}} \cup {{d} : d \in SourceRange} \cup {SourceRange} \subseteq SUBSET SourceRange OBVIOUS
  <2>2. headers \in [Tensor -> {{}} \cup {{d} : d \in SourceRange} \cup {SourceRange}]
    BY DEF SourcesInit
  <2> QED BY <2>1, <2>2
<1>2. PICK content \in [Held -> SourceRange \cup {Other}] :
        /\ \A a \in Held : content[a] \in IF converted \/ NamedBy(a) = {} THEN {Other} ELSE NamedBy(a)
        /\ holds = [a \in Address |-> IF a \in Held THEN content[a] ELSE Free]
  BY DEF SourcesInit, NamedBy
<1>3. at \in [Tensor -> Address] /\ \A t \in Tensor : at[t] \in Held /\ at[t] \in Address
  BY DEF SourcesInit, Held
<1>4. holds \in [Address -> SourceRange \cup {Other, Free}] BY <1>2
<1>5. SourceTypes
  BY <1>1, <1>3, <1>4 DEF SourcesInit, SourceTypes
<1>6. Held \subseteq Address BY <1>3 DEF Held
<1>7. LoadedTrue BY <1>2, <1>6 DEF LoadedTrue
<1>8. Alive
  <2>1. \A a \in Held : holds[a] \in SourceRange \cup {Other} BY <1>2, <1>6
  <2> QED BY <2>1, <1>3, SourcesAssumption DEF Alive
<1> QED BY <1>5, <1>7, <1>8 DEF SourcesInit, SourcesInv, RegistryTrue, KnownAgrees, Moving

(* Where all names of a storage agree, it holds what they name.            *)
LEMMA AgreedHolds ==
  ASSUME SourceTypes, LoadedTrue, sources = "loaded", ~converted, NEW a \in Held,
         AgreedSource(a) # Nothing
  PROVE  AgreedSource(a) \in SourceRange /\ holds[a] = AgreedSource(a)
<1> DEFINE agreed == UNION {Available(t) : t \in Owners(a)}
<1>1. Cardinality(agreed) = 1 /\ AgreedSource(a) = CHOOSE d \in agreed : TRUE
  BY DEF AgreedSource
<1>2. \A t \in Tensor : Available(t) \subseteq headers[t] /\ headers[t] \subseteq SourceRange
  BY DEF SourceTypes, Available
<1>3. agreed \subseteq SourceRange /\ agreed \subseteq NamedBy(a)
  BY <1>2 DEF Owners, NamedBy
<1>4. IsFiniteSet(agreed) BY <1>3, SourcesAssumption, FS_Subset
<1>5. PICK d : agreed = {d}
  <2> HIDE DEF agreed
  <2>1. \E x : agreed = {x} BY <1>1, <1>4, FS_Singleton
  <2> QED BY <2>1
<1>6. \A t \in Tensor : Available(t) = headers[t]
  <2>1. \E t \in Tensor : Available(t) # {} BY <1>5 DEF Owners
  <2> QED BY <2>1 DEF Available
<1>7. NamedBy(a) = {d} BY <1>5, <1>6 DEF NamedBy, Owners
<1>8. holds[a] = d BY <1>7 DEF LoadedTrue
<1>9. AgreedSource(a) = d BY <1>1, <1>5
<1> QED BY <1>3, <1>5, <1>8, <1>9

LEMMA SourcesInvNext ==
  ASSUME SourcesInv, [SourcesNext]_sourceVars
  PROVE  SourcesInv'
<1> USE DEF SourcesInv
<1>a. /\ headers \in [Tensor -> SUBSET SourceRange]
      /\ holds \in [Address -> SourceRange \cup {Other, Free}] /\ at \in [Tensor -> Address]
      /\ slices \in [Address -> SourceRange \cup {Nothing}]
      /\ known \in [Tensor -> SourceRange \cup {Nothing}]
      /\ changed \in Seq([tensor : Tensor, from : Address])
  BY DEF SourceTypes
<1>b. \A a \in Address : slices[a] # Nothing => slices[a] \in SourceRange /\ holds[a] # Free
  BY <1>a, SourcesAssumption DEF RegistryTrue
<1>c. \A t \in Tensor : at[t] \in Held /\ at[t] \in Address BY <1>a DEF Held
<1>1. CASE UNCHANGED sourceVars
  <2>1. /\ headers' = headers /\ converted' = converted /\ holds' = holds /\ at' = at /\ slices' = slices
        /\ known' = known /\ moves' = moves /\ changed' = changed /\ sources' = sources
    BY <1>1 DEF sourceVars
  <2>2. SourceTypes' BY <2>1 DEF SourceTypes
  <2>3. LoadedTrue'
    <3>1. Held' = Held BY <2>1 DEF Held
    <3>2. \A a : NamedBy(a)' = NamedBy(a) BY <2>1 DEF NamedBy, Owners
    <3> QED BY <2>1, <3>1, <3>2 DEF LoadedTrue
  <2>4. RegistryTrue' BY <2>1 DEF RegistryTrue
  <2>5. Alive' BY <2>1 DEF Alive
  <2>6. KnownAgrees' BY <2>1 DEF KnownAgrees
  <2>7. Moving' BY <2>1 DEF Moving
  <2> QED BY <2>2, <2>3, <2>4, <2>5, <2>6, <2>7
<1>2. CASE Associate
  <2>1. /\ sources = "loaded" /\ sources' = "bound"
        /\ slices' = [a \in Address |-> IF converted \/ a \notin Held THEN Nothing ELSE AgreedSource(a)]
        /\ known' = [t \in Tensor |-> slices'[at[t]]]
        /\ UNCHANGED <<headers, holds, at, changed>>
    BY <1>2 DEF Associate
  <2>2. \A a \in Address : slices'[a] # Nothing => slices'[a] \in SourceRange /\ holds[a] = slices'[a]
    BY <2>1, AgreedHolds
  <2>3. slices' \in [Address -> SourceRange \cup {Nothing}] BY <2>1, <2>2
  <2>4. known' \in [Tensor -> SourceRange \cup {Nothing}] BY <2>1, <2>3, <1>a
  <2>5. SourceTypes' BY <2>1, <2>3, <2>4, <1>a DEF SourceTypes
  <2>6. RegistryTrue' BY <2>1, <2>2 DEF RegistryTrue
  <2>7. KnownAgrees' BY <2>1 DEF KnownAgrees
  <2> QED BY <2>1, <2>5, <2>6, <2>7 DEF LoadedTrue, Alive, Moving
<1>3. ASSUME NEW a \in Address, AllocateOther(a) PROVE SourcesInv'
  <2>1. /\ holds[a] = Free /\ sources # "loaded" /\ holds' = [holds EXCEPT ![a] = Other]
        /\ UNCHANGED <<headers, at, slices, known, moves, changed, sources>>
    BY <1>3 DEF AllocateOther
  <2>2. \A c \in Address : c # a => holds'[c] = holds[c] BY <2>1, <1>a
  <2>3. slices[a] = Nothing BY <2>1, <1>b
  <2>4. SourceTypes' BY <2>1, <1>a DEF SourceTypes
  <2>5. RegistryTrue' BY <2>1, <2>2, <2>3 DEF RegistryTrue
  <2>6. Alive' BY <2>1, <2>2, <1>c DEF Alive
  <2>7. Moving'
    <3>1. \A b \in DOMAIN moves : sources \in {"moving", "restoring"} => b # a /\ moves[b] # a
      BY <2>1, <2>3, <1>b DEF Moving
    <3> QED BY <2>1, <2>2, <3>1 DEF Moving
  <2> QED BY <2>1, <2>4, <2>5, <2>6, <2>7 DEF LoadedTrue, KnownAgrees
<1>4. CASE StartNative
  BY <1>4, <1>a DEF StartNative, SourceTypes, LoadedTrue, RegistryTrue, Alive, KnownAgrees, Moving
<1>5. CASE Clone
  <2>1. /\ sources = "bound" /\ sources' = "moving"
        /\ UNCHANGED <<headers, at, slices, known, changed>>
    BY <1>5 DEF Clone, Eligible
  <2>2. PICK to \in [Selected -> {a \in Address : holds[a] = Free}] :
          /\ \A a, b \in Selected : to[a] = to[b] => a = b
          /\ moves' = to
          /\ holds' = [a \in Address |-> IF \E b \in Selected : to[b] = a
                                        THEN holds[CHOOSE b \in Selected : to[b] = a] ELSE holds[a]]
    BY <1>5 DEF Clone
  <2>3. \A a \in Selected : a \in Held /\ a \in Address /\ slices[a] # Nothing /\ holds[a] # Free
    BY <1>a, <1>b DEF Selected, Held
  <2>4. \A a \in Address : holds[a] # Free => holds'[a] = holds[a] BY <2>2
  <2>5. \A b \in Selected : to[b] \in Address /\ holds[to[b]] = Free /\ holds'[to[b]] = holds[b]
    <3> SUFFICES ASSUME NEW b \in Selected
                 PROVE  to[b] \in Address /\ holds[to[b]] = Free /\ holds'[to[b]] = holds[b]
      OBVIOUS
    <3>1. to[b] \in Address /\ holds[to[b]] = Free BY <2>2
    <3>2. (CHOOSE c \in Selected : to[c] = to[b]) = b BY <2>2
    <3> QED BY <2>2, <3>1, <3>2
  <2>6. holds' \in [Address -> SourceRange \cup {Other, Free}]
    <3> SUFFICES ASSUME NEW a \in Address PROVE holds'[a] \in SourceRange \cup {Other, Free}
      BY <2>2
    <3>1. CASE \E b \in Selected : to[b] = a BY <3>1, <2>3, <2>5, <1>a
    <3>2. CASE ~ \E b \in Selected : to[b] = a BY <3>2, <2>2, <1>a
    <3> QED BY <3>1, <3>2
  <2>7. SourceTypes' BY <2>1, <2>6, <1>a DEF SourceTypes
  <2>8. RegistryTrue' BY <2>1, <2>4, <1>b DEF RegistryTrue
  <2>9. Alive' BY <2>1, <2>4, <1>c DEF Alive
  <2>10. \A b \in DOMAIN moves' : /\ b \in Address /\ moves'[b] \in Address
                                  /\ slices'[b] # Nothing /\ slices'[moves'[b]] = Nothing
                                  /\ holds'[moves'[b]] = holds'[b]
    BY <2>1, <2>2, <2>3, <2>4, <2>5, <1>b
  <2>11. \A t \in Tensor : slices'[at'[t]] = known'[t] /\ \A b \in DOMAIN moves' : moves'[b] # at'[t]
    BY <2>1, <2>2, <2>5, <1>c DEF KnownAgrees, Alive
  <2>12. DOMAIN changed' = {} BY <2>1 DEF Moving
  <2>13. \A b, c \in DOMAIN moves' : moves'[b] = moves'[c] => b = c BY <2>2
  <2>14. Moving' BY <2>1, <2>10, <2>11, <2>12, <2>13 DEF Moving
  <2> QED BY <2>1, <2>7, <2>8, <2>9, <2>14 DEF LoadedTrue, KnownAgrees
<1>6. ASSUME NEW t \in Tensor, Move(t) PROVE SourcesInv'
  <2> DEFINE e == [tensor |-> t, from |-> at[t]]
  <2>1. /\ sources = "moving" /\ at[t] \in DOMAIN moves /\ changed' = Append(changed, e)
        /\ at' = [at EXCEPT ![t] = moves[at[t]]]
        /\ UNCHANGED <<headers, holds, slices, known, moves, sources>>
    BY <1>6 DEF Move
  <2>2. e \in [tensor : Tensor, from : Address] /\ e.tensor = t /\ e.from = at[t] BY <1>c
  <2> HIDE DEF e
  <2>3. /\ changed' \in Seq([tensor : Tensor, from : Address])
        /\ Len(changed) \in Nat /\ DOMAIN changed = 1 .. Len(changed)
        /\ DOMAIN changed' = 1 .. Len(changed) + 1 /\ changed'[Len(changed) + 1] = e
        /\ \A i \in DOMAIN changed : changed'[i] = changed[i]
    BY <2>1, <2>2, <1>a
  <2>4. moves[at[t]] \in Address /\ slices[moves[at[t]]] = Nothing /\ slices[at[t]] # Nothing
        /\ holds[moves[at[t]]] = holds[at[t]]
    BY <2>1 DEF Moving
  <2>5. \A u \in Tensor : at'[u] = IF u = t THEN moves[at[t]] ELSE at[u] BY <2>1, <1>a
  <2>6. at' \in [Tensor -> Address] BY <2>1, <2>4, <1>a
  <2>7. SourceTypes' BY <2>1, <2>3, <2>6, <1>a DEF SourceTypes
  <2>8. Alive' BY <2>1, <2>4, <2>5 DEF Alive
  <2>9. \A i \in DOMAIN changed : changed[i].tensor # t
    <3> SUFFICES ASSUME NEW i \in DOMAIN changed, changed[i].tensor = t PROVE FALSE OBVIOUS
    <3>1. at[t] = moves[changed[i].from] /\ changed[i].from \in DOMAIN moves BY <2>1 DEF Moving
    <3>2. slices[at[t]] = Nothing BY <2>1, <3>1 DEF Moving
    <3> QED BY <3>2, <2>4
  <2>10. slices[at[t]] = known[t] BY <2>1, <2>9 DEF Moving
  <2>11. \A i \in DOMAIN changed' : /\ changed'[i].from \in DOMAIN moves
                                    /\ at'[changed'[i].tensor] = moves[changed'[i].from]
                                    /\ slices[changed'[i].from] = known[changed'[i].tensor]
    <3> SUFFICES ASSUME NEW i \in DOMAIN changed'
                 PROVE  /\ changed'[i].from \in DOMAIN moves
                        /\ at'[changed'[i].tensor] = moves[changed'[i].from]
                        /\ slices[changed'[i].from] = known[changed'[i].tensor]
      OBVIOUS
    <3>1. CASE i = Len(changed) + 1 BY <3>1, <2>1, <2>2, <2>3, <2>5, <2>10
    <3>2. CASE i \in DOMAIN changed
      <4>1. changed[i] \in [tensor : Tensor, from : Address] BY <3>2, <2>3, <1>a, ElementOfSeq
      <4>2. at'[changed[i].tensor] = at[changed[i].tensor] BY <4>1, <3>2, <2>5, <2>9
      <4> QED BY <3>2, <4>2, <2>1, <2>3 DEF Moving
    <3> QED BY <3>1, <3>2, <2>3
  <2>12. ASSUME NEW u \in Tensor
         PROVE  \/ slices[at'[u]] = known[u] /\ \A b \in DOMAIN moves : moves[b] # at'[u]
                \/ \E i \in DOMAIN changed' : changed'[i].tensor = u
    <3>1. CASE u = t
      <4>1. Len(changed) + 1 \in DOMAIN changed' BY <2>3
      <4> QED BY <3>1, <4>1, <2>2, <2>3
    <3>2. CASE u # t
      <4>1. DOMAIN changed \subseteq DOMAIN changed' BY <2>3
      <4> QED BY <3>2, <4>1, <2>1, <2>3, <2>5 DEF Moving
    <3> QED BY <3>1, <3>2
  <2>13. Moving' BY <2>1, <2>11, <2>12 DEF Moving
  <2> QED BY <2>1, <2>7, <2>8, <2>13 DEF LoadedTrue, RegistryTrue, KnownAgrees
<1>7. CASE RebindMany
  <2>1. /\ sources = "moving" /\ Held \cap DOMAIN moves = {} /\ slices' = Rebind
        /\ holds' = Freed(DOMAIN moves) /\ changed' = <<>> /\ sources' = "moved"
        /\ UNCHANGED <<headers, at, known>>
    BY <1>7 DEF RebindMany
  <2>2. \A b \in DOMAIN moves : /\ b \in Address /\ moves[b] \in Address
                                /\ slices[b] # Nothing /\ slices[moves[b]] = Nothing
                                /\ holds[moves[b]] = holds[b]
    BY <2>1 DEF Moving
  <2>3. \A b \in DOMAIN moves : BoundTo(moves[b]) = {b} BY <2>1 DEF Moving, BoundTo
  <2>4. \A b \in DOMAIN moves : slices'[moves[b]] = slices[b]
    <3> SUFFICES ASSUME NEW b \in DOMAIN moves PROVE slices'[moves[b]] = slices[b] OBVIOUS
    <3>1. (CHOOSE c \in BoundTo(moves[b]) : TRUE) = b /\ BoundTo(moves[b]) # {} BY <2>3
    <3> QED BY <2>1, <2>2, <3>1 DEF Rebind
  <2>5. \A a \in Address : (\A b \in DOMAIN moves : moves[b] # a) =>
                             slices'[a] = IF a \in DOMAIN moves THEN Nothing ELSE slices[a]
    BY <2>1 DEF Rebind, BoundTo
  <2>6. \A a \in Address : holds'[a] = IF a \in DOMAIN moves THEN Free ELSE holds[a]
    BY <2>1 DEF Freed
  <2>7. \A b \in DOMAIN moves : moves[b] \notin DOMAIN moves BY <2>2
  <2>8. \A a \in Address : slices'[a] # Nothing => slices'[a] \in SourceRange /\ holds'[a] = slices'[a]
    <3> SUFFICES ASSUME NEW a \in Address, slices'[a] # Nothing
                 PROVE  slices'[a] \in SourceRange /\ holds'[a] = slices'[a]
      OBVIOUS
    <3>1. CASE \E b \in DOMAIN moves : moves[b] = a
      <4>1. PICK b \in DOMAIN moves : moves[b] = a BY <3>1
      <4>2. slices'[a] = slices[b] /\ holds'[a] = holds[b] BY <4>1, <2>2, <2>4, <2>6, <2>7
      <4> QED BY <4>1, <4>2, <2>2, <1>b DEF RegistryTrue
    <3>2. CASE \A b \in DOMAIN moves : moves[b] # a
      BY <3>2, <2>5, <2>6, <1>b DEF RegistryTrue
    <3> QED BY <3>1, <3>2
  <2>9. slices' \in [Address -> SourceRange \cup {Nothing}]
    <3>1. slices' = [a \in Address |-> slices'[a]] BY <2>1 DEF Rebind
    <3> QED BY <2>8, <3>1
  <2>10. holds' \in [Address -> SourceRange \cup {Other, Free}]
    <3>1. holds' = [a \in Address |-> IF a \in DOMAIN moves THEN Free ELSE holds[a]]
      BY <2>1 DEF Freed
    <3> QED BY <3>1, <1>a
  <2>11. SourceTypes' BY <2>1, <2>9, <2>10, <1>a DEF SourceTypes
  <2>12. RegistryTrue' BY <2>8 DEF RegistryTrue
  <2>13. Alive' BY <2>1, <2>6, <1>c DEF Alive
  <2>14. ASSUME NEW t \in Tensor PROVE slices'[at[t]] = known[t]
    <3>1. at[t] \in Address /\ at[t] \notin DOMAIN moves BY <2>1, <1>c
    <3>2. CASE \E i \in DOMAIN changed : changed[i].tensor = t
      <4>1. PICK i \in DOMAIN changed : changed[i].tensor = t BY <3>2
      <4>2. /\ changed[i].from \in DOMAIN moves /\ at[t] = moves[changed[i].from]
            /\ slices[changed[i].from] = known[t]
        BY <2>1, <4>1 DEF Moving
      <4> QED BY <4>2, <2>4
    <3>3. CASE slices[at[t]] = known[t] /\ \A b \in DOMAIN moves : moves[b] # at[t]
      BY <3>1, <3>3, <2>5
    <3> QED BY <2>1, <3>2, <3>3 DEF Moving
  <2>15. KnownAgrees' BY <2>1, <2>14 DEF KnownAgrees
  <2> QED BY <2>1, <2>11, <2>12, <2>13, <2>15 DEF LoadedTrue, Moving
<1>8. CASE MoveRaises
  BY <1>8, <1>a DEF MoveRaises, SourceTypes, LoadedTrue, RegistryTrue, Alive, KnownAgrees, Moving
<1>9. CASE Restore
  <2>1. /\ sources = "restoring" /\ sources' = "bound" /\ changed' = <<>>
        /\ at' = (IF changed = <<>> THEN at ELSE Restored)
        /\ holds' = Freed({moves[a] : a \in DOMAIN moves} \ {at'[t] : t \in Tensor})
        /\ UNCHANGED <<headers, slices, known>>
    BY <1>9 DEF Restore
  <2>2. \A b \in DOMAIN moves : /\ b \in Address /\ moves[b] \in Address
                                /\ slices[b] # Nothing /\ slices[moves[b]] = Nothing
    BY <2>1 DEF Moving
  <2>3. \A t \in Tensor : at'[t] = IF \E i \in DOMAIN changed : changed[i].tensor = t
                                     THEN changed[CHOOSE i \in DOMAIN changed : changed[i].tensor = t].from
                                     ELSE at[t]
    <3>1. CASE changed = <<>>
      <4>1. DOMAIN changed = {} BY <3>1
      <4> QED BY <2>1, <3>1, <4>1
    <3>2. CASE changed # <<>> BY <2>1, <3>2 DEF Restored
    <3> QED BY <3>1, <3>2
  <2>4. ASSUME NEW t \in Tensor
        PROVE  /\ at'[t] \in Address /\ slices[at'[t]] = known[t] /\ holds[at'[t]] # Free
               /\ \A b \in DOMAIN moves : moves[b] # at'[t]
    <3>1. CASE \E i \in DOMAIN changed : changed[i].tensor = t
      <4>1. PICK i \in DOMAIN changed : /\ changed[i].tensor = t /\ at'[t] = changed[i].from
        BY <2>3, <3>1
      <4>2. at'[t] \in DOMAIN moves /\ slices[at'[t]] = known[t] BY <2>1, <4>1 DEF Moving
      <4> QED BY <4>2, <2>2, <1>b
    <3>2. CASE ~ \E i \in DOMAIN changed : changed[i].tensor = t
      <4>1. at'[t] = at[t] BY <2>3, <3>2
      <4> QED BY <3>2, <4>1, <2>1, <1>c DEF Moving, Alive
    <3> QED BY <3>1, <3>2
  <2>5. \A a \in Address : holds'[a] = IF \E b \in DOMAIN moves : moves[b] = a THEN Free ELSE holds[a]
    <3>1. \A a \in Address : a \in {moves[b] : b \in DOMAIN moves} \ {at'[t] : t \in Tensor}
                               <=> \E b \in DOMAIN moves : moves[b] = a
      BY <2>4
    <3> QED BY <2>1, <3>1 DEF Freed
  <2>6. holds' \in [Address -> SourceRange \cup {Other, Free}]
    <3>1. holds' = [a \in Address |-> holds'[a]] BY <2>1 DEF Freed
    <3> QED BY <2>5, <3>1, <1>a
  <2>7. at' \in [Tensor -> Address]
    <3>1. at' = [t \in Tensor |-> at'[t]] BY <2>1, <1>a DEF Restored
    <3> QED BY <2>4, <3>1
  <2>8. SourceTypes' BY <2>1, <2>6, <2>7, <1>a DEF SourceTypes
  <2>9. RegistryTrue' BY <2>1, <2>2, <2>5 DEF RegistryTrue
  <2>10. Alive' BY <2>4, <2>5 DEF Alive
  <2>11. KnownAgrees' BY <2>1, <2>4 DEF KnownAgrees
  <2> QED BY <2>1, <2>8, <2>9, <2>10, <2>11 DEF LoadedTrue, Moving
<1>10. CASE CloseSources
  <2>1. /\ sources \in {"bound", "moved", "started"} /\ sources' = "closed"
        /\ slices' = [a \in Address |-> Nothing]
        /\ UNCHANGED <<headers, holds, at, known, changed>>
    BY <1>10 DEF CloseSources
  <2> QED BY <2>1, <1>a DEF SourceTypes, LoadedTrue, RegistryTrue, Alive, KnownAgrees, Moving
<1> QED
  BY <1>1, <1>2, <1>3, <1>4, <1>5, <1>6, <1>7, <1>8, <1>9, <1>10 DEF SourcesNext

(* Whatever tensor is at an address, the registry names its bytes or none. *)
THEOREM ProvenanceIsTrue == SourcesSpec => []ProvenanceTrue
<1>1. SourcesInv => ProvenanceTrue BY DEF SourcesInv, RegistryTrue, ProvenanceTrue
<1> QED BY <1>1, SourcesInvInit, SourcesInvNext, PTL DEF SourcesSpec

(* A detachment, finished or given up, keeps contents and sources.         *)
THEOREM SourcesAreKept == SourcesSpec => []SourcesKept
<1>1. SourcesInv => SourcesKept
  BY DEF SourcesInv, SourceTypes, RegistryTrue, KnownAgrees, SourcesKept, Content
<1> QED BY <1>1, SourcesInvInit, SourcesInvNext, PTL DEF SourcesSpec

------------------------------------------------------------------------------
(* Types of all variables *)

(* A page-locked weight is recorded once, so that no close goes further    *)
(* than there are weights.                                                 *)
RecordedOnce ==
  \A i, j \in DOMAIN registrations : registrations[i].weight = registrations[j].weight => i = j

HostCounts ==
  /\ registeredBytes \in Nat /\ skipped \subseteq Weight
  /\ unpinning <= Len(registrations) + 1
  /\ hostRegistry \in {"open", "half", "closed"} /\ errorsLeft \in 0 .. MaxErrors

(* Every step of the registry keeps its counts, with driver calls that fail.*)
LEMMA HostCountsNext ==
  ASSUME HostTypes, HostCounts, RecordedOnce, [HostNext]_hostVars
  PROVE  HostCounts' /\ RecordedOnce'
<1> USE HostAssumption
<1>a. /\ Len(registrations) \in Nat /\ DOMAIN registrations = 1 .. Len(registrations)
      /\ registrations \in Seq([weight : Weight, owned : BOOLEAN]) /\ unpinning \in Nat
      /\ <<>> \in Seq([weight : Weight, owned : BOOLEAN]) /\ Len(<<>>) = 0 /\ DOMAIN <<>> = {}
  BY DEF HostTypes
<1>1. CASE UNCHANGED hostVars BY <1>1 DEF hostVars, HostCounts, RecordedOnce
<1>2. ASSUME NEW w \in Weight, Register(w) PROVE HostCounts' /\ RecordedOnce'
  <2> DEFINE r == [weight |-> w, owned |-> Owns(w)]
  <2>1. r \in [weight : Weight, owned : BOOLEAN] /\ r.weight = w BY DEF Owns
  <2> HIDE DEF r
  <2>2. /\ registrations' = Append(registrations, r) /\ unpinning = 0 /\ ~Registered(w)
        /\ registeredBytes' = registeredBytes + Bytes[w]
        /\ UNCHANGED <<skipped, unpinning, hostRegistry, errorsLeft>>
    BY <1>2 DEF Register, r
  <2>3. /\ Len(registrations') = Len(registrations) + 1 /\ DOMAIN registrations' = 1 .. Len(registrations) + 1
        /\ registrations'[Len(registrations) + 1] = r
        /\ \A i \in 1 .. Len(registrations) : registrations'[i] = registrations[i]
    BY <1>a, <2>1, <2>2, AppendProperties
  <2>4. \A i \in 1 .. Len(registrations) : registrations[i].weight # w
    BY <1>a, <2>2 DEF Registered, ToSet
  <2>5. RecordedOnce'
    <3> SUFFICES ASSUME NEW i \in 1 .. Len(registrations) + 1, NEW j \in 1 .. Len(registrations) + 1,
                        registrations'[i].weight = registrations'[j].weight
                 PROVE  i = j
      BY <2>3 DEF RecordedOnce
    <3> DEFINE n == Len(registrations) + 1
    <3>1. \A k \in 1 .. n : k = n \/ k \in 1 .. Len(registrations)
      <4>1. \A m \in Nat : \A k \in 1 .. m + 1 : k = m + 1 \/ k \in 1 .. m OBVIOUS
      <4> QED BY <1>a, <4>1
    <3> HIDE DEF n
    <3>2. \A k \in 1 .. Len(registrations) : registrations'[k].weight = registrations[k].weight /\ registrations[k].weight # w
      BY <2>3, <2>4
    <3>3. registrations'[n].weight = w BY <2>1, <2>3 DEF n
    <3>a. i \in 1 .. n /\ j \in 1 .. n BY DEF n
    <3>4. CASE i \in 1 .. Len(registrations) /\ j \in 1 .. Len(registrations)
      <4>1. registrations[i].weight = registrations[j].weight BY <3>2, <3>4
      <4> QED BY <1>a, <3>4, <4>1 DEF RecordedOnce
    <3>5. CASE i = n /\ j \in 1 .. Len(registrations) BY <3>2, <3>3, <3>5
    <3>6. CASE j = n /\ i \in 1 .. Len(registrations) BY <3>2, <3>3, <3>6
    <3>7. CASE i = n /\ j = n BY <3>7
    <3> QED BY <3>1, <3>a, <3>4, <3>5, <3>6, <3>7
  <2>6. HostCounts' BY <1>a, <2>2, <2>3 DEF HostCounts
  <2> QED BY <2>5, <2>6
<1>b. ASSUME UNCHANGED registrations PROVE RecordedOnce'
  BY <1>b DEF RecordedOnce
<1>3. ASSUME NEW w \in Weight, RegisterSkipped(w) \/ RegisterRejected(w) PROVE HostCounts' /\ RecordedOnce'
  <2>1. UNCHANGED <<registrations, registeredBytes, unpinning, hostRegistry>>
    BY <1>3 DEF RegisterSkipped, RegisterRejected
  <2>2. skipped' \subseteq Weight
    BY <1>3 DEF RegisterSkipped, RegisterRejected, HostCounts
  <2>3. errorsLeft' \in 0 .. MaxErrors
    BY <1>3 DEF RegisterSkipped, RegisterRejected, HostCounts
  <2> QED BY <1>b, <2>1, <2>2, <2>3 DEF HostCounts
<1>4. ASSUME NEW p \in Page, OtherPins(p) PROVE HostCounts' /\ RecordedOnce'
  BY <1>4 DEF OtherPins, HostCounts, RecordedOnce
<1>5. CASE CloseHost \/ UnpinNext \/ UnpinRaises
  <2>1. UNCHANGED <<registrations, registeredBytes, skipped>>
    BY <1>5 DEF CloseHost, UnpinNext, UnpinRaises
  <2>2. unpinning' <= Len(registrations) + 1
    <3>1. \/ unpinning' \in {0, 1}
          \/ unpinning \in 1 .. Len(registrations) /\ unpinning' = unpinning + 1
      <4>1. CASE CloseHost BY <4>1 DEF CloseHost
      <4>2. CASE UnpinNext BY <4>2 DEF UnpinNext
      <4>3. CASE UnpinRaises
        <5>1. unpinning' = 0 BY <4>3 DEF UnpinRaises
        <5> QED BY <5>1
      <4> QED BY <1>5, <4>1, <4>2, <4>3
    <3> QED BY <1>a, <3>1
  <2>3. errorsLeft' \in 0 .. MaxErrors /\ hostRegistry' \in {"open", "half", "closed"}
    <3>1. \/ UNCHANGED errorsLeft
          \/ errorsLeft > 0 /\ errorsLeft' = errorsLeft - 1
      BY <1>5 DEF CloseHost, UnpinNext, UnpinRaises
    <3>2. hostRegistry' \in {hostRegistry, "half"} BY <1>5 DEF CloseHost, UnpinNext, UnpinRaises
    <3> QED BY <3>1, <3>2 DEF HostCounts
  <2> QED BY <1>b, <2>1, <2>2, <2>3 DEF HostCounts
<1>6. CASE CloseHostDone BY <1>6, <1>a DEF CloseHostDone, HostCounts, RecordedOnce
<1> QED BY <1>1, <1>2, <1>3, <1>4, <1>5, <1>6 DEF HostNext

(* The registry keeps its types.                                           *)
LEMMA HostTyped == HostSpec => []HostTypeOK
<1>1. HostInit => HostInv
  <2> SUFFICES ASSUME HostInit PROVE HostInv OBVIOUS
  <2>1. DOMAIN registrations = {} /\ registrations = <<>> BY DEF HostInit
  <2> QED BY <2>1 DEF HostInit, HostInv, HostTypes, OnePerPage, OursAreLeft, LeftAreOurs
<1>2. HostInit => HostCounts /\ RecordedOnce
  <2> SUFFICES ASSUME HostInit PROVE HostCounts /\ RecordedOnce OBVIOUS
  <2>1. DOMAIN registrations = {} /\ Len(registrations) = 0 BY DEF HostInit
  <2> QED BY <2>1, HostAssumption DEF HostInit, HostCounts, RecordedOnce
<1>3. HostTypes /\ HostCounts /\ RecordedOnce => HostTypeOK
  <2> SUFFICES ASSUME HostTypes, HostCounts, RecordedOnce PROVE HostTypeOK OBVIOUS
  <2>0. registrations \in Seq([weight : Weight, owned : BOOLEAN]) BY DEF HostTypes
  <2>1. /\ Len(registrations) \in Nat /\ DOMAIN registrations = 1 .. Len(registrations)
        /\ \A i \in 1 .. Len(registrations) : registrations[i].weight \in Weight
    <3>1. \A i \in DOMAIN registrations : registrations[i] \in [weight : Weight, owned : BOOLEAN]
      BY <2>0, ElementOfSeq, LenProperties
    <3>2. \A i \in DOMAIN registrations : registrations[i].weight \in Weight BY <3>1
    <3> QED BY <2>0, <3>2
  <2> DEFINE name == [i \in 1 .. Len(registrations) |-> registrations[i].weight]
  <2>2. name \in Injection(1 .. Len(registrations), Weight)
    BY <2>1 DEF RecordedOnce, Injection, IsInjective
  <2>3. Cardinality(1 .. Len(registrations)) <= Cardinality(Weight) BY <2>2, HostAssumption, FS_Injection
  <2>4. Cardinality(1 .. Len(registrations)) = Len(registrations) BY <2>1, FS_Interval
  <2>5. Cardinality(Weight) \in Nat BY HostAssumption, FS_CardinalityType
  <2> QED BY <2>1, <2>3, <2>4, <2>5 DEF HostTypes, HostCounts, HostTypeOK
<1>4. HostInv => HostTypes BY DEF HostInv
<1>5. HostSpec => [](HostInv /\ HostCounts /\ RecordedOnce)
  <2>1. HostInv /\ HostCounts /\ RecordedOnce /\ [HostNext]_hostVars => (HostInv /\ HostCounts /\ RecordedOnce)'
    BY <1>4, HostInvNext, HostCountsNext
  <2> QED BY <1>1, <1>2, <2>1, PTL DEF HostSpec
<1> QED BY <1>3, <1>4, <1>5, PTL

(* What loads have noted.                                                  *)
LEMMA PatchTyped == PatchSpec => []PatchTypeOK
<1> DEFINE Noting == opened \in [Load -> SUBSET Shard] /\ readFor \in [Load -> SUBSET Shard]
<1>1. PatchInit => Noting BY DEF PatchInit
<1>2. Noting /\ [PatchNext]_patchVars => Noting'
  <2> SUFFICES ASSUME Noting, [PatchNext]_patchVars PROVE Noting' OBVIOUS
  <2>1. ASSUME NEW p \in Shard, ReadShard(p) PROVE Noting' BY <2>1 DEF ReadShard
  <2>2. CASE UNCHANGED <<opened, readFor>> BY <2>2
  <2> QED BY <2>1, <2>2 DEF PatchNext, EnterLoad, ExitLoad, patchVars
<1>3. IInv /\ Noting => PatchTypeOK BY DEF IInv, PatchTypes, PatchTypeOK
<1> QED BY <1>1, <1>2, <1>3, Invariant, PTL DEF PatchSpec

(* What is moved is of the component.                                      *)
LEMMA SourcesTyped == SourcesSpec => []SourcesTypeOK
<1> DEFINE MovesOwn == DOMAIN moves \subseteq Address
<1>1. SourcesInit => MovesOwn BY DEF SourcesInit
<1>2. SourcesInv /\ MovesOwn /\ [SourcesNext]_sourceVars => MovesOwn'
  <2> SUFFICES ASSUME SourcesInv, MovesOwn, [SourcesNext]_sourceVars PROVE MovesOwn' OBVIOUS
  <2>1. CASE Clone
    <3>1. Selected \subseteq Address BY DEF Selected, Held, SourcesInv, SourceTypes
    <3>2. DOMAIN moves' = Selected BY <2>1 DEF Clone
    <3> QED BY <3>1, <3>2
  <2>2. CASE UNCHANGED moves BY <2>2
  <2>3. CASE moves' = <<>> BY <2>3
  <2>4. UNCHANGED moves \/ moves' = <<>> \/ Clone
    BY DEF SourcesNext, Associate, StartNative, RebindMany, MoveRaises, Restore,
           CloseSources, AllocateOther, Move, sourceVars
  <2> QED BY <2>1, <2>2, <2>3, <2>4
<1>3. SourcesInv /\ MovesOwn => SourcesTypeOK
  <2> SUFFICES ASSUME SourceTypes, MovesOwn PROVE SourcesTypeOK BY DEF SourcesInv
  <2>1. changed \in Seq([tensor : Tensor, from : Address]) BY DEF SourceTypes
  <2>2. DOMAIN changed = 1 .. Len(changed) BY <2>1
  <2>3. \A i \in DOMAIN changed : changed[i] \in [tensor : Tensor, from : Address]
    BY <2>1, <2>2, ElementOfSeq
  <2>4. \A i \in DOMAIN changed : changed[i].tensor \in Tensor BY <2>3
  <2> QED BY <2>4 DEF SourceTypes, SourcesTypeOK
<1> QED BY <1>1, <1>2, <1>3, SourcesInvInit, SourcesInvNext, PTL DEF SourcesSpec

(* What is read is of the files that tensors are in.                       *)
Paths == {e.path : e \in Slices}

ReadsCounts ==
  /\ overlapped \in BOOLEAN
  /\ staging \in {"idle", "reading", "waiting", "staged", "raised", "closed"}
  /\ handles \subseteq Paths
  /\ \A i \in DOMAIN requests : requests[i].state \in {"queued", "reading", "done", "failed"}

(* A run is of a file, and ends within the slot.                           *)
LEMMA RunsOfSlices ==
  ASSUME ReadsInv, NEW i \in DOMAIN requests
  PROVE  requests[i].run.path \in Paths /\ requests[i].run.at + requests[i].run.size <= SlotBytes
<1>1. requests[i].run = RunsOf(staged)[i] /\ i \in Heads(staged) /\ FitsIn(staged)
      /\ staged \in BoundedSeq(Slices, MaxEntries)
  BY DEF ReadsInv, Laid, Filling
<1>2. RunsOf(staged)[i].path = staged[i].path BY <1>1 DEF RunsOf
<1>3. i \in DOMAIN staged BY <1>1 DEF Heads
<1>4. \A k \in DOMAIN staged : staged[k] \in Slices BY <1>1 DEF BoundedSeq, SeqOf
<1>5. RunsOf(staged)[i].at + RunsOf(staged)[i].size <= SlotBytes BY <1>1, RunsPlaced
<1> QED BY <1>1, <1>2, <1>3, <1>4, <1>5 DEF Paths

(* Every step of a batch keeps its counts.                                 *)
LEMMA ReadsCountsNext ==
  ASSUME ReadsInv, HandlesInv, ReadsCounts, [ReadsNext]_readVars
  PROVE  ReadsCounts'
<1>a. \A i \in DOMAIN requests : /\ requests[i].run.path \in Paths
                                 /\ requests[i].state \in {"queued", "reading", "done", "failed"}
  BY RunsOfSlices DEF ReadsCounts
<1>b. Shaped BY DEF ReadsInv
(* What a step of one request has to show.                                 *)
<1>c. ASSUME NEW i \in DOMAIN requests, NEW state \in {"queued", "reading", "done", "failed"}, NEW left, NEW failed,
             Becomes(i, state, left, failed), handles' \subseteq handles \cup {requests[i].run.path},
             UNCHANGED <<overlapped, staging>>
      PROVE  ReadsCounts'
  <2>1. /\ DOMAIN requests' = DOMAIN requests /\ requests'[i].state = state
        /\ \A j \in DOMAIN requests : j # i => requests'[j] = requests[j]
    BY <1>b, <1>c, OneRequest
  <2>2. \A j \in DOMAIN requests' : requests'[j].state \in {"queued", "reading", "done", "failed"}
    BY <1>a, <1>c, <2>1
  <2>3. handles' \subseteq Paths BY <1>a, <1>c DEF ReadsCounts
  <2> QED BY <1>c, <2>2, <2>3 DEF ReadsCounts
(* What a step that starts no reads has to show.                           *)
<1>d. ASSUME \A j \in DOMAIN requests' : j \in DOMAIN requests /\ requests'[j] = requests[j],
             handles' \subseteq handles, UNCHANGED overlapped,
             staging' \in {"idle", "reading", "waiting", "staged", "raised", "closed"}
      PROVE  ReadsCounts'
  BY <1>a, <1>d DEF ReadsCounts
<1>1. CASE UNCHANGED readVars BY <1>1, <1>d DEF readVars, ReadsCounts
<1>2. ASSUME NEW entries, Stage(entries) PROVE ReadsCounts'
  <2>1. \A c \in Outstanding : c.path \in Paths
    <3> SUFFICES ASSUME NEW i \in DOMAIN requests,
                        NEW c \in IF requests[i].state = "queued" THEN Chunks(requests[i].run) ELSE requests[i].left
                 PROVE  c.path \in Paths
      BY DEF Outstanding
    <3>1. CASE c \in Chunks(requests[i].run) BY <3>1, <1>a DEF Chunks
    <3>2. CASE c \in requests[i].left BY <3>2 DEF HandlesInv, HandlesOutliveReads, ReadsCounts
    <3> QED BY <3>1, <3>2
  <2>2. \A c \in late : c.path \in Paths BY DEF HandlesInv, HandlesOutliveReads, ReadsCounts
  <2>3. handles' \subseteq Paths /\ UNCHANGED overlapped BY <1>2, <2>1, <2>2 DEF Stage, ReadsCounts
  <2>4. CASE FitsIn(entries)
    <3>1. /\ requests' = [i \in DOMAIN RunsOf(entries) |->
               [run |-> RunsOf(entries)[i], state |-> "queued", left |-> {}, failed |-> {}]]
          /\ staging' \in {"reading", "waiting"}
      BY <1>2, <2>4 DEF Stage
    <3> QED BY <2>3, <3>1 DEF ReadsCounts
  <2>5. CASE ~FitsIn(entries)
    <3>1. DOMAIN requests' = {} /\ staging' = "raised" BY <1>2, <2>5 DEF Stage
    <3> QED BY <2>3, <3>1 DEF ReadsCounts
  <2> QED BY <2>4, <2>5
<1>3. ASSUME NEW i \in DOMAIN requests, ReadMapped(i) PROVE ReadsCounts'
  <2>1. Becomes(i, IF Readable(requests[i].run) THEN "done" ELSE "failed", requests[i].left, requests[i].failed)
    BY <1>3, <1>b, RequestSteps
  <2>2. handles' = handles \cup {requests[i].run.path} /\ UNCHANGED <<overlapped, staging>>
    BY <1>3 DEF ReadMapped
  <2>3. (IF Readable(requests[i].run) THEN "done" ELSE "failed") \in {"queued", "reading", "done", "failed"}
    OBVIOUS
  <2> QED BY <1>c, <2>1, <2>2, <2>3
<1>4. ASSUME NEW i \in DOMAIN requests, StartRead(i) PROVE ReadsCounts'
  <2>1. Becomes(i, "reading", Chunks(requests[i].run), requests[i].failed) BY <1>4, <1>b, RequestSteps
  <2>2. handles' = handles \cup {requests[i].run.path} /\ UNCHANGED <<overlapped, staging>>
    BY <1>4 DEF StartRead
  <2> QED BY <1>c, <2>1, <2>2
<1>5. ASSUME NEW i \in DOMAIN requests, ReadChunk(i) PROVE ReadsCounts'
  <2>1. PICK c : Becomes(i, requests[i].state, requests[i].left \ {c}, requests[i].failed)
    BY <1>5, <1>b, RequestSteps
  <2>2. UNCHANGED <<overlapped, staging, handles>> BY <1>5 DEF ReadChunk
  <2> QED BY <1>a, <1>c, <2>1, <2>2
<1>6. ASSUME NEW i \in DOMAIN requests, ChunkFails(i) PROVE ReadsCounts'
  <2>1. PICK c : Becomes(i, requests[i].state, requests[i].left \ {c}, requests[i].failed \cup {c})
    BY <1>6, <1>b, RequestSteps
  <2>2. UNCHANGED <<overlapped, staging, handles>> BY <1>6 DEF ChunkFails
  <2> QED BY <1>a, <1>c, <2>1, <2>2
<1>7. ASSUME NEW i \in DOMAIN requests, EndRead(i) PROVE ReadsCounts'
  <2>1. PICK state \in {"done", "failed"} : Becomes(i, state, requests[i].left, requests[i].failed)
    BY <1>7, <1>b, RequestSteps
  <2>2. UNCHANGED <<overlapped, staging, handles>> BY <1>7 DEF EndRead
  <2> QED BY <1>c, <2>1, <2>2
<1>8. CASE LateChunk BY <1>8, <1>d DEF LateChunk, ReadsCounts
<1>9. CASE StagingDone
  <2>1. \A j \in DOMAIN requests' : j \in DOMAIN requests /\ requests'[j] = requests[j]
    <3>1. CASE UNCHANGED requests BY <3>1
    <3>2. ASSUME NEW i \in DOMAIN requests, requests' = [j \in Before(i) \cup {i} |-> requests[j]]
          PROVE  \A j \in DOMAIN requests' : j \in DOMAIN requests /\ requests'[j] = requests[j]
      BY <3>2 DEF Before
    <3> QED BY <1>9, <3>1, <3>2 DEF StagingDone
  <2>2. staging' \in {"staged", "raised"} /\ UNCHANGED <<overlapped, handles>> BY <1>9 DEF StagingDone
  <2> QED BY <1>d, <2>1, <2>2
<1>10. CASE ClosePool
  <2>1. UNCHANGED <<overlapped, requests>> /\ handles' = {} /\ staging' = "closed" BY <1>10 DEF ClosePool
  <2> QED BY <1>d, <2>1
<1> QED BY <1>1, <1>2, <1>3, <1>4, <1>5, <1>6, <1>7, <1>8, <1>9, <1>10 DEF ReadsNext

(* The reader keeps its types.                                             *)
LEMMA ReadsTyped == ReadsSpec => []ReadsTypeOK
<1>1. ReadsInit => ReadsCounts /\ HandlesInv
  BY DEF ReadsInit, ReadsCounts, HandlesInv, Shaped, HandlesOutliveReads
<1>2. ReadsInv /\ HandlesInv /\ ReadsCounts /\ [ReadsNext]_readVars => ReadsCounts' /\ HandlesInv'
  BY ReadsCountsNext, HandlesInvNext
<1>3. ReadsInv /\ ReadsCounts => ReadsTypeOK
  BY RunsOfSlices DEF ReadsInv, Laid, ReadsCounts, ReadsTypeOK, Paths
<1> QED BY <1>1, <1>2, <1>3, ReadsAlways, PTL DEF ReadsSpec

(* Forwards are within one another only so far.                            *)
LEMMA LendTyped == LendSpec => []LendTypeOK
<1> DEFINE Bounded == convolving \subseteq Layer /\ attached \in BOOLEAN /\ Len(frames) <= MaxDepth
           Kept    == \A i \in 1 .. Len(frames) : frames[i].was \subseteq frames[i].kept
<1>1. LendInit => Bounded /\ Kept
  <2> SUFFICES ASSUME LendInit PROVE Bounded /\ Kept OBVIOUS
  <2>1. Len(frames) = 0 BY DEF LendInit
  <2> QED BY <2>1, LendAssumption DEF LendInit
<1>2. LendInv /\ Bounded /\ Kept /\ [LendingNext]_lendVars => Bounded' /\ Kept'
  <2> SUFFICES ASSUME LendInv, Bounded, Kept, [LendingNext]_lendVars PROVE Bounded' /\ Kept' OBVIOUS
  <2>a. frames \in Seq(FrameSet) /\ Len(frames) \in Nat /\ MaxDepth \in Nat
    BY LendAssumption DEF LendInv
  <2>b. ASSUME NEW l \in Layer, NEW todo, NEW kept, CanCall(l), frames' = Append(frames, Frame(l, todo, kept)),
               todo \in Seq(Parameter), kept \in SUBSET Parameter
        PROVE  Len(frames') <= MaxDepth /\ Kept'
    <3> DEFINE f == Frame(l, todo, kept)
    <3>1. f \in FrameSet /\ f.was \subseteq f.kept BY <2>b DEF Frame, FrameSet
    <3> HIDE DEF f
    <3>2. /\ Len(frames') = Len(frames) + 1 /\ frames'[Len(frames) + 1] = f
          /\ \A i \in 1 .. Len(frames) : frames'[i] = frames[i]
      BY <2>a, <2>b, <3>1, AppendProperties DEF f
    <3>3. Len(frames) < MaxDepth BY <2>b DEF CanCall
    <3> QED BY <2>a, <3>1, <3>2, <3>3
  <2>1. ASSUME NEW l \in Layer, BeginDense(l) \/ BeginPacked(l) \/ BeginConvolution(l) PROVE Bounded' /\ Kept'
    <3>1. ToSet(ParametersOf[l]) \in SUBSET Parameter /\ ParametersOf[l] \in Seq(Parameter) /\ <<>> \in Seq(Parameter)
          /\ (IF Swap THEN ToSet(ParametersOf[l]) ELSE {}) \in SUBSET Parameter /\ {} \in SUBSET Parameter
      BY LendAssumption DEF Parameter
    <3>2. CASE BeginDense(l)
      <4>1. frames' = Append(frames, Frame(l, <<>>, IF Swap THEN ToSet(ParametersOf[l]) ELSE {})) /\ CanCall(l)
        BY <3>2 DEF BeginDense
      <4>2. UNCHANGED <<convolving, attached>> BY <3>2 DEF BeginDense
      <4> QED BY <2>b, <3>1, <4>1, <4>2
    <3>3. CASE BeginPacked(l) BY <2>b, <3>1, <3>3 DEF BeginPacked
    <3>4. CASE BeginConvolution(l) BY <2>b, <3>1, <3>4 DEF BeginConvolution
    <3> QED BY <2>1, <3>2, <3>3, <3>4
  <2>2. CASE LendNext
    <3> DEFINE n == Len(frames)
               p == Head(frames[n].todo)
               f == frames[n]
               stays == p \in OnDevice \/ p \in lent
               g == [f EXCEPT !.todo = Tail(@), !.kept = IF stays THEN @ ELSE @ \cup {p}]
    <3>1. frames # <<>> /\ frames' = [frames EXCEPT ![n] = g] /\ UNCHANGED <<convolving, attached>>
      BY <2>2 DEF LendNext, Last
    <3>2. n \in 1 .. n /\ f \in FrameSet BY <2>a, <3>1, ElementOfSeq, EmptySeq
    <3>3. g.was = f.was /\ f.kept \subseteq g.kept BY <3>2 DEF FrameSet
    <3> HIDE DEF g
    <3>4. Len(frames') = n /\ frames'[n] = g /\ \A i \in 1 .. n : i # n => frames'[i] = frames[i]
      BY <2>a, <3>1, <3>2
    <3> QED BY <3>1, <3>2, <3>3, <3>4
  <2>3. CASE EndForwardCall
    <3>1. frames # <<>> /\ frames' = Front(frames) /\ attached' = attached /\ convolving' \subseteq convolving
      BY <2>3 DEF EndForwardCall, EndForwardOf
    <3>2. Len(frames') = Len(frames) - 1 /\ \A i \in 1 .. Len(frames) - 1 : frames'[i] = frames[i]
      <4>1. Front(frames) = [i \in 1 .. Len(frames) - 1 |-> frames[i]] BY DEF Front
      <4>2. Len(frames) >= 1 BY <2>a, <3>1, EmptySeq
      <4>3. Len(frames) - 1 \in Nat BY <2>a, <4>2
      <4>4. DOMAIN Front(frames) = 1 .. Len(frames) - 1 BY <4>1
      <4>5. \A i \in 1 .. Len(frames) - 1 : frames[i] \in FrameSet BY <2>a, ElementOfSeq
      <4>6. Front(frames) \in Seq(FrameSet) BY <4>1, <4>3, <4>5, IsASeq
      <4> QED BY <3>1, <4>1, <4>3, <4>4, <4>6
    <3> QED BY <2>a, <3>1, <3>2
  <2>4. CASE DetachHook \/ DeinitializeHook \/ AttachAgain \/ UNCHANGED lendVars
    <3>1. UNCHANGED <<frames, convolving>> /\ attached' \in BOOLEAN
      BY <2>4 DEF DetachHook, DeinitializeHook, AttachAgain, lendVars
    <3> QED BY <3>1
  <2> QED BY <2>1, <2>2, <2>3, <2>4 DEF LendingNext
<1>3. LendInv /\ Bounded /\ Kept => LendTypeOK
  <2> SUFFICES ASSUME LendInv, Bounded, Kept PROVE LendTypeOK OBVIOUS
  <2>1. DOMAIN frames = 1 .. Len(frames) BY DEF LendInv
  <2>2. \A i \in DOMAIN frames : frames[i] \in FrameSet BY <2>1, ElementOfSeq DEF LendInv
  <2>3. \A i \in DOMAIN frames : /\ frames[i].layer \in Layer /\ frames[i].kept \subseteq Parameter
                                 /\ frames[i].todo \in Seq(Parameter)
    BY <2>2 DEF FrameSet
  <2>4. \A i \in DOMAIN frames : ToSet(frames[i].todo) \subseteq Parameter BY <2>3 DEF ToSet
  <2> QED BY <2>1, <2>3, <2>4 DEF LendInv, LendTypeOK
<1> HIDE DEF Bounded, Kept
<1> QED BY <1>1, <1>2, <1>3, LentAlways, PTL DEF LendSpec

(* What a call has yet to do is of the pipeline.                           *)
LifeCounts ==
  /\ files \subseteq FromFiles /\ placed \in [Component -> {"cpu", "group", "device"}]
  /\ queue \in Seq(Component) /\ wanted \in Requests \cup {NoRequest} /\ raisesLeft \in 0 .. MaxRaises

(* Every step of a hook's life keeps the types of what is counted there.   *)
LEMMA LifeCountsNext == ASSUME LifeCounts, [LifeNext]_lifeVars PROVE LifeCounts'
<1> USE LifeAssumption
<1>a. ASSUME NEW cs \in Seq(Component), ToDo(cs) PROVE queue' \in Seq(Component) /\ wanted' \in Requests \cup {NoRequest}
  BY <1>a DEF ToDo, LifeCounts
<1>b. /\ queue \in Seq(Component) /\ <<>> \in Seq(Component)
      /\ queue # <<>> => Tail(queue) \in Seq(Component)
  BY DEF LifeCounts
<1>1. CASE BeginEnable
  <2>1. SetToSeqs(Component) \subseteq Seq(Component)
    <3>1. Cardinality(Component) \in Nat BY FS_CardinalityType
    <3>2. SetToSeqs(Component) \subseteq [1 .. Cardinality(Component) -> Component] BY DEF SetToSeqs
    <3> QED BY <3>1, <3>2, SeqDef
  <2>2. {<<c>> : c \in Component} \subseteq Seq(Component)
    <3>1. \A c \in Component : <<c>> \in Seq(Component) OBVIOUS
    <3> QED BY <3>1
  <2>3. PICK r \in Requests : wanted' = r /\ queue' \in IF r.pipeline THEN SetToSeqs(Component) ELSE {<<c>> : c \in Component}
    BY <1>1 DEF BeginEnable
  <2>4. queue' \in Seq(Component) BY <2>1, <2>2, <2>3
  <2>5. UNCHANGED <<files, placed, raisesLeft>> BY <1>1 DEF BeginEnable
  <2> QED BY <2>3, <2>4, <2>5 DEF LifeCounts
<1>2. CASE BeginRemove \/ RemoveEarlier \/ Unregister \/ UNCHANGED lifeVars
  <2>1. UNCHANGED <<files, placed, queue, wanted, raisesLeft>>
    BY <1>2 DEF BeginRemove, RemoveEarlier, Unregister, lifeVars
  <2> QED BY <2>1 DEF LifeCounts
<1>3. CASE RefuseCall
  <2>1. ToDo(<<>>) /\ UNCHANGED <<files, placed, raisesLeft>> BY <1>3 DEF RefuseCall
  <2> QED BY <1>a, <1>b, <2>1 DEF LifeCounts
<1>4. CASE PlaceUnhooked
  <2>1. PICK c \in Component :
          /\ NextIs(c)
          /\ placed' = [placed EXCEPT ![c] =
               CASE ~wanted.apply -> @
                 [] wanted.apply /\ RouteOf(c, wanted) = "diffusers_group_offload" -> "group"
                 [] wanted.apply /\ RouteOf(c, wanted) = "none" -> "device"
                 [] OTHER -> IF wanted.pipeline THEN "device" ELSE @]
    BY <1>4 DEF PlaceUnhooked
  <2>2. ToDo(Tail(queue)) /\ UNCHANGED <<files, raisesLeft>> BY <1>4 DEF PlaceUnhooked
  <2>3. Tail(queue) \in Seq(Component) BY <1>b, <2>1 DEF NextIs
  <2>4. placed' \in [Component -> {"cpu", "group", "device"}]
    <3>1. placed \in [Component -> {"cpu", "group", "device"}] BY DEF LifeCounts
    <3>2. PICK v \in {placed[c], "group", "device"} : placed' = [placed EXCEPT ![c] = v]
      BY <2>1
    <3> QED BY <3>1, <3>2
  <2> QED BY <1>a, <2>2, <2>3, <2>4 DEF LifeCounts
<1>5. CASE CreateHook
  <2>1. PICK c \in Component : NextIs(c) BY <1>5 DEF CreateHook
  <2>2. ToDo(Tail(queue)) /\ UNCHANGED <<files, placed, raisesLeft>> BY <1>5 DEF CreateHook
  <2>3. Tail(queue) \in Seq(Component) BY <1>b, <2>1 DEF NextIs
  <2> QED BY <1>a, <2>2, <2>3 DEF LifeCounts
<1>6. CASE OpenNext
  <2>1. UNCHANGED <<files, placed, queue, wanted, raisesLeft>> BY <1>6 DEF OpenNext
  <2> QED BY <2>1 DEF LifeCounts
<1>7. CASE OpenRaises \/ CloseRaises
  <2>1. ToDo(<<>>) /\ UNCHANGED <<files, placed>> BY <1>7 DEF OpenRaises, CloseRaises
  <2>2. raisesLeft' \in 0 .. MaxRaises
    <3>1. raisesLeft' = raisesLeft \/ (raisesLeft > 0 /\ raisesLeft' = raisesLeft - 1)
      BY <1>7 DEF OpenRaises, CloseRaises
    <3> QED BY <3>1 DEF LifeCounts
  <2> QED BY <1>a, <1>b, <2>1, <2>2 DEF LifeCounts
<1>8. CASE RegisterHook
  <2>1. UNCHANGED <<files, queue, wanted, raisesLeft>> BY <1>8 DEF RegisterHook
  <2>2. placed' \in [Component -> {"cpu", "group", "device"}]
    <3>1. placed \in [Component -> {"cpu", "group", "device"}] BY DEF LifeCounts
    <3>2. placed' = placed \/ placed' = [placed EXCEPT ![Current.on] = "device"] BY <1>8 DEF RegisterHook
    <3> QED BY <3>1, <3>2
  <2> QED BY <2>1, <2>2 DEF LifeCounts
<1>9. CASE CloseNext
  <2>1. files' \subseteq files /\ UNCHANGED <<placed, queue, wanted, raisesLeft>> BY <1>9 DEF CloseNext
  <2> QED BY <2>1 DEF LifeCounts
<1> QED BY <1>1, <1>2, <1>3, <1>4, <1>5, <1>6, <1>7, <1>8, <1>9 DEF LifeNext

(* The life of hooks keeps its types.                                      *)
LEMMA LifeTyped == LifeSpec => []LifeTypeOK
<1>1. LifeInit => LifeCounts BY LifeAssumption DEF LifeInit, LifeCounts
<1>2. LifeInv /\ LifeCounts => LifeTypeOK
  <2> SUFFICES ASSUME LifeInv, LifeCounts PROVE LifeTypeOK OBVIOUS
  <2>1. hooks \in Seq(Hook) /\ Len(hooks) \in Nat /\ DOMAIN hooks = 1 .. Len(hooks) BY DEF LifeInv, LifeTypes
  <2>2. \A h \in DOMAIN hooks : hooks[h] \in Hook BY <2>1, ElementOfSeq
  <2>3. \A h \in DOMAIN hooks : /\ hooks[h].on \in Component /\ hooks[h].life \in Lives
                                /\ hooks[h].open \subseteq Resources /\ hooks[h].reads \in BOOLEAN
    BY <2>2 DEF Hook
  <2>4. hookOf \in [Component -> 0 .. Len(hooks)] BY <2>1 DEF LifeInv, LifeTypes, HooksKnown
  <2>5. forward \in [Component -> 0 .. Len(hooks)] BY <2>1 DEF LifeInv, LifeTypes, Forwards
  <2>6. now \in 0 .. Len(hooks) BY <2>1 DEF LifeInv, LifeTypes, HooksKnown
  <2> QED BY <2>3, <2>4, <2>5, <2>6 DEF LifeCounts, LifeTypeOK
<1>3. LifeCounts /\ [LifeNext]_lifeVars => LifeCounts' BY LifeCountsNext
<1>4. LifeInv /\ [LifeNext]_lifeVars => LifeInv' BY LifeGoesOn
<1> QED BY <1>1, <1>2, <1>3, <1>4, LifeStarts, PTL DEF LifeSpec

------------------------------------------------------------------------------
(* All parts *)

(* A behaviour runs one part, and the others stay as they are.             *)
LEMMA PartsRun ==
  MCSpec => ReadsSpec /\ SourcesSpec /\ HostSpec /\ PatchSpec /\ PlanSpec /\ PinSpec /\ LendSpec /\ LifeSpec
<1>1. MCInit => /\ ReadsInit /\ SourcesInit /\ HostInit /\ PatchInit
                /\ PlanInit /\ PinInit /\ LendInit /\ LifeInit
  BY DEF MCInit
<1>2. [MCNext]_LoadingVars =>
        /\ [ReadsNext]_readVars /\ [SourcesNext]_sourceVars /\ [HostNext]_hostVars /\ [PatchNext]_patchVars
        /\ [PlanNext]_planVars /\ [PinNext]_pinVars /\ [LendingNext]_lendVars /\ [LifeNext]_lifeVars
  BY DEF MCNext, LoadingVars
<1> QED BY <1>1, <1>2, PTL DEF MCSpec, ReadsSpec, SourcesSpec, HostSpec, PatchSpec, PlanSpec, PinSpec, LendSpec, LifeSpec

(* The variables of every part of loading are of their types, counters and *)
(* indices within their bounds.                                            *)
THEOREM LoadingTypeCorrect == MCSpec => []LoadingTypeOK
<1>1. PinInv => PinTypeOK BY DEF PinInv
<1> QED BY <1>1, PartsRun, ReadsTyped, SourcesTyped, HostTyped, PatchTyped, PlanTypeCorrect, PinnedAlways,
           LendTyped, LifeTyped, PTL DEF LoadingTypeOK

=============================================================================
