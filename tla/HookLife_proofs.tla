---------------------------- MODULE HookLife_proofs ----------------------------
(***************************************************************************)
(* RemovedIsUndone holds of LifeSpec, for any components, requests, number  *)
(* of hooks and of steps that raise.                                       *)
(*                                                                         *)
(* The state of a hook says, with the steps it has yet to take, what it may *)
(* still have open: a setup opens nothing but forwards before it is active, *)
(* so that _close_vmm_store finds all of it; a removal has closed what its  *)
(* order has passed; one that raised leaves a hook that the next removal    *)
(* still takes for open, unless only a registry or a pool refused.  Beneath *)
(* the forwards of a hook lie those of lost ones, never of one that goes.  *)
(***************************************************************************)
EXTENDS HookLife, TLAPS, SequenceTheorems

Steps == Resources \cup {"leases", "reclaim", "refused", "ready"}

Hook == [on : Component, life : Lives, todo : Seq(Steps), moves : BOOLEAN, open : SUBSET Resources,
         was : Nat, reads : BOOLEAN, failed : Steps \cup {"nothing"}]

LifeTypes ==
  /\ hooks \in Seq(Hook) /\ now \in Nat
  /\ hookOf \in [Component -> Nat] /\ forward \in [Component -> Nat]

(* Forwards are put in once.                                               *)
Once(s) == \A i, j \in DOMAIN s : s[i] = "patches" /\ s[j] = "patches" => i = j

(* A hook that is being set up is active or opens nothing but its forwards. *)
Starting(k) ==
  /\ Once(k.todo) /\ ("patches" \in ToSet(k.todo) => "patches" \notin k.open)
  /\ \/ "active" \in k.open \cup ToSet(k.todo)
     \/ (k.open \cup ToSet(k.todo)) \cap Resources \subseteq {"patches"}
  /\ k.failed = "nothing" /\ (k.reads => "files" \in k.open)

(* The last state in which a registry or a pool that refused leaves a hook. *)
Excused(k) ==
  /\ k.failed \in {"registry", "pool"}
  /\ k.open \cap {"active", "arena", "store", "patches", "groups", "executor"} = {}

(* What _close_vmm_store goes by tells a hook that has something open.     *)
Standing(k) ==
  \/ k.open \cap {"active", "arena", "store"} # {}
  \/ k.open \subseteq {"patches"}
  \/ Excused(k)

(* What is left to do is the rest of the order of release, and what is      *)
(* open is yet to be closed.                                               *)
Closing(k) ==
  /\ Len(k.todo) <= 11 /\ \A i \in 1 .. Len(k.todo) : k.todo[i] = Release[11 - Len(k.todo) + i]
  /\ \/ k.open \cap {"arena", "store", "files"} \subseteq ToSet(k.todo)
     \/ k.todo = <<>> /\ k.open \cap {"arena", "store"} = {}
  /\ k.life = "removing" =>
       /\ Len(k.todo) >= 7 => Standing(k)
       /\ k.open \subseteq ToSet(k.todo) \/ (k.todo = <<>> /\ Excused(k))

Lived(k) ==
  /\ k.life = "initializing" => Starting(k)
  /\ k.life = "attached" => Standing(k)
  /\ k.life \in {"removing", "abandoned"} => Closing(k)
  /\ k.life = "removed" => k.open = {} \/ Excused(k)
  /\ k.life \notin {"removed", "lost"} /\ k.reads /\ k.open \cap {"arena", "store"} # {} => "files" \in k.open

(* A component is on the hook that stands for it, or none is in place.     *)
HooksKnown ==
  /\ \A c \in Component : hookOf[c] # 0 =>
       /\ hookOf[c] \in DOMAIN hooks /\ hooks[hookOf[c]].on = c
       /\ hooks[hookOf[c]].life \in {"attached", "removing"}
  /\ now # 0 => now \in DOMAIN hooks /\ hooks[now].life \in {"initializing", "removing", "abandoned"}
  /\ \A h \in DOMAIN hooks :
       /\ hooks[h].life \in {"attached", "removing"} => hookOf[hooks[h].on] = h
       /\ hooks[h].life \in {"initializing", "abandoned"} => hookOf[hooks[h].on] = 0
       /\ hooks[h].life \in {"initializing", "removing", "abandoned"} => now = h

(* Forwards in place are of a hook that has them to give back, or of a lost *)
(* one; beneath them are those of lost ones.                               *)
Forwards ==
  /\ \A c \in Component : forward[c] # 0 =>
       /\ forward[c] \in DOMAIN hooks /\ hooks[forward[c]].on = c
       /\ hooks[forward[c]].life # "lost" => "patches" \in hooks[forward[c]].open
  /\ \A h \in DOMAIN hooks : "patches" \in hooks[h].open /\ hooks[h].was # 0 =>
       /\ hooks[h].was \in DOMAIN hooks /\ hooks[hooks[h].was].on = hooks[h].on
       /\ hooks[hooks[h].was].life = "lost"

FilesThere ==
  \A h \in DOMAIN hooks :
    hooks[h].life \notin {"removed", "lost"}
    /\ "files" \in hooks[h].open \cup (IF hooks[h].life = "initializing" THEN ToSet(hooks[h].todo) ELSE {})
      => hooks[h].on \in files

LifeInv == /\ LifeTypes /\ HooksKnown /\ Forwards /\ FilesThere
           /\ \A h \in DOMAIN hooks : Lived(hooks[h])

------------------------------------------------------------------------------
LEMMA Rest ==
  ASSUME NEW s \in Seq(Steps), s # <<>>
  PROVE  /\ Head(s) = s[1] /\ Head(s) \in Steps /\ Head(s) \in ToSet(s) /\ Len(s) \in Nat \ {0}
         /\ Tail(s) \in Seq(Steps) /\ Len(Tail(s)) = Len(s) - 1
         /\ \A i \in DOMAIN Tail(s) : i + 1 \in DOMAIN s /\ Tail(s)[i] = s[i + 1]
         /\ ToSet(s) \subseteq {Head(s)} \cup ToSet(Tail(s)) /\ ToSet(Tail(s)) \subseteq ToSet(s)
<1>1. /\ Head(s) = s[1] /\ Head(s) \in Steps /\ Len(s) \in Nat \ {0}
      /\ Tail(s) \in Seq(Steps) /\ Len(Tail(s)) = Len(s) - 1
      /\ DOMAIN s = 1 .. Len(s) /\ DOMAIN Tail(s) = 1 .. Len(s) - 1
      /\ \A i \in 1 .. Len(s) - 1 : Tail(s)[i] = s[i + 1]
  OBVIOUS
<1>2. Head(s) \in ToSet(s) BY <1>1 DEF ToSet
<1>3. ToSet(s) \subseteq {Head(s)} \cup ToSet(Tail(s))
  <2> SUFFICES ASSUME NEW i \in 1 .. Len(s), i # 1 PROVE s[i] \in ToSet(Tail(s)) BY <1>1 DEF ToSet
  <2>1. i - 1 \in 1 .. Len(s) - 1 /\ Tail(s)[i - 1] = s[i] BY <1>1
  <2> QED BY <2>1, <1>1 DEF ToSet
<1>4. ToSet(Tail(s)) \subseteq ToSet(s) BY <1>1 DEF ToSet
<1> QED BY <1>1, <1>2, <1>3, <1>4

LEMMA ReleaseOrder ==
  /\ Release \in Seq(Steps) /\ Len(Release) = 11
  /\ Release[1] = "groups" /\ Release[2] = "executor" /\ Release[3] = "leases" /\ Release[4] = "patches"
  /\ Release[5] = "active" /\ Release[6] = "store" /\ Release[7] = "arena" /\ Release[8] = "registry"
  /\ Release[9] = "pool" /\ Release[10] = "stream" /\ Release[11] = "files"
BY DEF Release, Steps, Resources

LEMMA CloseOrder ==
  /\ CloseStore \in Seq(Steps) /\ Len(CloseStore) \in 7 .. 7
  /\ \A i \in 1 .. 7 : i \in DOMAIN CloseStore /\ CloseStore[i] = Release[4 + i]
<1>1. \A i \in 1 .. 7 : Release[4 + i] \in Steps
  <2>1. Release \in [1 .. 11 -> Steps] BY DEF Release, Steps, Resources
  <2>2. \A i \in 1 .. 7 : 4 + i \in 1 .. 11 OBVIOUS
  <2> QED BY <2>1, <2>2
<1>2. CloseStore \in [1 .. 7 -> Steps] BY <1>1 DEF CloseStore
<1> QED BY <1>2 DEF CloseStore

LEMMA Joined ==
  ASSUME NEW S, NEW s \in Seq(S), NEW t \in Seq(S)
  PROVE  s \o t \in Seq(S) /\ ToSet(s \o t) = ToSet(s) \cup ToSet(t)
<1>1. /\ s \o t \in Seq(S) /\ DOMAIN (s \o t) = 1 .. Len(s) + Len(t)
      /\ Len(s) \in Nat /\ Len(t) \in Nat /\ DOMAIN s = 1 .. Len(s) /\ DOMAIN t = 1 .. Len(t)
  OBVIOUS
<1>2. /\ \A i \in DOMAIN s : i \in DOMAIN (s \o t) /\ (s \o t)[i] = s[i]
      /\ \A i \in DOMAIN t : Len(s) + i \in DOMAIN (s \o t) /\ (s \o t)[Len(s) + i] = t[i]
  BY <1>1, ConcatProperties
<1>3. \A i \in DOMAIN (s \o t) : (s \o t)[i] \in ToSet(s) \cup ToSet(t)
  <2> SUFFICES ASSUME NEW i \in DOMAIN (s \o t) PROVE (s \o t)[i] \in ToSet(s) \cup ToSet(t)
    OBVIOUS
  <2>1. CASE i <= Len(s) BY <2>1, <1>1, <1>2 DEF ToSet
  <2>2. CASE i > Len(s)
    <3>1. i - Len(s) \in DOMAIN t /\ (s \o t)[i] = t[i - Len(s)] BY <2>2, <1>1, ConcatProperties
    <3> QED BY <3>1 DEF ToSet
  <2> QED BY <2>1, <2>2, <1>1
<1>4. ToSet(s) \subseteq ToSet(s \o t) BY <1>2 DEF ToSet
<1>5. ToSet(t) \subseteq ToSet(s \o t) BY <1>2 DEF ToSet
<1>6. ToSet(s \o t) \subseteq ToSet(s) \cup ToSet(t)
  <2> SUFFICES ASSUME NEW i \in DOMAIN (s \o t) PROVE (s \o t)[i] \in ToSet(s) \cup ToSet(t)
    BY Zenon DEF ToSet
  <2> QED BY <1>3
<1> QED
  <2>1. s \o t \in Seq(S) BY <1>1
  <2>2. ToSet(s \o t) = ToSet(s) \cup ToSet(t) BY <1>4, <1>5, <1>6, Zenon
  <2> QED BY <2>1, <2>2

LEMMA OnceJoined ==
  ASSUME NEW S, NEW s \in Seq(S), NEW t \in Seq(S), Once(s), Once(t), "patches" \notin ToSet(s) \cap ToSet(t)
  PROVE  Once(s \o t)
<1>1. /\ DOMAIN (s \o t) = 1 .. Len(s) + Len(t)
      /\ Len(s) \in Nat /\ Len(t) \in Nat /\ DOMAIN s = 1 .. Len(s) /\ DOMAIN t = 1 .. Len(t)
  OBVIOUS
<1>2. \A i \in 1 .. Len(s) + Len(t) :
        \/ i \in DOMAIN s /\ (s \o t)[i] = s[i]
        \/ i - Len(s) \in DOMAIN t /\ (s \o t)[i] = t[i - Len(s)] /\ i > Len(s)
  <2> SUFFICES ASSUME NEW i \in 1 .. Len(s) + Len(t)
               PROVE  \/ i \in DOMAIN s /\ (s \o t)[i] = s[i]
                      \/ i - Len(s) \in DOMAIN t /\ (s \o t)[i] = t[i - Len(s)] /\ i > Len(s)
    OBVIOUS
  <2>1. CASE i <= Len(s) BY <2>1, <1>1, ConcatProperties
  <2>2. CASE i > Len(s) BY <2>2, <1>1, ConcatProperties
  <2> QED BY <2>1, <2>2, <1>1
<1> QED BY <1>1, <1>2 DEF Once, ToSet

Fine(s, c) == s \in Seq(Steps) /\ Once(s) /\ ("files" \in ToSet(s) => c \in files)

LEMMA FineJoined ==
  ASSUME NEW c, NEW s, NEW t, Fine(s, c), Fine(t, c), "patches" \notin ToSet(s) \cap ToSet(t)
  PROVE  Fine(s \o t, c) /\ ToSet(s \o t) = ToSet(s) \cup ToSet(t)
<1>1. s \o t \in Seq(Steps) /\ ToSet(s \o t) = ToSet(s) \cup ToSet(t) BY Joined DEF Fine
<1>2. Once(s \o t) BY OnceJoined DEF Fine
<1> QED BY <1>1, <1>2 DEF Fine

LEMMA SetupStarts ==
  ASSUME NEW c, NEW r
  PROVE  /\ Fine(Setup(c, r), c)
         /\ "active" \in ToSet(Setup(c, r)) \/ ToSet(Setup(c, r)) \cap Resources \subseteq {"patches"}
<1> DEFINE w == When(c \in files, <<"files", "executor">>)
           x == When(c \in files, <<"files">>)
           y == When(r.hostCache, <<"registry">>)
           z == When(c \in Blocks, <<"arena", "groups", "patches">>)
           p == When(~r.native, <<"pool">>)
           q == When(r.reclaim, <<"reclaim">>)
<1>a. /\ Fine(<<>>, c) /\ ToSet(<<>>) = {}
      /\ c \in files => Fine(<<"files", "executor">>, c) /\ Fine(<<"files">>, c)
      /\ Fine(<<"registry">>, c) /\ Fine(<<"pool">>, c) /\ Fine(<<"reclaim">>, c)
  BY DEF Fine, ToSet, Once, Steps, Resources
<1>b. /\ "patches" \notin ToSet(<<"files", "executor">>) /\ "patches" \notin ToSet(<<"files">>)
      /\ "patches" \notin ToSet(<<"registry">>) /\ "patches" \notin ToSet(<<"pool">>)
      /\ "patches" \notin ToSet(<<"reclaim">>)
  BY DEF ToSet
<1>c. Fine(<<"arena", "groups", "patches">>, c)
  BY DEF Fine, ToSet, Once, Steps, Resources
<1>1. Fine(w, c) /\ "patches" \notin ToSet(w) BY <1>a, <1>b DEF When
<1>2. Fine(x, c) /\ "patches" \notin ToSet(x) BY <1>a, <1>b DEF When
<1>3. Fine(y, c) /\ "patches" \notin ToSet(y) BY <1>a, <1>b DEF When
<1>4. Fine(z, c) BY <1>a, <1>c DEF When
<1>5. Fine(p, c) /\ "patches" \notin ToSet(p) BY <1>a, <1>b DEF When
<1>6. Fine(q, c) /\ "patches" \notin ToSet(q) BY <1>a, <1>b DEF When
<1>7. /\ Fine(<<"active", "pool">>, c) /\ ToSet(<<"active", "pool">>) = {"active", "pool"}
      /\ Fine(<<"stream">>, c) /\ ToSet(<<"stream">>) = {"stream"}
      /\ Fine(<<"ready">>, c) /\ ToSet(<<"ready">>) = {"ready"}
  BY DEF Fine, ToSet, Once, Steps, Resources
<1>8. /\ Fine(<<"store">>, c) /\ ToSet(<<"store">>) = {"store"}
      /\ Fine(<<"active", "ready">>, c) /\ ToSet(<<"active", "ready">>) = {"active", "ready"}
      /\ Fine(<<"refused">>, c) /\ ToSet(<<"refused">>) = {"refused"}
  BY DEF Fine, ToSet, Once, Steps, Resources
<1>9. Fine(<<"patches", "ready">>, c) /\ ToSet(<<"patches", "ready">>) = {"patches", "ready"}
  BY DEF Fine, ToSet, Once, Steps, Resources
<1> HIDE DEF w, x, y, z, p, q
<1>10. LET v == ((((<<"active", "pool">> \o w) \o <<"stream">>) \o y) \o z) \o <<"ready">>
       IN  Fine(v, c) /\ "active" \in ToSet(v)
  <2> DEFINE v1 == <<"active", "pool">> \o w
             v2 == v1 \o <<"stream">>
             v3 == v2 \o y
             v4 == v3 \o z
             v5 == v4 \o <<"ready">>
  <2>1. Fine(v1, c) /\ "patches" \notin ToSet(v1) /\ "active" \in ToSet(v1) BY <1>1, <1>7, FineJoined
  <2> HIDE DEF v1
  <2>2. Fine(v2, c) /\ "patches" \notin ToSet(v2) /\ "active" \in ToSet(v2)
    <3>1. Fine(v2, c) /\ ToSet(v2) = ToSet(v1) \cup ToSet(<<"stream">>)
      BY <2>1, <1>7, FineJoined
    <3> QED BY <3>1, <2>1, <1>7
  <2> HIDE DEF v2
  <2>3. Fine(v3, c) /\ "patches" \notin ToSet(v3) /\ "active" \in ToSet(v3) BY <2>2, <1>3, FineJoined
  <2> HIDE DEF v3
  <2>4. Fine(v4, c) /\ "active" \in ToSet(v4) BY <2>3, <1>4, FineJoined
  <2> HIDE DEF v4
  <2>5. Fine(v5, c) /\ "active" \in ToSet(v5) BY <2>4, <1>7, FineJoined
  <2> QED BY <2>5 DEF v1, v2, v3, v4
<1>11. LET v == (((x \o p) \o <<"store">>) \o q) \o <<"active", "ready">>
       IN  Fine(v, c) /\ "active" \in ToSet(v)
  <2> DEFINE v1 == x \o p
             v2 == v1 \o <<"store">>
             v3 == v2 \o q
             v4 == v3 \o <<"active", "ready">>
  <2>1. Fine(v1, c) /\ "patches" \notin ToSet(v1) BY <1>2, <1>5, FineJoined
  <2> HIDE DEF v1
  <2>2. Fine(v2, c) /\ "patches" \notin ToSet(v2) BY <2>1, <1>8, FineJoined
  <2> HIDE DEF v2
  <2>3. Fine(v3, c) /\ "patches" \notin ToSet(v3) BY <2>2, <1>6, FineJoined
  <2> HIDE DEF v3
  <2>4. Fine(v4, c) /\ "active" \in ToSet(v4) BY <2>3, <1>8, FineJoined
  <2> QED BY <2>4 DEF v1, v2, v3
<1>12. \/ Setup(c, r) = ((((<<"active", "pool">> \o w) \o <<"stream">>) \o y) \o z) \o <<"ready">>
       \/ Setup(c, r) = (((x \o p) \o <<"store">>) \o q) \o <<"active", "ready">>
       \/ Setup(c, r) \in {<<"refused">>, <<"patches", "ready">>, <<"ready">>}
  BY DEF Setup, w, x, y, z, p, q
<1>13. CASE Setup(c, r) \in {<<"refused">>, <<"patches", "ready">>, <<"ready">>}
  BY <1>13, <1>7, <1>8, <1>9 DEF Resources
<1> QED BY <1>10, <1>11, <1>12, <1>13

------------------------------------------------------------------------------
(* What the proofs use of a state: the hook at hand, and where in the order *)
(* of release it is.                                                       *)
LEMMA AtHand ==
  ASSUME LifeInv, now # 0
  PROVE  /\ now \in DOMAIN hooks /\ now \in Nat \ {0} /\ Current \in Hook /\ Current = hooks[now] /\ Lived(Current)
         /\ Current.on \in Component /\ Current.todo \in Seq(Steps)
         /\ Current.life \in {"initializing", "removing", "abandoned"}
<1>1. now \in DOMAIN hooks /\ Current = hooks[now] /\ Current.life \in {"initializing", "removing", "abandoned"}
  BY DEF LifeInv, HooksKnown, Current
<1>2. now \in Nat \ {0} /\ hooks[now] \in Hook BY <1>1 DEF LifeInv, LifeTypes
<1>3. Lived(Current) BY <1>1 DEF LifeInv
<1>4. Current.on \in Component /\ Current.todo \in Seq(Steps) BY <1>1, <1>2 DEF Hook
<1> QED BY <1>1, <1>2, <1>3, <1>4

LEMMA InOrder ==
  ASSUME NEW k \in Hook, Closing(k), k.todo # <<>>
  PROVE  /\ Len(k.todo) \in 1 .. 11 /\ Head(k.todo) = Release[12 - Len(k.todo)]
         /\ Head(k.todo) = "files" => Len(k.todo) = 1
         /\ Head(k.todo) = "active" <=> Len(k.todo) = 7
         /\ Len(k.todo) >= 8 <=> Head(k.todo) \in {"groups", "executor", "leases", "patches"}
         /\ "patches" \in ToSet(k.todo) => Len(k.todo) >= 8
         /\ \A j \in {7, 6, 5, 4, 3} : Len(k.todo) <= j => ToSet(k.todo) \subseteq {Release[i] : i \in 12 - j .. 11}
<1> DEFINE n == Len(k.todo)
<1>1. k.todo \in Seq(Steps) BY DEF Hook
<1>2. n \in 1 .. 11 /\ Head(k.todo) = k.todo[1] /\ DOMAIN k.todo = 1 .. n
  <2>1. n \in Nat \ {0} /\ Head(k.todo) = k.todo[1] BY <1>1, Rest
  <2>2. n <= 11 BY DEF Closing
  <2>3. DOMAIN k.todo = 1 .. n BY <1>1
  <2> HIDE DEF n
  <2> QED BY <2>1, <2>2, <2>3
<1>3. \A i \in 1 .. n : k.todo[i] = Release[11 - n + i] BY DEF Closing
<1>4. Head(k.todo) = Release[12 - n] BY <1>2, <1>3
<1>5. ToSet(k.todo) = {Release[i] : i \in 12 - n .. 11}
  <2> HIDE DEF n
  <2>1. \A i \in 1 .. n : 11 - n + i \in 12 - n .. 11 BY <1>2
  <2>2. \A i \in 12 - n .. 11 : i - 11 + n \in 1 .. n /\ 11 - n + (i - 11 + n) = i BY <1>2
  <2>3. ToSet(k.todo) = {k.todo[i] : i \in 1 .. n} BY <1>2 DEF ToSet
  <2>4. {k.todo[i] : i \in 1 .. n} \subseteq {Release[i] : i \in 12 - n .. 11} BY <2>1, <1>3
  <2>5. {Release[i] : i \in 12 - n .. 11} \subseteq {k.todo[i] : i \in 1 .. n}
    <3> SUFFICES ASSUME NEW i \in 12 - n .. 11 PROVE \E l \in 1 .. n : Release[i] = k.todo[l] OBVIOUS
    <3> QED BY <2>2, <1>3
  <2> QED BY <2>3, <2>4, <2>5
<1> HIDE DEF n
<1>6. \A i \in 1 .. 11 : /\ Release[i] = "files" <=> i = 11
                         /\ Release[i] = "active" <=> i = 5
                         /\ Release[i] = "patches" <=> i = 4
                         /\ Release[i] \in {"groups", "executor", "leases", "patches"} <=> i <= 4
  BY ReleaseOrder
<1>7. 12 - n \in 1 .. 11 BY <1>2
<1>8. "patches" \in ToSet(k.todo) => n >= 8
  <2>1. "patches" \in ToSet(k.todo) => \E i \in 12 - n .. 11 : Release[i] = "patches" BY <1>5
  <2> QED BY <2>1, <1>6, <1>2
<1>9. \A j \in {7, 6, 5, 4, 3} : n <= j => ToSet(k.todo) \subseteq {Release[i] : i \in 12 - j .. 11}
  BY <1>5, <1>2
<1>10. /\ Head(k.todo) = "files" => n = 1
       /\ Head(k.todo) = "active" <=> n = 7
       /\ n >= 8 <=> Head(k.todo) \in {"groups", "executor", "leases", "patches"}
  BY <1>4, <1>6, <1>7, <1>2
<1> QED BY <1>2, <1>4, <1>8, <1>9, <1>10 DEF n

LEMMA LifeStarts == LifeInit => LifeInv
<1> SUFFICES ASSUME LifeInit PROVE LifeInv OBVIOUS
<1>1. hooks = <<>> /\ DOMAIN hooks = {} /\ hooks \in Seq(Hook) BY DEF LifeInit
<1> QED BY <1>1 DEF LifeInit, LifeInv, LifeTypes, HooksKnown, Forwards, FilesThere

(* Steps that no hook sees.                                                *)
LEMMA LifeUnchanged == ASSUME LifeInv, UNCHANGED <<hooks, hookOf, forward, files, now>> PROVE LifeInv'
BY DEF LifeInv, LifeTypes, HooksKnown, Forwards, FilesThere

(* A step changes one hook; the others are as they were.                   *)
LEMMA OneHookChanges ==
  ASSUME NEW hs \in Seq(Hook), NEW n \in DOMAIN hs, NEW k \in Hook, NEW new, new = [hs EXCEPT ![n] = k]
  PROVE  /\ new \in Seq(Hook) /\ DOMAIN new = DOMAIN hs /\ new[n] = k
         /\ \A h \in DOMAIN hs : h # n => new[h] = hs[h]
BY DEF Hook

------------------------------------------------------------------------------
(* Calls *)
LEMMA StartsRemoval ==
  ASSUME LifeInv, NEW c \in Component, hookOf[c] # 0, now = 0, StartRemoval(c), UNCHANGED <<hookOf, forward, files>>
  PROVE  LifeInv'
<1> DEFINE n == hookOf[c]
<1>1. /\ n \in DOMAIN hooks /\ n \in Nat \ {0} /\ hooks[n].on = c /\ hooks[n] \in Hook /\ hooks[n].life = "attached"
      /\ Lived(hooks[n])
  <2>1. n \in DOMAIN hooks /\ hooks[n].on = c /\ hooks[n].life \in {"attached", "removing"} BY DEF LifeInv, HooksKnown
  <2>2. hooks[n] \in Hook /\ n \in Nat \ {0} BY <2>1 DEF LifeInv, LifeTypes
  <2>3. hooks[n].life # "removing" BY <2>1, <2>2 DEF LifeInv, HooksKnown
  <2> QED BY <2>1, <2>2, <2>3 DEF LifeInv
<1> DEFINE k == [[hooks[n] EXCEPT !.life = "removing"] EXCEPT !.todo = Release]
<1>2. hooks' = [hooks EXCEPT ![n] = k] /\ now' = n
  BY <1>1 DEF StartRemoval, LifeInv, LifeTypes
<1>3. /\ k \in Hook /\ k.on = hooks[n].on /\ k.life = "removing" /\ k.todo = Release /\ k.open = hooks[n].open
      /\ k.was = hooks[n].was /\ k.reads = hooks[n].reads /\ k.failed = hooks[n].failed
  BY <1>1, ReleaseOrder DEF Hook, Lives
<1> HIDE DEF k
<1>4. /\ hooks' \in Seq(Hook) /\ DOMAIN hooks' = DOMAIN hooks /\ hooks'[n] = k
      /\ \A h \in DOMAIN hooks : h # n => hooks'[h] = hooks[h]
  BY <1>1, <1>2, <1>3, OneHookChanges DEF LifeInv, LifeTypes
<1> HIDE DEF n
<1>5. LifeTypes' BY <1>1, <1>2, <1>4 DEF LifeInv, LifeTypes
<1>6. HooksKnown'
  <2>1. \A d \in Component : hookOf[d] # 0 =>
           /\ hookOf[d] \in DOMAIN hooks' /\ hooks'[hookOf[d]].on = d
           /\ hooks'[hookOf[d]].life \in {"attached", "removing"}
    BY <1>1, <1>3, <1>4 DEF LifeInv, HooksKnown
  <2>2. \A h \in DOMAIN hooks' :
       /\ hooks'[h].life \in {"attached", "removing"} => hookOf[hooks'[h].on] = h
       /\ hooks'[h].life \in {"initializing", "abandoned"} => hookOf[hooks'[h].on] = 0
       /\ hooks'[h].life \in {"initializing", "removing", "abandoned"} => n = h
    <3> SUFFICES ASSUME NEW h \in DOMAIN hooks PROVE
       /\ hooks'[h].life \in {"attached", "removing"} => hookOf[hooks'[h].on] = h
       /\ hooks'[h].life \in {"initializing", "abandoned"} => hookOf[hooks'[h].on] = 0
       /\ hooks'[h].life \in {"initializing", "removing", "abandoned"} => n = h
      BY <1>4
    <3>0. h \in Nat \ {0} BY DEF LifeInv, LifeTypes
    <3>1. CASE h = n BY <3>1, <1>1, <1>3, <1>4 DEF LifeInv, HooksKnown
    <3>2. CASE h # n BY <3>0, <3>2, <1>4 DEF LifeInv, HooksKnown
    <3> QED BY <3>1, <3>2
  <2> QED BY <2>1, <2>2, <1>1, <1>2, <1>3, <1>4 DEF HooksKnown
<1>7. Forwards'
  <2>1. \A c_1 \in Component : forward[c_1] # 0 =>
       /\ forward[c_1] \in DOMAIN hooks' /\ hooks'[forward[c_1]].on = c_1
       /\ hooks'[forward[c_1]].life # "lost" => "patches" \in hooks'[forward[c_1]].open
    BY <1>1, <1>3, <1>4 DEF LifeInv, Forwards
  <2>2. \A h \in DOMAIN hooks' : "patches" \in hooks'[h].open /\ hooks'[h].was # 0 =>
       /\ hooks'[h].was \in DOMAIN hooks' /\ hooks'[hooks'[h].was].on = hooks'[h].on
       /\ hooks'[hooks'[h].was].life = "lost"
    BY <1>1, <1>3, <1>4 DEF LifeInv, Forwards
  <2> QED BY <2>1, <2>2 DEF Forwards
<1>8. FilesThere' BY <1>1, <1>3, <1>4 DEF LifeInv, FilesThere
<1>9. Lived(k)
  <2>1. Len(Release) <= 11 /\ Len(Release) >= 7 /\ \A i \in 1 .. Len(Release) : Release[i] = Release[11 - Len(Release) + i]
    BY ReleaseOrder
  <2>2. Resources \subseteq ToSet(Release)
    <3>1. DOMAIN Release = 1 .. 11 BY ReleaseOrder
    <3>2. {Release[i] : i \in 1 .. 11} \subseteq ToSet(Release) BY <3>1 DEF ToSet
    <3>3. 1 \in 1 .. 11 /\ 2 \in 1 .. 11 /\ 4 \in 1 .. 11 /\ 5 \in 1 .. 11 /\ 6 \in 1 .. 11
          /\ 7 \in 1 .. 11 /\ 8 \in 1 .. 11 /\ 9 \in 1 .. 11 /\ 10 \in 1 .. 11 /\ 11 \in 1 .. 11
      OBVIOUS
    <3> QED BY <3>2, <3>3, ReleaseOrder DEF Resources
  <2>3. k.open \subseteq ToSet(Release) BY <2>2, <1>3 DEF Hook
  <2>4. Standing(k) BY <1>1, <1>3 DEF Lived, Standing, Excused
  <2>5. Closing(k) BY <2>1, <2>3, <2>4, <1>3 DEF Closing
  <2>6. k.reads /\ k.open \cap {"arena", "store"} # {} => "files" \in k.open BY <1>1, <1>3 DEF Lived
  <2> QED BY <2>5, <2>6, <1>3 DEF Lived
<1>10. \A h \in DOMAIN hooks' : Lived(hooks'[h]) BY <1>4, <1>9 DEF LifeInv
<1> QED BY <1>5, <1>6, <1>7, <1>8, <1>10 DEF LifeInv

LEMMA CallsKeep ==
  ASSUME LifeInv, BeginEnable \/ BeginRemove \/ RefuseCall \/ PlaceUnhooked \/ RemoveEarlier
  PROVE  LifeInv'
<1>1. CASE BeginEnable BY <1>1, LifeUnchanged DEF BeginEnable
<1>2. CASE BeginRemove
  <2>1. PICK c \in Component : hookOf[c] # 0 /\ StartRemoval(c) BY <1>2 DEF BeginRemove
  <2> QED BY <1>2, <2>1, StartsRemoval DEF BeginRemove, Idle
<1>3. CASE RefuseCall BY <1>3, LifeUnchanged DEF RefuseCall
<1>4. CASE PlaceUnhooked BY <1>4, LifeUnchanged DEF PlaceUnhooked
<1>5. CASE RemoveEarlier
  <2>1. PICK c \in Component : NextIs(c) /\ hookOf[c] # 0 /\ StartRemoval(c) BY <1>5 DEF RemoveEarlier
  <2> QED BY <1>5, <2>1, StartsRemoval DEF RemoveEarlier, NextIs
<1> QED BY <1>1, <1>2, <1>3, <1>4, <1>5

LEMMA CreateHookKeeps == ASSUME LifeInv, CreateHook PROVE LifeInv'
<1>1. PICK c \in Component :
        /\ now = 0 /\ hookOf[c] = 0
        /\ hooks' = Append(hooks, [on |-> c, life |-> "initializing", todo |-> Setup(c, wanted),
                                   moves |-> wanted.pipeline /\ wanted.mode = "plan",
                                   open |-> {}, was |-> 0, reads |-> FALSE, failed |-> "nothing"])
  BY DEF CreateHook, NextIs
<1>2. now' = Len(hooks) + 1 /\ UNCHANGED <<hookOf, forward, files>> BY DEF CreateHook
<1> DEFINE k == [on |-> c, life |-> "initializing", todo |-> Setup(c, wanted),
                 moves |-> wanted.pipeline /\ wanted.mode = "plan",
                 open |-> {}, was |-> 0, reads |-> FALSE, failed |-> "nothing"]
           n == Len(hooks) + 1
<1>3. k \in Hook /\ k.on = c /\ k.life = "initializing" /\ k.open = {} /\ k.todo = Setup(c, wanted)
  <2>1. (wanted.pipeline /\ wanted.mode = "plan") \in BOOLEAN OBVIOUS
  <2>2. Setup(c, wanted) \in Seq(Steps) BY SetupStarts DEF Fine
  <2> QED BY <2>1, <2>2 DEF Hook, Lives, Steps
<1>4. Lived(k)
  <2>1. Starting(k) BY SetupStarts, <1>3 DEF Starting, Fine, k
  <2> QED BY <2>1, <1>3 DEF Lived
<1>5. "files" \in k.open \cup ToSet(k.todo) => c \in files BY SetupStarts, <1>3 DEF Fine
<1> HIDE DEF k
<1>6. /\ hooks \in Seq(Hook) /\ hooks' = Append(hooks, k) /\ n \in Nat \ {0}
      /\ DOMAIN hooks = 1 .. n - 1 /\ n \notin DOMAIN hooks
  BY <1>1 DEF LifeInv, LifeTypes, k
<1>7. /\ hooks' \in Seq(Hook) /\ DOMAIN hooks' = DOMAIN hooks \cup {n} /\ hooks'[n] = k
      /\ \A h \in DOMAIN hooks : hooks'[h] = hooks[h]
  BY <1>6, <1>3
<1> HIDE DEF n
<1>8. LifeTypes' BY <1>2, <1>6, <1>7 DEF LifeInv, LifeTypes, n
<1>9. now' = n BY <1>2 DEF n
<1>10. HooksKnown'
  <2>1. \A d \in Component : hookOf[d] # 0 =>
           /\ hookOf[d] \in DOMAIN hooks' /\ hooks'[hookOf[d]].on = d
           /\ hooks'[hookOf[d]].life \in {"attached", "removing"}
    BY <1>7 DEF LifeInv, HooksKnown
  <2>2. \A h \in DOMAIN hooks' :
       /\ hooks'[h].life \in {"attached", "removing"} => hookOf[hooks'[h].on] = h
       /\ hooks'[h].life \in {"initializing", "abandoned"} => hookOf[hooks'[h].on] = 0
       /\ hooks'[h].life \in {"initializing", "removing", "abandoned"} => n = h
    <3> SUFFICES ASSUME NEW h \in DOMAIN hooks \cup {n} PROVE
       /\ hooks'[h].life \in {"attached", "removing"} => hookOf[hooks'[h].on] = h
       /\ hooks'[h].life \in {"initializing", "abandoned"} => hookOf[hooks'[h].on] = 0
       /\ hooks'[h].life \in {"initializing", "removing", "abandoned"} => n = h
      BY <1>7
    <3>1. CASE h = n BY <3>1, <1>1, <1>3, <1>7
    <3>2. CASE h \in DOMAIN hooks
      <4>1. h # 0 BY <3>2, <1>6
      <4> QED BY <4>1, <3>2, <1>1, <1>7 DEF LifeInv, HooksKnown
    <3> QED BY <3>1, <3>2
  <2> QED BY <2>1, <2>2, <1>2, <1>3, <1>7, <1>9 DEF HooksKnown
<1>11. Forwards'
  <2>1. \A d \in Component : forward[d] # 0 =>
       /\ forward[d] \in DOMAIN hooks' /\ hooks'[forward[d]].on = d
       /\ hooks'[forward[d]].life # "lost" => "patches" \in hooks'[forward[d]].open
    BY <1>7 DEF LifeInv, Forwards
  <2>2. \A h \in DOMAIN hooks' : "patches" \in hooks'[h].open /\ hooks'[h].was # 0 =>
       /\ hooks'[h].was \in DOMAIN hooks' /\ hooks'[hooks'[h].was].on = hooks'[h].on
       /\ hooks'[hooks'[h].was].life = "lost"
    BY <1>3, <1>7 DEF LifeInv, Forwards
  <2> QED BY <2>1, <2>2, <1>2 DEF Forwards
<1>12. FilesThere' BY <1>2, <1>3, <1>5, <1>7 DEF LifeInv, FilesThere
<1>13. \A h \in DOMAIN hooks' : Lived(hooks'[h]) BY <1>4, <1>7 DEF LifeInv
<1> QED BY <1>8, <1>10, <1>11, <1>12, <1>13 DEF LifeInv

------------------------------------------------------------------------------
(* What is left of a step on the hook at hand, once its record is known.   *)
LEMMA HookIs ==
  ASSUME LifeInv, now # 0, NEW k \in Hook, hooks' = [hooks EXCEPT ![now] = k]
  PROVE  /\ hooks' \in Seq(Hook) /\ DOMAIN hooks' = DOMAIN hooks /\ hooks'[now] = k
         /\ \A h \in DOMAIN hooks : h # now => hooks'[h] = hooks[h]
<1>1. now \in DOMAIN hooks /\ hooks \in Seq(Hook) BY AtHand DEF LifeInv, LifeTypes
<1> QED BY <1>1, OneHookChanges

LEMMA RegisteredAfter ==
  ASSUME LifeInv, now # 0, NEW k \in Hook, hooks' = [hooks EXCEPT ![now] = k], k.on = Current.on,
         \A d \in Component : d # Current.on => hookOf'[d] = hookOf[d],
         \/ k.life = "attached" /\ hookOf'[k.on] = now /\ now' = 0
         \/ k.life = "removing" /\ hookOf'[k.on] = now /\ now' = now
         \/ k.life \in {"removed", "lost"} /\ hookOf'[k.on] = 0 /\ now' = 0
         \/ k.life \in {"initializing", "abandoned"} /\ hookOf'[k.on] = 0 /\ now' = now
  PROVE  HooksKnown'
<1>1. /\ now \in DOMAIN hooks /\ now \in Nat \ {0} /\ Current = hooks[now] /\ Current.on \in Component
      /\ Current.life \in {"initializing", "removing", "abandoned"}
  BY AtHand
<1>2. /\ DOMAIN hooks' = DOMAIN hooks /\ hooks'[now] = k
      /\ \A h \in DOMAIN hooks : h # now => hooks'[h] = hooks[h]
  BY HookIs
<1>3. \A h \in DOMAIN hooks : h \in Nat \ {0} /\ hooks[h].on \in Component
  <2>1. hooks \in Seq(Hook) BY DEF LifeInv, LifeTypes
  <2>2. \A h \in DOMAIN hooks : h \in Nat \ {0} /\ hooks[h] \in Hook BY <2>1
  <2> QED BY <2>2 DEF Hook
<1>4. ASSUME NEW h \in DOMAIN hooks, h # now
      PROVE  /\ hooks[h].life \notin {"initializing", "removing", "abandoned"}
             /\ hooks[h].life = "attached" => hooks[h].on # Current.on
  BY <1>1, <1>3, <1>4 DEF LifeInv, HooksKnown
<1>5. \A d \in Component : hookOf'[d] # 0 =>
        /\ hookOf'[d] \in DOMAIN hooks' /\ hooks'[hookOf'[d]].on = d
        /\ hooks'[hookOf'[d]].life \in {"attached", "removing"}
  <2> SUFFICES ASSUME NEW d \in Component, hookOf'[d] # 0
               PROVE  /\ hookOf'[d] \in DOMAIN hooks /\ hooks'[hookOf'[d]].on = d
                      /\ hooks'[hookOf'[d]].life \in {"attached", "removing"}
    BY <1>2
  <2>1. CASE d = Current.on BY <2>1, <1>1, <1>2
  <2>2. CASE d # Current.on
    <3>1. hookOf[d] \in DOMAIN hooks /\ hooks[hookOf[d]].on = d /\ hooks[hookOf[d]].life \in {"attached", "removing"}
      BY <2>2 DEF LifeInv, HooksKnown
    <3> QED BY <3>1, <2>2, <1>1, <1>2
  <2> QED BY <2>1, <2>2
<1>6. \A h \in DOMAIN hooks' :
        /\ hooks'[h].life \in {"attached", "removing"} => hookOf'[hooks'[h].on] = h
        /\ hooks'[h].life \in {"initializing", "abandoned"} => hookOf'[hooks'[h].on] = 0
        /\ hooks'[h].life \in {"initializing", "removing", "abandoned"} => now' = h
  <2> SUFFICES ASSUME NEW h \in DOMAIN hooks PROVE
        /\ hooks'[h].life \in {"attached", "removing"} => hookOf'[hooks'[h].on] = h
        /\ hooks'[h].life \in {"initializing", "abandoned"} => hookOf'[hooks'[h].on] = 0
        /\ hooks'[h].life \in {"initializing", "removing", "abandoned"} => now' = h
    BY <1>2
  <2>1. CASE h = now BY <2>1, <1>2
  <2>2. CASE h # now
    <3>1. hooks[h].life = "attached" => hookOf[hooks[h].on] = h BY DEF LifeInv, HooksKnown
    <3> QED BY <3>1, <2>2, <1>2, <1>3, <1>4
  <2> QED BY <2>1, <2>2
<1>7. now' # 0 => now' \in DOMAIN hooks' /\ hooks'[now'].life \in {"initializing", "removing", "abandoned"}
  BY <1>1, <1>2
<1> QED BY <1>5, <1>6, <1>7 DEF HooksKnown

LEMMA ForwardsAfter ==
  ASSUME LifeInv, now # 0, NEW k \in Hook, hooks' = [hooks EXCEPT ![now] = k], k.on = Current.on,
         forward' = forward, "patches" \in Current.open <=> "patches" \in k.open,
         "patches" \in k.open => k.was = Current.was
  PROVE  Forwards'
<1>1. /\ now \in DOMAIN hooks /\ Current = hooks[now] /\ Current.life # "lost"
  BY AtHand
<1>2. /\ DOMAIN hooks' = DOMAIN hooks /\ hooks'[now] = k
      /\ \A h \in DOMAIN hooks : h # now => hooks'[h] = hooks[h]
  BY HookIs
<1>3. \A d \in Component : forward[d] # 0 =>
       /\ forward[d] \in DOMAIN hooks' /\ hooks'[forward[d]].on = d
       /\ hooks'[forward[d]].life # "lost" => "patches" \in hooks'[forward[d]].open
  BY <1>1, <1>2 DEF LifeInv, Forwards
<1>4. \A h \in DOMAIN hooks' : "patches" \in hooks'[h].open /\ hooks'[h].was # 0 =>
       /\ hooks'[h].was \in DOMAIN hooks' /\ hooks'[hooks'[h].was].on = hooks'[h].on
       /\ hooks'[hooks'[h].was].life = "lost"
  <2>1. \A h \in DOMAIN hooks : "patches" \in hooks'[h].open /\ hooks'[h].was # 0 =>
          /\ hooks'[h].on = hooks[h].on /\ hooks'[h].was = hooks[h].was /\ "patches" \in hooks[h].open
          /\ hooks[h].was # now
    BY <1>1, <1>2 DEF LifeInv, Forwards
  <2> QED BY <2>1, <1>2 DEF LifeInv, Forwards
<1> QED BY <1>3, <1>4 DEF Forwards

LEMMA FilesAfter ==
  ASSUME LifeInv, now # 0, NEW k \in Hook, hooks' = [hooks EXCEPT ![now] = k], k.on = Current.on, files' = files,
         k.open \subseteq Current.open \cup (IF Current.life = "initializing" THEN ToSet(Current.todo) ELSE {}),
         k.life = "initializing" => Current.life = "initializing" /\ ToSet(k.todo) \subseteq ToSet(Current.todo)
  PROVE  FilesThere'
<1>1. /\ now \in DOMAIN hooks /\ Current = hooks[now] /\ Current.life \notin {"removed", "lost"}
  BY AtHand
<1>2. /\ DOMAIN hooks' = DOMAIN hooks /\ hooks'[now] = k
      /\ \A h \in DOMAIN hooks : h # now => hooks'[h] = hooks[h]
  BY HookIs
<1>3. "files" \in k.open \cup (IF k.life = "initializing" THEN ToSet(k.todo) ELSE {}) => k.on \in files
  <2>1. "files" \in Current.open \cup (IF Current.life = "initializing" THEN ToSet(Current.todo) ELSE {})
          => Current.on \in files
    BY <1>1 DEF LifeInv, FilesThere
  <2> QED BY <2>1
<1> QED BY <1>1, <1>2, <1>3 DEF LifeInv, FilesThere

LEMMA LivedAfter ==
  ASSUME LifeInv, now # 0, NEW k \in Hook, hooks' = [hooks EXCEPT ![now] = k], Lived(k)
  PROVE  \A h \in DOMAIN hooks' : Lived(hooks'[h])
BY HookIs DEF LifeInv

------------------------------------------------------------------------------
(* The steps of an initialization *)
LEMMA OpenNextKeeps == ASSUME LifeInv, OpenNext PROVE LifeInv'
<1>1. /\ now # 0 /\ Current.life = "initializing" /\ Current.todo # <<>> /\ UNCHANGED <<hookOf, files, now>>
      /\ forward' = IF Step = "patches" THEN [forward EXCEPT ![Current.on] = now] ELSE forward
  BY DEF OpenNext, Doing
<1>2. /\ now \in DOMAIN hooks /\ now \in Nat \ {0} /\ Current \in Hook /\ Current = hooks[now] /\ Lived(Current)
      /\ Current.on \in Component /\ Current.todo \in Seq(Steps)
  BY <1>1, AtHand
<1>3. Starting(Current) BY <1>1, <1>2 DEF Lived
<1>4. /\ Tail(Current.todo) \in Seq(Steps) /\ Step \in ToSet(Current.todo) /\ Step \in Steps /\ Step = Current.todo[1]
      /\ \A i \in DOMAIN Tail(Current.todo) : i + 1 \in DOMAIN Current.todo /\ Tail(Current.todo)[i] = Current.todo[i + 1]
      /\ ToSet(Current.todo) \subseteq {Step} \cup ToSet(Tail(Current.todo))
      /\ ToSet(Tail(Current.todo)) \subseteq ToSet(Current.todo)
      /\ 1 \in DOMAIN Current.todo
  <2>1. 1 \in DOMAIN Current.todo BY <1>1, <1>2
  <2> QED BY <2>1, <1>1, <1>2, Rest DEF Step
<1> DEFINE reads == Current.reads \/ (Step \in {"arena", "store"} /\ "files" \in Current.open)
           open  == Current.open \cup ({Step} \cap Resources)
           was   == IF Step = "patches" THEN forward[Current.on] ELSE Current.was
           k     == [[[[Current EXCEPT !.todo = Tail(Current.todo)] EXCEPT !.open = open] EXCEPT !.was = was] EXCEPT !.reads = reads]
<1>5. hooks' = [hooks EXCEPT ![now] = k]
  BY <1>2 DEF OpenNext, LifeInv, LifeTypes, Current
<1>6. forward[Current.on] \in Nat BY <1>2 DEF LifeInv, LifeTypes
<1>7. /\ k \in Hook /\ k.on = Current.on /\ k.life = "initializing" /\ k.todo = Tail(Current.todo) /\ k.open = open
      /\ k.was = was /\ k.reads = reads /\ k.failed = Current.failed
  <2>1. reads \in BOOLEAN /\ open \in SUBSET Resources /\ was \in Nat BY <1>2, <1>6 DEF Hook
  <2> HIDE DEF reads, open, was
  <2> QED BY <2>1, <1>1, <1>2, <1>4 DEF Hook
<1> HIDE DEF k
<1>8. /\ hooks' \in Seq(Hook) /\ DOMAIN hooks' = DOMAIN hooks /\ hooks'[now] = k
      /\ \A h \in DOMAIN hooks : h # now => hooks'[h] = hooks[h]
  BY <1>1, <1>5, <1>7, HookIs
<1>9. LifeTypes' BY <1>1, <1>2, <1>8 DEF LifeInv, LifeTypes
<1>10. hookOf[Current.on] = 0 BY <1>1, <1>2 DEF LifeInv, HooksKnown
<1>11. HooksKnown' BY <1>1, <1>5, <1>7, <1>10, RegisteredAfter
<1>12. Forwards'
  <2>1. CASE Step # "patches" BY <2>1, <1>1, <1>5, <1>7, ForwardsAfter
  <2>2. CASE Step = "patches"
    <3> DEFINE f == forward[Current.on]
    <3>1. "patches" \notin Current.open BY <2>2, <1>3, <1>4 DEF Starting
    <3>2. f # 0 => f \in DOMAIN hooks /\ f # now /\ hooks[f].on = Current.on /\ hooks[f].life = "lost"
      <4> SUFFICES ASSUME f # 0 PROVE f \in DOMAIN hooks /\ f # now /\ hooks[f].on = Current.on /\ hooks[f].life = "lost"
        OBVIOUS
      <4>1. /\ f \in DOMAIN hooks /\ hooks[f].on = Current.on
            /\ hooks[f].life # "lost" => "patches" \in hooks[f].open
        BY <1>2 DEF LifeInv, Forwards
      <4>2. hooks[f] \in Hook /\ f \in Nat \ {0} BY <4>1 DEF LifeInv, LifeTypes
      <4>3. hooks[f].life = "lost" => f # now BY <1>1, <1>2
      <4>4. CASE hooks[f].life # "lost"
        <5>1. "patches" \in hooks[f].open /\ f # now BY <4>1, <4>4, <3>1, <1>2
        <5>2. hooks[f].life # "removed" BY <5>1, <4>1 DEF LifeInv, Lived, Excused
        <5>3. hooks[f].life \in {"initializing", "attached", "removing", "abandoned"}
          BY <5>2, <4>2, <4>4 DEF Hook, Lives
        <5> QED BY <5>1, <5>3, <4>1, <4>2, <1>10 DEF LifeInv, HooksKnown
      <4> QED BY <4>1, <4>3, <4>4
    <3>3. k.was = f /\ forward' = [forward EXCEPT ![Current.on] = now] BY <2>2, <1>1, <1>7
    <3> HIDE DEF f
    <3>4. "patches" \in k.open BY <2>2, <1>7 DEF Resources
    <3>5. \A d \in Component : forward'[d] # 0 =>
             /\ forward'[d] \in DOMAIN hooks' /\ hooks'[forward'[d]].on = d
             /\ hooks'[forward'[d]].life # "lost" => "patches" \in hooks'[forward'[d]].open
      <4> SUFFICES ASSUME NEW d \in Component, forward'[d] # 0
                   PROVE  /\ forward'[d] \in DOMAIN hooks' /\ hooks'[forward'[d]].on = d
                          /\ hooks'[forward'[d]].life # "lost" => "patches" \in hooks'[forward'[d]].open
        OBVIOUS
      <4>1. CASE d = Current.on
        <5>1. forward'[d] = now BY <4>1, <3>3, <1>2 DEF LifeInv, LifeTypes
        <5> QED BY <5>1, <4>1, <3>4, <1>2, <1>7, <1>8
      <4>2. CASE d # Current.on
        <5>1. forward'[d] = forward[d] BY <4>2, <3>3 DEF LifeInv, LifeTypes
        <5>2. /\ forward[d] \in DOMAIN hooks /\ hooks[forward[d]].on = d
              /\ hooks[forward[d]].life # "lost" => "patches" \in hooks[forward[d]].open
          BY <5>1 DEF LifeInv, Forwards
        <5>3. forward[d] # now BY <5>2, <4>2, <1>2
        <5> QED BY <5>1, <5>2, <5>3, <1>8
      <4> QED BY <4>1, <4>2
    <3>6. \A h \in DOMAIN hooks' : "patches" \in hooks'[h].open /\ hooks'[h].was # 0 =>
             /\ hooks'[h].was \in DOMAIN hooks' /\ hooks'[hooks'[h].was].on = hooks'[h].on
             /\ hooks'[hooks'[h].was].life = "lost"
      <4> SUFFICES ASSUME NEW h \in DOMAIN hooks, "patches" \in hooks'[h].open, hooks'[h].was # 0
                   PROVE  /\ hooks'[h].was \in DOMAIN hooks /\ hooks'[hooks'[h].was].on = hooks'[h].on
                          /\ hooks'[hooks'[h].was].life = "lost"
        BY <1>8
      <4>1. CASE h = now BY <4>1, <3>2, <3>3, <1>7, <1>8
      <4>2. CASE h # now
        <5>1. /\ hooks[h].was \in DOMAIN hooks /\ hooks[hooks[h].was].on = hooks[h].on
              /\ hooks[hooks[h].was].life = "lost" /\ hooks'[h] = hooks[h]
          BY <4>2, <1>8 DEF LifeInv, Forwards
        <5>2. hooks[h].was # now BY <5>1, <1>1, <1>2
        <5> QED BY <5>1, <5>2, <1>8
      <4> QED BY <4>1, <4>2
    <3> QED BY <3>5, <3>6 DEF Forwards
  <2> QED BY <2>1, <2>2
<1>13. FilesThere' BY <1>1, <1>4, <1>5, <1>7, FilesAfter
<1>14. Lived(k)
  <2>1. Once(Tail(Current.todo)) /\ (Step = "patches" => "patches" \notin ToSet(Tail(Current.todo)))
    <3>1. Once(Current.todo) BY <1>3 DEF Starting
    <3>2. \A i \in DOMAIN Tail(Current.todo) : i \in Nat \ {0} BY <1>4
    <3>3. Once(Tail(Current.todo)) BY <3>1, <3>2, <1>4 DEF Once
    <3>4. ASSUME Step = "patches", NEW i \in DOMAIN Tail(Current.todo), Tail(Current.todo)[i] = "patches" PROVE FALSE
      <4>1. 1 = i + 1 BY <3>1, <3>4, <1>4 DEF Once
      <4> QED BY <4>1, <3>2
    <3> QED BY <3>3, <3>4 DEF ToSet
  <2>2. "patches" \in ToSet(k.todo) => "patches" \notin k.open
    BY <2>1, <1>3, <1>4, <1>7 DEF Starting
  <2>3. k.open \cup ToSet(k.todo) \subseteq Current.open \cup ToSet(Current.todo) BY <1>4, <1>7
  <2>4. "active" \in Current.open \cup ToSet(Current.todo) => "active" \in k.open \cup ToSet(k.todo)
    BY <1>4, <1>7 DEF Resources
  <2>6. k.reads => "files" \in k.open BY <1>3, <1>7 DEF Starting
  <2>5. Starting(k) BY <2>1, <2>2, <2>3, <2>4, <2>6, <1>3, <1>7 DEF Starting
  <2> QED BY <2>5, <2>6, <1>7 DEF Lived
<1>15. \A h \in DOMAIN hooks' : Lived(hooks'[h]) BY <1>1, <1>5, <1>7, <1>14, LivedAfter
<1> QED BY <1>9, <1>11, <1>12, <1>13, <1>15 DEF LifeInv

LEMMA OpenRaisesKeeps == ASSUME LifeInv, OpenRaises PROVE LifeInv'
<1>1. /\ now # 0 /\ Current.life = "initializing" /\ UNCHANGED <<hookOf, forward, files>>
      /\ now' = IF Step = "reclaim" THEN now ELSE 0
  BY DEF OpenRaises, Doing
<1>2. /\ now \in DOMAIN hooks /\ now \in Nat \ {0} /\ Current \in Hook /\ Current = hooks[now] /\ Lived(Current)
      /\ Current.on \in Component
  BY <1>1, AtHand
<1> DEFINE life == IF Step = "reclaim" THEN "abandoned" ELSE "lost"
           todo == IF Step = "reclaim" THEN CloseStore ELSE <<>>
           k    == [[Current EXCEPT !.life = life] EXCEPT !.todo = todo]
<1>3. hooks' = [hooks EXCEPT ![now] = k]
  BY <1>2 DEF OpenRaises, LifeInv, LifeTypes, Current
<1>4. /\ k \in Hook /\ k.on = Current.on /\ k.life = life /\ k.todo = todo /\ k.open = Current.open
      /\ k.was = Current.was /\ k.reads = Current.reads /\ k.failed = Current.failed
  <2>1. life \in Lives /\ todo \in Seq(Steps) BY CloseOrder DEF Lives
  <2> HIDE DEF life, todo
  <2> QED BY <2>1, <1>2 DEF Hook
<1> HIDE DEF k
<1>5. hooks' \in Seq(Hook) BY <1>1, <1>3, <1>4, HookIs
<1>6. LifeTypes' BY <1>1, <1>2, <1>5 DEF LifeInv, LifeTypes
<1>7. hookOf[Current.on] = 0 BY <1>1, <1>2 DEF LifeInv, HooksKnown
<1>8. HooksKnown'
  <2>1. CASE Step = "reclaim" BY <2>1, <1>1, <1>3, <1>4, <1>7, RegisteredAfter
  <2>2. CASE Step # "reclaim" BY <2>2, <1>1, <1>3, <1>4, <1>7, RegisteredAfter
  <2> QED BY <2>1, <2>2
<1>9. Forwards' BY <1>1, <1>3, <1>4, ForwardsAfter
<1>10. FilesThere' BY <1>1, <1>3, <1>4, FilesAfter
<1>11. Lived(k)
  <2>1. CASE Step # "reclaim" BY <2>1, <1>4 DEF Lived
  <2>2. CASE Step = "reclaim"
    <3>0. k.todo = CloseStore BY <2>2, <1>4
    <3>1. /\ Len(k.todo) \in 7 .. 7
          /\ \A i \in 1 .. 7 : k.todo[i] = Release[4 + i] /\ i \in DOMAIN k.todo
      BY <3>0, CloseOrder
    <3>2. \A i \in 1 .. Len(k.todo) : k.todo[i] = Release[11 - Len(k.todo) + i]
      <4> DEFINE n == Len(k.todo)
      <4>1. n \in 7 .. 7 BY <3>1
      <4> HIDE DEF n
      <4>2. \A i \in 1 .. n : i \in 1 .. 7 /\ 11 - n + i = 4 + i BY <4>1
      <4> QED BY <4>2, <3>1 DEF n
    <3>3. k.open \cap {"arena", "store", "files"} \subseteq ToSet(k.todo)
      <4>1. 2 \in 1 .. 7 /\ 3 \in 1 .. 7 /\ 7 \in 1 .. 7 OBVIOUS
      <4> QED BY <3>1, <4>1, ReleaseOrder DEF ToSet
    <3>4. Len(k.todo) <= 11 /\ k.life # "removing"
      <4>1. \A m \in 7 .. 7 : m <= 11 OBVIOUS
      <4>2. Len(k.todo) <= 11 BY <4>1, <3>1
      <4> QED BY <4>2, <2>2, <1>4
    <3>5. Closing(k) BY <3>2, <3>3, <3>4 DEF Closing
    <3> QED BY <3>5, <2>2, <1>1, <1>2, <1>4 DEF Lived
  <2> QED BY <2>1, <2>2
<1>12. \A h \in DOMAIN hooks' : Lived(hooks'[h]) BY <1>1, <1>3, <1>4, <1>11, LivedAfter
<1> QED BY <1>6, <1>8, <1>9, <1>10, <1>12 DEF LifeInv

LEMMA RegisterHookKeeps == ASSUME LifeInv, RegisterHook PROVE LifeInv'
<1>1. /\ now # 0 /\ Current.life = "initializing" /\ Current.todo = <<>> /\ UNCHANGED <<forward, files>>
      /\ now' = 0 /\ hookOf' = [hookOf EXCEPT ![Current.on] = now]
  BY DEF RegisterHook, Doing
<1>2. /\ now \in DOMAIN hooks /\ now \in Nat \ {0} /\ Current \in Hook /\ Current = hooks[now] /\ Lived(Current)
      /\ Current.on \in Component
  BY <1>1, AtHand
<1> DEFINE k == [Current EXCEPT !.life = "attached"]
<1>3. hooks' = [hooks EXCEPT ![now] = k]
  BY <1>2 DEF RegisterHook, LifeInv, LifeTypes, Current
<1>4. /\ k \in Hook /\ k.on = Current.on /\ k.life = "attached" /\ k.open = Current.open
      /\ k.was = Current.was /\ k.reads = Current.reads /\ k.failed = Current.failed
  BY <1>2 DEF Hook, Lives
<1> HIDE DEF k
<1>5. hooks' \in Seq(Hook) BY <1>1, <1>3, <1>4, HookIs
<1>6. LifeTypes' BY <1>1, <1>2, <1>5 DEF LifeInv, LifeTypes
<1>7. hookOf'[Current.on] = now /\ \A d \in Component : d # Current.on => hookOf'[d] = hookOf[d]
  BY <1>1, <1>2 DEF LifeInv, LifeTypes
<1>8. HooksKnown' BY <1>1, <1>3, <1>4, <1>7, RegisteredAfter
<1>9. Forwards' BY <1>1, <1>3, <1>4, ForwardsAfter
<1>10. FilesThere' BY <1>1, <1>3, <1>4, FilesAfter
<1>11. Lived(k)
  <2>1. Starting(Current) /\ ToSet(Current.todo) = {} BY <1>1, <1>2 DEF Lived, ToSet
  <2>2. Standing(k) BY <2>1, <1>2, <1>4 DEF Starting, Standing, Hook
  <2> QED BY <2>2, <1>1, <1>2, <1>4 DEF Lived
<1>12. \A h \in DOMAIN hooks' : Lived(hooks'[h]) BY <1>1, <1>3, <1>4, <1>11, LivedAfter
<1> QED BY <1>6, <1>8, <1>9, <1>10, <1>12 DEF LifeInv

------------------------------------------------------------------------------
(* The steps of a removal *)
LEMMA ClosingGoesOn ==
  ASSUME NEW k \in Hook, Closing(k), Lived(k), k.todo # <<>>, k.life \in {"removing", "abandoned"},
         NEW l \in Hook, l.life = k.life, l.failed = k.failed, l.reads = k.reads,
         l.open = k.open \ {Head(k.todo)},
         l.todo = IF Head(k.todo) = "active" /\ k.open \cap {"active", "store", "arena"} = {} THEN <<>> ELSE Tail(k.todo)
  PROVE  Lived(l)
<1> DEFINE n == Len(k.todo)
           step == Head(k.todo)
<1>1. /\ n \in 1 .. 11 /\ step = Release[12 - n]
      /\ step = "files" => n = 1
      /\ step = "active" <=> n = 7
      /\ n >= 8 <=> step \in {"groups", "executor", "leases", "patches"}
      /\ "patches" \in ToSet(k.todo) => n >= 8
  BY InOrder
<1>2. /\ Tail(k.todo) \in Seq(Steps) /\ Len(Tail(k.todo)) = n - 1 /\ k.todo \in Seq(Steps)
      /\ DOMAIN k.todo = 1 .. n /\ DOMAIN Tail(k.todo) = 1 .. n - 1
      /\ \A i \in 1 .. n - 1 : Tail(k.todo)[i] = k.todo[i + 1]
      /\ ToSet(k.todo) \subseteq {step} \cup ToSet(Tail(k.todo))
  <2>1. k.todo \in Seq(Steps) BY DEF Hook
  <2>2. DOMAIN k.todo = 1 .. n /\ DOMAIN Tail(k.todo) = 1 .. Len(Tail(k.todo)) BY <2>1, Rest
  <2> QED BY <2>1, <2>2, Rest
<1>3. \A i \in 1 .. n : k.todo[i] = Release[11 - n + i] BY DEF Closing
<1>4. k.reads /\ k.open \cap {"arena", "store"} # {} => "files" \in k.open BY DEF Lived
<1>5. k.open \cap {"arena", "store", "files"} \subseteq ToSet(k.todo) BY DEF Closing
<1>6. k.life = "removing" => k.open \subseteq ToSet(k.todo) /\ (n >= 7 => Standing(k)) BY DEF Closing
<1> HIDE DEF n, step
<1>7. l.reads /\ l.open \cap {"arena", "store"} # {} => "files" \in l.open
  <2>1. CASE step # "files" BY <2>1, <1>4 DEF step
  <2>2. CASE step = "files"
    <3>1. ToSet(Tail(k.todo)) = {} BY <2>2, <1>1, <1>2 DEF ToSet
    <3> QED BY <3>1, <2>2, <1>2, <1>5
  <2> QED BY <2>1, <2>2
<1>8. Closing(l)
  <2>1. CASE step = "active" /\ k.open \cap {"active", "store", "arena"} = {}
    <3>1. l.todo = <<>> /\ l.open = k.open BY <2>1 DEF step
    <3>2. l.life = "removing" => l.open \subseteq {} \/ Excused(l)
      <4> SUFFICES ASSUME k.life = "removing" PROVE k.open \subseteq {} \/ Excused(l) BY <3>1
      <4>1. Standing(k) /\ k.open \subseteq ToSet(k.todo) BY <2>1, <1>1, <1>6
      <4>2. "patches" \notin ToSet(k.todo) BY <2>1, <1>1
      <4>3. CASE Excused(k) BY <4>3, <3>1 DEF Excused
      <4>4. CASE k.open \subseteq {"patches"} BY <4>1, <4>2, <4>4
      <4> QED BY <4>1, <4>3, <4>4, <2>1 DEF Standing
    <3>3. ToSet(<<>>) = {} /\ Len(<<>>) = 0 BY DEF ToSet
    <3>4. \A m \in {0} : ~(m >= 7) /\ m <= 11 /\ 1 .. m = {} OBVIOUS
    <3>5. ~(Len(l.todo) >= 7) /\ Len(l.todo) <= 11 /\ 1 .. Len(l.todo) = {} BY <3>1, <3>3, <3>4
    <3>6. l.open \cap {"arena", "store"} = {} BY <3>1, <2>1
    <3>7. l.life = "removing" => l.open \subseteq ToSet(l.todo) \/ (l.todo = <<>> /\ Excused(l))
      BY <3>1, <3>2, <3>3
    <3> QED BY <3>1, <3>5, <3>6, <3>7 DEF Closing
  <2>2. CASE ~(step = "active" /\ k.open \cap {"active", "store", "arena"} = {})
    <3>1. l.todo = Tail(k.todo) BY <2>2 DEF step
    <3>2. Len(l.todo) <= 11 /\ \A i \in 1 .. Len(l.todo) : l.todo[i] = Release[11 - Len(l.todo) + i]
      <4>1. \A i \in 1 .. n - 1 : i + 1 \in 1 .. n /\ 11 - n + (i + 1) = 11 - (n - 1) + i BY <1>1
      <4>2. n - 1 <= 11 BY <1>1
      <4>3. \A i \in 1 .. n - 1 : Tail(k.todo)[i] = Release[11 - (n - 1) + i]
        <5> SUFFICES ASSUME NEW i \in 1 .. n - 1 PROVE Tail(k.todo)[i] = Release[11 - (n - 1) + i] OBVIOUS
        <5>1. Tail(k.todo)[i] = k.todo[i + 1] BY <1>2
        <5>2. k.todo[i + 1] = Release[11 - n + (i + 1)] BY <4>1, <1>3
        <5> QED BY <5>1, <5>2, <4>1
      <4> QED BY <4>2, <4>3, <3>1, <1>2
    <3>3. l.open \cap {"arena", "store", "files"} \subseteq ToSet(l.todo) BY <3>1, <1>2, <1>5 DEF step
    <3>4. l.life = "removing" => l.open \subseteq ToSet(l.todo) BY <3>1, <1>2, <1>6 DEF step
    <3>5. ASSUME l.life = "removing", Len(l.todo) >= 7 PROVE Standing(l)
      <4>1. n >= 8 BY <3>1, <3>5, <1>1, <1>2
      <4>2. Standing(k) /\ step \in {"groups", "executor", "leases", "patches"} BY <4>1, <3>5, <1>1, <1>6
      <4>3. l.open = k.open \ {step} BY DEF step
      <4>4. CASE k.open \cap {"active", "arena", "store"} # {} BY <4>2, <4>3, <4>4 DEF Standing
      <4>5. CASE k.open \subseteq {"patches"} BY <4>3, <4>5 DEF Standing
      <4>6. CASE Excused(k) BY <4>3, <4>6 DEF Standing, Excused
      <4> QED BY <4>2, <4>4, <4>5, <4>6 DEF Standing
    <3> QED BY <3>2, <3>3, <3>4, <3>5 DEF Closing
  <2> QED BY <2>1, <2>2
<1> QED BY <1>7, <1>8 DEF Lived

LEMMA CloseNextKeeps == ASSUME LifeInv, CloseNext PROVE LifeInv'
<1>1. /\ now # 0 /\ Current.life \in {"removing", "abandoned"} /\ Current.todo # <<>> /\ UNCHANGED <<hookOf, now>>
      /\ forward' = IF Step = "patches" /\ Opened THEN [forward EXCEPT ![Current.on] = Current.was] ELSE forward
      /\ files' = IF Step = "files" /\ Opened THEN files \ {Current.on} ELSE files
  BY DEF CloseNext, Doing
<1>2. /\ now \in DOMAIN hooks /\ now \in Nat \ {0} /\ Current \in Hook /\ Current = hooks[now] /\ Lived(Current)
      /\ Current.on \in Component /\ Current.todo \in Seq(Steps)
  BY <1>1, AtHand
<1>3. Closing(Current) BY <1>1, <1>2 DEF Lived
<1> DEFINE todo == IF CountsAsClosed THEN <<>> ELSE Tail(Current.todo)
           open == Current.open \ {Step}
           was  == IF Step = "patches" THEN 0 ELSE Current.was
           k    == [[[Current EXCEPT !.todo = todo] EXCEPT !.open = open] EXCEPT !.was = was]
<1>5. hooks' = [hooks EXCEPT ![now] = k]
  BY <1>2 DEF CloseNext, LifeInv, LifeTypes, Current
<1>6. todo \in Seq(Steps) BY <1>1, <1>2, Rest
<1>7. /\ k \in Hook /\ k.on = Current.on /\ k.life = Current.life /\ k.todo = todo /\ k.open = open
      /\ k.was = was /\ k.reads = Current.reads /\ k.failed = Current.failed
  <2>1. open \in SUBSET Resources /\ was \in Nat BY <1>2 DEF Hook
  <2> HIDE DEF todo, open, was
  <2> QED BY <2>1, <1>6, <1>2 DEF Hook
<1> HIDE DEF k
<1>8. /\ hooks' \in Seq(Hook) /\ DOMAIN hooks' = DOMAIN hooks /\ hooks'[now] = k
      /\ \A h \in DOMAIN hooks : h # now => hooks'[h] = hooks[h]
  BY <1>1, <1>5, <1>7, HookIs
<1>9. LifeTypes'
  <2>1. Current.was \in Nat BY <1>2 DEF Hook
  <2> QED BY <2>1, <1>1, <1>2, <1>8 DEF LifeInv, LifeTypes
<1>10. HooksKnown'
  <2>1. Current.life = "removing" => hookOf[Current.on] = now BY <1>2 DEF LifeInv, HooksKnown
  <2>2. Current.life = "abandoned" => hookOf[Current.on] = 0 BY <1>2 DEF LifeInv, HooksKnown
  <2> QED BY <2>1, <2>2, <1>1, <1>5, <1>7, RegisteredAfter
<1>12. Forwards'
  <2>1. CASE ~(Step = "patches" /\ Opened)
    <3>1. /\ forward' = forward
          /\ "patches" \in Current.open <=> "patches" \in k.open
          /\ "patches" \in k.open => k.was = Current.was
      BY <2>1, <1>1, <1>7 DEF Opened
    <3>2. now # 0 /\ k \in Hook /\ k.on = Current.on BY <1>1, <1>7
    <3> QED BY <3>1, <3>2, <1>5, ForwardsAfter
  <2>2. CASE Step = "patches" /\ Opened
    <3> DEFINE f == Current.was
    <3>2. f # 0 => f \in DOMAIN hooks /\ f # now /\ hooks[f].on = Current.on /\ hooks[f].life = "lost"
      BY <2>2, <1>1, <1>2 DEF LifeInv, Forwards, Opened
    <3>3. forward' = [forward EXCEPT ![Current.on] = f] BY <2>2, <1>1
    <3>4. "patches" \notin k.open BY <2>2, <1>7
    <3> HIDE DEF f
    <3>5. \A d \in Component : forward'[d] # 0 =>
             /\ forward'[d] \in DOMAIN hooks' /\ hooks'[forward'[d]].on = d
             /\ hooks'[forward'[d]].life # "lost" => "patches" \in hooks'[forward'[d]].open
      <4> SUFFICES ASSUME NEW d \in Component, forward'[d] # 0
                   PROVE  /\ forward'[d] \in DOMAIN hooks' /\ hooks'[forward'[d]].on = d
                          /\ hooks'[forward'[d]].life # "lost" => "patches" \in hooks'[forward'[d]].open
        OBVIOUS
      <4>1. CASE d = Current.on
        <5>1. forward'[d] = f BY <4>1, <3>3, <1>2 DEF LifeInv, LifeTypes
        <5> QED BY <5>1, <4>1, <3>2, <1>8
      <4>2. CASE d # Current.on
        <5>1. forward'[d] = forward[d] BY <4>2, <3>3 DEF LifeInv, LifeTypes
        <5>2. /\ forward[d] \in DOMAIN hooks /\ hooks[forward[d]].on = d
              /\ hooks[forward[d]].life # "lost" => "patches" \in hooks[forward[d]].open
          BY <5>1 DEF LifeInv, Forwards
        <5>3. forward[d] # now BY <5>2, <4>2, <1>2
        <5> QED BY <5>1, <5>2, <5>3, <1>8
      <4> QED BY <4>1, <4>2
    <3>6. \A h \in DOMAIN hooks' : "patches" \in hooks'[h].open /\ hooks'[h].was # 0 =>
             /\ hooks'[h].was \in DOMAIN hooks' /\ hooks'[hooks'[h].was].on = hooks'[h].on
             /\ hooks'[hooks'[h].was].life = "lost"
      <4> SUFFICES ASSUME NEW h \in DOMAIN hooks, "patches" \in hooks'[h].open, hooks'[h].was # 0
                   PROVE  /\ hooks'[h].was \in DOMAIN hooks /\ hooks'[hooks'[h].was].on = hooks'[h].on
                          /\ hooks'[hooks'[h].was].life = "lost"
        BY <1>8
      <4>1. h # now BY <3>4, <1>8
      <4>2. /\ hooks[h].was \in DOMAIN hooks /\ hooks[hooks[h].was].on = hooks[h].on
            /\ hooks[hooks[h].was].life = "lost" /\ hooks'[h] = hooks[h]
        BY <4>1, <1>8 DEF LifeInv, Forwards
      <4>3. hooks[h].was # now BY <4>2, <1>1, <1>2
      <4> QED BY <4>2, <4>3, <1>8
    <3> QED BY <3>5, <3>6 DEF Forwards
  <2> QED BY <2>1, <2>2
<1>13. FilesThere'
  <2>1. CASE ~(Step = "files" /\ Opened)
    <3>1. files' = files /\ k.open \subseteq Current.open /\ k.life # "initializing" BY <2>1, <1>1, <1>7
    <3> QED BY <3>1, <1>1, <1>5, <1>7, FilesAfter
  <2>2. CASE Step = "files" /\ Opened
    <3>1. files' = files \ {Current.on} /\ "files" \notin k.open /\ k.life # "initializing" BY <2>2, <1>1, <1>7
    <3>2. ASSUME NEW h \in DOMAIN hooks, h # now, hooks[h].life \notin {"removed", "lost"}
          PROVE  hooks[h].on # Current.on
      <4>1. h \in Nat \ {0} /\ hooks[h] \in Hook
        <5>1. hooks \in Seq(Hook) BY DEF LifeInv, LifeTypes
        <5> QED BY <5>1, <3>2
      <4>2. hooks[h].life = "attached" /\ hookOf[hooks[h].on] = h
        <5>1. hooks[h].life \notin {"initializing", "removing", "abandoned"} BY <3>2 DEF LifeInv, HooksKnown
        <5>2. hooks[h].life = "attached" BY <5>1, <4>1, <3>2 DEF Hook, Lives
        <5> QED BY <5>2 DEF LifeInv, HooksKnown
      <4>3. hookOf[Current.on] \in {0, now} BY <1>1, <1>2 DEF LifeInv, HooksKnown
      <4> QED BY <4>1, <4>2, <4>3, <3>2
    <3>3. ASSUME NEW h \in DOMAIN hooks', hooks'[h].life \notin {"removed", "lost"},
                 "files" \in hooks'[h].open \cup (IF hooks'[h].life = "initializing" THEN ToSet(hooks'[h].todo) ELSE {})
          PROVE  hooks'[h].on \in files'
      <4>1. h # now /\ h \in DOMAIN hooks BY <3>1, <3>3, <1>8
      <4>2. hooks'[h] = hooks[h] BY <4>1, <1>8
      <4>3. hooks[h].on \in files BY <4>1, <4>2, <3>3 DEF LifeInv, FilesThere
      <4> QED BY <4>1, <4>2, <4>3, <3>1, <3>2, <3>3
    <3> QED BY <3>3 DEF FilesThere
  <2> QED BY <2>1, <2>2
<1>14. Lived(k)
  <2>1. k.open = Current.open \ {Head(Current.todo)} BY <1>7 DEF Step
  <2>2. k.todo = IF Head(Current.todo) = "active" /\ Current.open \cap {"active", "store", "arena"} = {} THEN <<>> ELSE Tail(Current.todo)
    BY <1>7 DEF Step, CountsAsClosed
  <2> QED BY <2>1, <2>2, <1>1, <1>2, <1>3, <1>7, ClosingGoesOn
<1>15. \A h \in DOMAIN hooks' : Lived(hooks'[h]) BY <1>1, <1>5, <1>7, <1>14, LivedAfter
<1> QED BY <1>9, <1>10, <1>12, <1>13, <1>15 DEF LifeInv

LEMMA CloseRaisesKeeps == ASSUME LifeInv, CloseRaises PROVE LifeInv'
<1>1. /\ now # 0 /\ Current.life \in {"removing", "abandoned"} /\ Current.todo # <<>> /\ UNCHANGED <<hookOf, forward, files>>
      /\ now' = 0 /\ MayRaise
  BY DEF CloseRaises, Doing
<1>2. /\ now \in DOMAIN hooks /\ now \in Nat \ {0} /\ Current \in Hook /\ Current = hooks[now] /\ Lived(Current)
      /\ Current.on \in Component /\ Current.todo \in Seq(Steps)
  BY <1>1, AtHand
<1>3. Closing(Current) BY <1>1, <1>2 DEF Lived
<1> DEFINE life == IF Current.life = "removing" THEN "attached" ELSE "lost"
           k    == [[[Current EXCEPT !.life = life] EXCEPT !.todo = <<>>] EXCEPT !.failed = Step]
<1>4. hooks' = [hooks EXCEPT ![now] = k]
  BY <1>2 DEF CloseRaises, LifeInv, LifeTypes, Current
<1>5. /\ k \in Hook /\ k.on = Current.on /\ k.life = life /\ k.todo = <<>> /\ k.open = Current.open
      /\ k.was = Current.was /\ k.reads = Current.reads /\ k.failed = Step
  <2>1. life \in Lives /\ <<>> \in Seq(Steps) BY DEF Lives
  <2>2. Step \in Steps \cup {"nothing"} BY <1>1, <1>2, Rest DEF Step
  <2> HIDE DEF life
  <2> QED BY <2>1, <2>2, <1>2 DEF Hook
<1> HIDE DEF k
<1>6. hooks' \in Seq(Hook) BY <1>1, <1>4, <1>5, HookIs
<1>7. LifeTypes' BY <1>1, <1>2, <1>6 DEF LifeInv, LifeTypes
<1>8. HooksKnown'
  <2>1. Current.life = "removing" => hookOf[Current.on] = now BY <1>2 DEF LifeInv, HooksKnown
  <2>2. Current.life = "abandoned" => hookOf[Current.on] = 0 BY <1>2 DEF LifeInv, HooksKnown
  <2>3. \/ k.life = "attached" /\ hookOf'[k.on] = now /\ now' = 0
        \/ k.life \in {"removed", "lost"} /\ hookOf'[k.on] = 0 /\ now' = 0
    BY <2>1, <2>2, <1>1, <1>5
  <2>4. \A d \in Component : hookOf'[d] = hookOf[d] BY <1>1
  <2>5. now # 0 /\ k \in Hook /\ k.on = Current.on BY <1>1, <1>5
  <2> QED BY <2>3, <2>4, <2>5, <1>4, RegisteredAfter
<1>9. Forwards'
  <2>1. now # 0 /\ k \in Hook /\ k.on = Current.on /\ k.open = Current.open /\ k.was = Current.was /\ forward' = forward
    BY <1>1, <1>5
  <2> QED BY <2>1, <1>4, ForwardsAfter
<1>10. FilesThere'
  <2>1. /\ now # 0 /\ k \in Hook /\ k.on = Current.on /\ k.open = Current.open /\ files' = files
        /\ k.life # "initializing"
    BY <1>1, <1>5
  <2> QED BY <2>1, <1>4, FilesAfter
<1>11. Lived(k)
  <2>1. CASE Current.life # "removing" BY <2>1, <1>5 DEF Lived
  <2>2. CASE Current.life = "removing"
    <3>1. k.life = "attached" /\ k.failed = Head(Current.todo) BY <2>2, <1>5 DEF Step
    <3>2. k.reads /\ k.open \cap {"arena", "store"} # {} => "files" \in k.open BY <2>2, <1>2, <1>5 DEF Lived
    <3>3. Standing(k)
      <4> DEFINE n == Len(Current.todo)
      <4>1. /\ n \in 1 .. 11 /\ Head(Current.todo) = Release[12 - n]
            /\ n <= 4 => ToSet(Current.todo) \subseteq {Release[i] : i \in 8 .. 11}
        <5>1. /\ n \in 1 .. 11 /\ Head(Current.todo) = Release[12 - n]
              /\ \A j \in {7, 6, 5, 4, 3} : n <= j => ToSet(Current.todo) \subseteq {Release[i] : i \in 12 - j .. 11}
          BY <1>1, <1>2, <1>3, InOrder
        <5>2. 4 \in {7, 6, 5, 4, 3} /\ 12 - 4 = 8 OBVIOUS
        <5> HIDE DEF n
        <5> QED BY <5>1, <5>2
      <4>2. Current.open \subseteq ToSet(Current.todo) /\ (n >= 7 => Standing(Current))
        BY <2>2, <1>1, <1>3 DEF Closing
      <4>3. \/ Head(Current.todo) \in {"executor", "store", "arena", "registry", "pool"} /\ Head(Current.todo) \in Current.open
            \/ Head(Current.todo) = "leases" /\ "arena" \in Current.open
        BY <1>1 DEF MayRaise, Step, Opened
      <4> HIDE DEF n
      <4>4. CASE n >= 7
        <5>1. Standing(Current) BY <4>2, <4>4
        <5>2. CASE Current.open \cap {"active", "arena", "store"} # {} BY <5>2, <1>5 DEF Standing
        <5>3. CASE Current.open \subseteq {"patches"} BY <5>3, <1>5 DEF Standing
        <5>4. CASE Excused(Current) /\ Current.open \cap {"active", "arena", "store"} = {}
          <6>1. Head(Current.todo) # "pool" /\ Head(Current.todo) # "registry"
            <7>1. 12 - n \in 1 .. 5 BY <4>1, <4>4
            <7> QED BY <7>1, <4>1, ReleaseOrder
          <6> QED BY <6>1, <5>4, <4>3 DEF Excused
        <5> QED BY <5>1, <5>2, <5>3, <5>4 DEF Standing
      <4>5. CASE n \in {5, 6}
        <5>1. Head(Current.todo) \in {"store", "arena"}
          <6>1. 12 - n \in {6, 7} BY <4>5
          <6> QED BY <6>1, <4>1, ReleaseOrder
        <5> QED BY <5>1, <4>3, <1>5 DEF Standing
      <4>6. CASE n <= 4
        <5>1. Current.open \subseteq {"registry", "pool", "stream", "files"}
          <6>1. \A i \in 8 .. 11 : Release[i] \in {"registry", "pool", "stream", "files"} BY ReleaseOrder
          <6> QED BY <6>1, <4>1, <4>2, <4>6
        <5>2. Head(Current.todo) \in {"registry", "pool"} BY <5>1, <4>3
        <5> QED BY <5>1, <5>2, <3>1, <1>5 DEF Standing, Excused
      <4> QED BY <4>1, <4>4, <4>5, <4>6
    <3> QED BY <3>1, <3>2, <3>3 DEF Lived
  <2> QED BY <2>1, <2>2
<1>12. \A h \in DOMAIN hooks' : Lived(hooks'[h]) BY <1>1, <1>4, <1>5, <1>11, LivedAfter
<1> QED BY <1>7, <1>8, <1>9, <1>10, <1>12 DEF LifeInv

LEMMA UnregisterKeeps == ASSUME LifeInv, Unregister PROVE LifeInv'
<1>1. /\ now # 0 /\ Current.life \in {"removing", "abandoned"} /\ Current.todo = <<>> /\ UNCHANGED <<forward, files>>
      /\ now' = 0 /\ hookOf' = IF Current.life = "removing" THEN [hookOf EXCEPT ![Current.on] = 0] ELSE hookOf
  BY DEF Unregister, Doing
<1>2. /\ now \in DOMAIN hooks /\ now \in Nat \ {0} /\ Current \in Hook /\ Current = hooks[now] /\ Lived(Current)
      /\ Current.on \in Component
  BY <1>1, AtHand
<1>3. Closing(Current) BY <1>1, <1>2 DEF Lived
<1> DEFINE life == IF Current.life = "removing" THEN "removed" ELSE "lost"
           k    == [Current EXCEPT !.life = life]
<1>4. hooks' = [hooks EXCEPT ![now] = k]
  BY <1>2 DEF Unregister, LifeInv, LifeTypes, Current
<1>5. /\ k \in Hook /\ k.on = Current.on /\ k.life = life /\ k.open = Current.open
      /\ k.was = Current.was /\ k.failed = Current.failed
  <2>1. life \in Lives BY DEF Lives
  <2> HIDE DEF life
  <2> QED BY <2>1, <1>2 DEF Hook
<1> HIDE DEF k
<1>6. hooks' \in Seq(Hook) BY <1>1, <1>4, <1>5, HookIs
<1>7. LifeTypes' BY <1>1, <1>2, <1>6 DEF LifeInv, LifeTypes
<1>8. HooksKnown'
  <2>1. Current.life = "abandoned" => hookOf[Current.on] = 0 BY <1>2 DEF LifeInv, HooksKnown
  <2>2. hookOf'[Current.on] = 0 /\ \A d \in Component : d # Current.on => hookOf'[d] = hookOf[d]
    BY <2>1, <1>1, <1>2 DEF LifeInv, LifeTypes
  <2>3. k.life \in {"removed", "lost"} /\ hookOf'[k.on] = 0 /\ now' = 0 BY <2>2, <1>1, <1>5
  <2>4. now # 0 /\ k \in Hook /\ k.on = Current.on BY <1>1, <1>5
  <2> QED BY <2>2, <2>3, <2>4, <1>4, RegisteredAfter
<1>9. Forwards'
  <2>1. now # 0 /\ k \in Hook /\ k.on = Current.on /\ k.open = Current.open /\ k.was = Current.was /\ forward' = forward
    BY <1>1, <1>5
  <2> QED BY <2>1, <1>4, ForwardsAfter
<1>10. FilesThere'
  <2>1. /\ now # 0 /\ k \in Hook /\ k.on = Current.on /\ k.open = Current.open /\ files' = files
        /\ k.life # "initializing"
    BY <1>1, <1>5
  <2> QED BY <2>1, <1>4, FilesAfter
<1>11. Lived(k)
  <2>1. CASE Current.life # "removing" BY <2>1, <1>5 DEF Lived
  <2>2. CASE Current.life = "removing"
    <3>1. ToSet(Current.todo) = {} BY <1>1 DEF ToSet
    <3>2. Current.open = {} \/ Excused(Current) BY <3>1, <2>2, <1>3 DEF Closing
    <3> QED BY <3>2, <2>2, <1>5 DEF Lived, Excused
  <2> QED BY <2>1, <2>2
<1>12. \A h \in DOMAIN hooks' : Lived(hooks'[h]) BY <1>1, <1>4, <1>5, <1>11, LivedAfter
<1> QED BY <1>7, <1>8, <1>9, <1>10, <1>12 DEF LifeInv

LEMMA LifeGoesOn == ASSUME LifeInv, [LifeNext]_lifeVars PROVE LifeInv'
<1>1. CASE BeginEnable \/ BeginRemove \/ RefuseCall \/ PlaceUnhooked \/ RemoveEarlier BY <1>1, CallsKeep
<1>2. CASE CreateHook BY <1>2, CreateHookKeeps
<1>3. CASE OpenNext BY <1>3, OpenNextKeeps
<1>4. CASE OpenRaises BY <1>4, OpenRaisesKeeps
<1>5. CASE RegisterHook BY <1>5, RegisterHookKeeps
<1>6. CASE CloseNext BY <1>6, CloseNextKeeps
<1>7. CASE CloseRaises BY <1>7, CloseRaisesKeeps
<1>8. CASE Unregister BY <1>8, UnregisterKeeps
<1>9. CASE UNCHANGED lifeVars BY <1>9, LifeUnchanged DEF lifeVars
<1> QED BY <1>1, <1>2, <1>3, <1>4, <1>5, <1>6, <1>7, <1>8, <1>9 DEF LifeNext

------------------------------------------------------------------------------
LEMMA UndoneIfLived == LifeInv => RemovedIsUndone
<1> SUFFICES ASSUME LifeInv PROVE RemovedIsUndone OBVIOUS
<1>1. ASSUME NEW h \in DOMAIN hooks PROVE h \in Nat \ {0} /\ hooks[h] \in Hook /\ Lived(hooks[h])
  <2>1. hooks \in Seq(Hook) BY DEF LifeInv, LifeTypes
  <2> QED BY <2>1 DEF LifeInv
<1>2. LeavesNothing BY <1>1 DEF LeavesNothing, Lived, Excused
<1>3. FilesOutliveArena
  <2> SUFFICES ASSUME NEW h \in DOMAIN hooks, hooks[h].reads, hooks[h].open \cap {"arena", "store"} # {}, hooks[h].life # "lost"
               PROVE  hooks[h].on \in files
    BY DEF FilesOutliveArena
  <2>1. hooks[h].life # "removed" BY <1>1 DEF Lived, Excused
  <2>2. "files" \in hooks[h].open BY <2>1, <1>1 DEF Lived
  <2> QED BY <2>1, <2>2 DEF LifeInv, FilesThere
<1>4. OneHook
  <2>1. ASSUME NEW g \in DOMAIN hooks, NEW h \in DOMAIN hooks, hooks[g].on = hooks[h].on,
               {hooks[g].life, hooks[h].life} \cap {"removed", "lost"} = {}
        PROVE  g = h
    <3>1. \A i \in {g, h} : hooks[i].life \in {"initializing", "attached", "removing", "abandoned"}
      <4>1. hooks[g].life \in Lives /\ hooks[h].life \in Lives BY <1>1 DEF Hook
      <4> QED BY <4>1, <2>1 DEF Lives
    <3>2. \A i \in {g, h} : i \in Nat \ {0} /\
             \/ hooks[i].life \in {"attached", "removing"} /\ hookOf[hooks[i].on] = i
             \/ hooks[i].life \in {"initializing", "abandoned"} /\ hookOf[hooks[i].on] = 0 /\ now = i
      BY <3>1, <1>1 DEF LifeInv, HooksKnown
    <3> QED BY <3>2, <2>1
  <2>2. ASSUME NEW c \in Component, forward[c] # 0
        PROVE  hooks[forward[c]].life # "removed" /\ hooks[forward[c]].on = c
    <3>1. /\ forward[c] \in DOMAIN hooks /\ hooks[forward[c]].on = c
          /\ hooks[forward[c]].life # "lost" => "patches" \in hooks[forward[c]].open
      BY <2>2 DEF LifeInv, Forwards
    <3>2. hooks[forward[c]].life # "removed" BY <3>1, <1>1 DEF Lived, Excused
    <3> QED BY <3>1, <3>2
  <2> QED BY <2>1, <2>2 DEF OneHook
<1> QED BY <1>2, <1>3, <1>4 DEF RemovedIsUndone

(* A hook that is gone has left nothing open but what a registry or a pool  *)
(* refused, the files outlive what reads from them, and no component has   *)
(* two hooks or runs forwards of one that is gone: whatever the requests,   *)
(* in whatever order, and whichever steps of setups and removals raise      *)
(* (apply_dynamic_offload, deinitalize_hook, remove_dynamic_offload).       *)
THEOREM HooksAreUndone == LifeSpec => []RemovedIsUndone
<1>1. LifeInit => LifeInv BY LifeStarts
<1>2. LifeInv /\ [LifeNext]_lifeVars => LifeInv' BY LifeGoesOn
<1>3. LifeInv => RemovedIsUndone BY UndoneIfLived
<1> QED BY <1>1, <1>2, <1>3, PTL DEF LifeSpec
===============================================================================
