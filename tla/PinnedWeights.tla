---------------------------- MODULE PinnedWeights ----------------------------
(***************************************************************************)
(* _pin_linear_weights: the weights a hook selected are page-locked by     *)
(* worker threads, at most pin_cpu_workers at a time, and, when            *)
(* cache_pinned_weights is set, shared through a cache of the process.     *)
(* Several hooks do so at the same time.  An attempt may fail; then pinning *)
(* ends, or raises when fallback is not allowed.  One worker stands for    *)
(* the loop that the code has for that case.                               *)
(*                                                                         *)
(* A tensor is known by the hook and the name it was copied from: what it  *)
(* contains is what the weight of that name has in the model of that hook. *)
(***************************************************************************)
EXTENDS Naturals, FiniteSets

CONSTANTS
  Pinner,       \* hooks
  PinList,      \* hook |-> names of the weights it selected
  Configured,   \* hook |-> pinned_weight_cache_namespace, "" when it is not set
  ClassName,    \* hook |-> qualified name of the class of its module
  PinWorkers,
  PinCached,    \* cache_pinned_weights
  PinFallback   \* allow_pin_memory_fallback

VARIABLES
  data,         \* hook |-> name |-> whose copy the weight is, and whether page-locked
  shared,       \* the cache: namespace and name |-> whose copy
  future,       \* hook |-> name |-> where its future is
  found,        \* hook |-> name |-> what its worker is about to assign
  pinnerAt,     \* hook |-> where _pin_linear_weights is
  counted,      \* hook |-> names whose bytes are in pinned_bytes
  cleared       \* history: the cache has been cleared

pinVars == <<data, shared, future, found, pinnerAt, counted, cleared>>

AllNames == UNION {PinList[h] : h \in Pinner}
Miss     == << >>
Origin   == Pinner \X AllNames

PinTypeOK ==
  /\ data \in [Pinner -> [AllNames -> [of : Origin, locked : BOOLEAN]]]
  /\ \A k \in DOMAIN shared : shared[k] \in Origin
  /\ future \in [Pinner -> [AllNames -> {"none", "queued", "runs", "copied", "done", "failed", "taken"}]]
  /\ found \in [Pinner -> [AllNames -> Origin \cup {Miss}]]
  /\ pinnerAt \in [Pinner -> {"submits", "leaves", "raises", "returned", "raised"}]
  /\ counted \in [Pinner -> SUBSET AllNames]
  /\ cleared \in BOOLEAN

PinInit ==
  /\ data = [h \in Pinner |-> [n \in AllNames |-> [of |-> <<h, n>>, locked |-> FALSE]]]
  /\ shared = [k \in {} |-> Miss]
  /\ future = [h \in Pinner |-> [n \in AllNames |-> "none"]]
  /\ found = [h \in Pinner |-> [n \in AllNames |-> Miss]]
  /\ pinnerAt = [h \in Pinner |-> "submits"]
  /\ counted = [h \in Pinner |-> {}]
  /\ cleared = FALSE

------------------------------------------------------------------------------
At(h, states)  == {n \in PinList[h] : future[h][n] \in states}
Unfinished     == {"queued", "runs", "copied"}
To(f, h, n, s) == [f EXCEPT ![h] = [@ EXCEPT ![n] = s]]

(* The namespace that is configured, or else the class of the module.       *)
NamespaceOf(h) == IF Configured[h] = "" THEN ClassName[h] ELSE Configured[h]

(* What tells a cached tensor from another; shapes and types are the same.  *)
(* As a mutant, the namespace is left out.                                 *)
NameAlone(h, n) == <<"", n>>
CacheKey(h, n)  == <<NamespaceOf(h), n>>

(* submit_next: futures that were not yet taken never exceed the workers.  *)
Submit(h) ==
  /\ pinnerAt[h] = "submits"
  /\ Cardinality(At(h, Unfinished \cup {"done", "failed"})) < PinWorkers
  /\ \E n \in At(h, {"none"}) : future' = To(future, h, n, "queued")
  /\ UNCHANGED <<data, shared, found, pinnerAt, counted, cleared>>

(* A worker looks into the cache.                                          *)
LookUp(h, n) ==
  /\ future[h][n] = "queued"
  /\ found'  = To(found, h, n, IF PinCached /\ CacheKey(h, n) \in DOMAIN shared THEN shared[CacheKey(h, n)] ELSE Miss)
  /\ future' = To(future, h, n, "runs")
  /\ UNCHANGED <<data, shared, pinnerAt, counted, cleared>>

(* pin_memory copies the weight, unless a page-locked one was found.       *)
Copy(h, n) ==
  /\ future[h][n] = "runs"
  /\ found'  = IF found[h][n] = Miss THEN To(found, h, n, data[h][n].of) ELSE found
  /\ future' = To(future, h, n, "copied")
  /\ UNCHANGED <<data, shared, pinnerAt, counted, cleared>>

CopyFails(h, n) ==
  /\ future[h][n] = "runs" /\ found[h][n] = Miss
  /\ future' = To(future, h, n, "failed")
  /\ UNCHANGED <<data, shared, found, pinnerAt, counted, cleared>>

(* setdefault: the first to store wins, and the loser drops its own copy.  *)
StoreAndAssign(h, n) ==
  /\ future[h][n] = "copied"
  /\ LET k == CacheKey(h, n)
         mine == found[h][n]
     IN  /\ shared' = IF PinCached /\ k \notin DOMAIN shared
                        THEN [x \in DOMAIN shared \cup {k} |-> IF x = k THEN mine ELSE shared[x]] ELSE shared
         /\ data'   = To(data, h, n, [of |-> IF PinCached /\ k \in DOMAIN shared THEN shared[k] ELSE mine, locked |-> TRUE])
  /\ future' = To(future, h, n, "done")
  /\ UNCHANGED <<found, pinnerAt, counted, cleared>>

(* as_completed hands over any finished future.                            *)
TakeDone(h) ==
  /\ pinnerAt[h] = "submits"
  /\ \E n \in At(h, {"done"}) : /\ future'  = To(future, h, n, "taken")
                                /\ counted' = [counted EXCEPT ![h] = @ \cup {n}]
  /\ UNCHANGED <<data, shared, found, pinnerAt, cleared>>

(* After a failure, futures that no worker has begun are cancelled; when   *)
(* it is raised, they are not.                                             *)
TakeFailed(h) ==
  /\ pinnerAt[h] = "submits"
  /\ \E n \in At(h, {"failed"}) :
       future' = [future EXCEPT ![h] = [x \in AllNames |->
         IF x = n \/ (PinFallback /\ @[x] = "queued") THEN "taken" ELSE @[x]]]
  /\ pinnerAt' = [pinnerAt EXCEPT ![h] = IF PinFallback THEN "leaves" ELSE "raises"]
  /\ UNCHANGED <<data, shared, found, counted, cleared>>

AllTaken(h) ==
  /\ pinnerAt[h] = "submits"
  /\ PinList[h] = At(h, {"taken"})
  /\ pinnerAt' = [pinnerAt EXCEPT ![h] = "leaves"]
  /\ UNCHANGED <<data, shared, future, found, counted, cleared>>

(* The end of the with statement waits for every worker.                   *)
LeavePool(h) ==
  /\ pinnerAt[h] \in {"leaves", "raises"}
  /\ At(h, Unfinished) = {}
  /\ pinnerAt' = [pinnerAt EXCEPT ![h] = IF @ = "leaves" THEN "returned" ELSE "raised"]
  /\ UNCHANGED <<data, shared, future, found, counted, cleared>>

(* clear_dynamic_offload_pinned_tensor_cache, at any time.                 *)
ClearShared ==
  /\ shared # [k \in {} |-> Miss]
  /\ shared' = [k \in {} |-> Miss]
  /\ cleared' = TRUE
  /\ UNCHANGED <<data, future, found, pinnerAt, counted>>

PinNext ==
  \/ ClearShared
  \/ \E h \in Pinner :
       \/ Submit(h) \/ TakeDone(h) \/ TakeFailed(h) \/ AllTaken(h) \/ LeavePool(h)
       \/ \E n \in PinList[h] : LookUp(h, n) \/ Copy(h, n) \/ CopyFails(h, n) \/ StoreAndAssign(h, n)

PinSpec == PinInit /\ [][PinNext]_pinVars

------------------------------------------------------------------------------
(* Properties *)

(* The hooks whose tensors hook h may take for its weight n.               *)
Kin(h, n) ==
  {g \in Pinner : n \in PinList[g] /\ (g = h \/ (PinCached /\ NamespaceOf(g) = NamespaceOf(h)))}

(* A weight is only ever exchanged for the one of the same name in a model *)
(* of the same namespace, whoever copies, stores, loses the race to store, *)
(* or empties the cache.  A hook alone in its namespace keeps its contents; *)
(* two models of one class with no namespace configured may get the        *)
(* weights of each other, since the key has nothing of the contents.       *)
WeightsFromKin ==
  \A h \in Pinner : \A n \in PinList[h] : \E g \in Kin(h, n) : data[h][n].of = <<g, n>>

(* Hooks of one namespace share one page-locked copy of a weight, as long   *)
(* as nobody empties the cache, although several workers may have missed   *)
(* and copied it at the same time.                                         *)
OneCopy ==
  ~cleared => \A h \in Pinner : \A n \in PinList[h] : \A g \in Kin(h, n) :
    data[g][n].locked /\ data[h][n].locked => data[g][n].of = data[h][n].of

(* No byte is counted that is not page-locked, and when the call is over no *)
(* worker writes any more.  After a failure more may be locked than was    *)
(* counted.                                                                *)
CountsHold ==
  \A h \in Pinner :
    /\ \A n \in counted[h] : data[h][n].locked
    /\ pinnerAt[h] \in {"returned", "raised"} => At(h, Unfinished) = {}

PinnedTruly == WeightsFromKin /\ OneCopy /\ CountsHold
==============================================================================
