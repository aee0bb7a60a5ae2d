---------------------------- MODULE RegisteredHost ----------------------------
(***************************************************************************)
(* RegisteredHostWeightRegistry: CPU weights registered with CUDA in place, *)
(* within a limit.  CUDA registers pages: a weight on a page that is       *)
(* registered already, by this registry or by anyone else in the process,  *)
(* is usable and not owned.                                                *)
(***************************************************************************)
EXTENDS Naturals, FiniteSets, SequencesExt

CONSTANTS
  Weight,     \* CPU weights, each on one page
  PageOf,     \* weight |-> page
  Bytes,      \* weight |-> size
  MaxBytes,   \* max_bytes
  MaxErrors   \* bound: driver calls that fail

ASSUME HostAssumption ==
  IsFiniteSet(Weight) /\ Bytes \in [Weight -> Nat] /\ {MaxBytes, MaxErrors} \subseteq Nat

VARIABLES
  pinned,          \* page |-> who registered it with the driver
  registrations,   \* [weight, owned], oldest first
  registeredBytes, \* registered_bytes
  skipped,         \* _budget_skips
  unpinning,       \* how far close has come, 0 for not called
  hostRegistry,    \* open, half (a close that raised), or closed
  errorsLeft

hostVars == <<pinned, registrations, registeredBytes, skipped, unpinning, hostRegistry, errorsLeft>>

Page == {PageOf[w] : w \in Weight}

HostTypeOK ==
  /\ pinned \in [Page -> {"no", "ours", "theirs"}]
  /\ registrations \in Seq([weight : Weight, owned : BOOLEAN])
  /\ registeredBytes \in Nat /\ skipped \subseteq Weight
  /\ unpinning \in 0 .. Cardinality(Weight) + 1
  /\ hostRegistry \in {"open", "half", "closed"} /\ errorsLeft \in 0 .. MaxErrors

HostInit ==
  /\ pinned \in [Page -> {"no", "theirs"}]
  /\ registrations = <<>> /\ registeredBytes = 0 /\ skipped = {}
  /\ unpinning = 0 /\ hostRegistry = "open" /\ errorsLeft = MaxErrors

------------------------------------------------------------------------------
Registered(w) == \E r \in ToSet(registrations) : r.weight = w

(* As a mutant, a page that is registered already is taken for owned.      *)
OwnsAnything(w) == TRUE
Owns(w)         == pinned[PageOf[w]] = "no"

Register(w) ==
  /\ hostRegistry = "open" /\ unpinning = 0 /\ ~Registered(w)
  /\ registeredBytes + Bytes[w] <= MaxBytes
  /\ registrations' = Append(registrations, [weight |-> w, owned |-> Owns(w)])
  /\ registeredBytes' = registeredBytes + Bytes[w]
  /\ pinned' = [pinned EXCEPT ![PageOf[w]] = IF @ = "no" THEN "ours" ELSE @]
  /\ UNCHANGED <<skipped, unpinning, hostRegistry, errorsLeft>>

RegisterSkipped(w) ==
  /\ hostRegistry = "open" /\ unpinning = 0 /\ ~Registered(w)
  /\ registeredBytes + Bytes[w] > MaxBytes
  /\ skipped' = skipped \cup {w}
  /\ UNCHANGED <<pinned, registrations, registeredBytes, unpinning, hostRegistry, errorsLeft>>

RegisterRejected(w) ==
  /\ hostRegistry = "open" /\ unpinning = 0 /\ ~Registered(w)
  /\ errorsLeft > 0 /\ errorsLeft' = errorsLeft - 1
  /\ UNCHANGED <<pinned, registrations, registeredBytes, skipped, unpinning, hostRegistry>>

(* Others register and release pages of theirs.                            *)
OtherPins(p) ==
  /\ pinned[p] \in {"no", "theirs"}
  /\ pinned' = [pinned EXCEPT ![p] = IF @ = "no" THEN "theirs" ELSE "no"]
  /\ UNCHANGED <<registrations, registeredBytes, skipped, unpinning, hostRegistry, errorsLeft>>

CloseHost ==
  /\ hostRegistry \in {"open", "half"} /\ unpinning = 0
  /\ unpinning' = 1
  /\ UNCHANGED <<pinned, registrations, registeredBytes, skipped, hostRegistry, errorsLeft>>

UnpinNext ==
  /\ unpinning \in 1 .. Len(registrations)
  /\ LET r == registrations[unpinning] IN
     /\ r.owned => pinned[PageOf[r.weight]] # "no"
     /\ pinned' = IF r.owned THEN [pinned EXCEPT ![PageOf[r.weight]] = "no"] ELSE pinned
  /\ unpinning' = unpinning + 1
  /\ UNCHANGED <<registrations, registeredBytes, skipped, hostRegistry, errorsLeft>>

(* The driver refuses, because it fails or because the page was given back *)
(* by an earlier close that raised: everything stays recorded.             *)
UnpinRaises ==
  /\ unpinning \in 1 .. Len(registrations) /\ registrations[unpinning].owned
  /\ \/ pinned[PageOf[registrations[unpinning].weight]] = "no" /\ UNCHANGED errorsLeft
     \/ errorsLeft > 0 /\ errorsLeft' = errorsLeft - 1
  /\ unpinning' = 0 /\ hostRegistry' = "half"
  /\ UNCHANGED <<pinned, registrations, registeredBytes, skipped>>

CloseHostDone ==
  /\ unpinning = Len(registrations) + 1
  /\ registrations' = <<>> /\ registeredBytes' = 0 /\ skipped' = {}
  /\ unpinning' = 0 /\ hostRegistry' = "closed"
  /\ UNCHANGED <<pinned, errorsLeft>>

HostNext ==
  \/ \E w \in Weight : Register(w) \/ RegisterSkipped(w) \/ RegisterRejected(w)
  \/ \E p \in Page : OtherPins(p)
  \/ CloseHost \/ UnpinNext \/ UnpinRaises \/ CloseHostDone

HostSpec == HostInit /\ [][HostNext]_hostVars

------------------------------------------------------------------------------
(* Properties *)

(* Pages are given back once and by whoever registered them: every page of *)
(* the registry has one owned entry, and none is left after a close.  (A   *)
(* close that raised leaves entries of pages it has given back.)           *)
PinnedIsOwned ==
  hostRegistry # "half" /\ unpinning = 0 =>
    \A p \in Page :
      Cardinality({i \in DOMAIN registrations :
                     registrations[i].owned /\ PageOf[registrations[i].weight] = p})
        = IF pinned[p] = "ours" THEN 1 ELSE 0

==============================================================================
