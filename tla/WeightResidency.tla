---------------------------- MODULE WeightResidency ----------------------------
(***************************************************************************)
(* What leasing promises, for execution groups as for single weights: the  *)
(* kernels of a group are started only while its weights are held, they    *)
(* finish only with the weights in place, and weights in place are taken   *)
(* away only when nobody holds them and no kernel is left that reads them. *)
(***************************************************************************)
EXTENDS Naturals, FiniteSets

CONSTANT Groups

VARIABLES
  inPlace,   \* groups whose weights are complete on the GPU
  held,      \* groups somebody holds a lease on
  started    \* groups with kernels that have not finished

vars == <<inPlace, held, started>>

Init == inPlace = {} /\ held = {} /\ started = {}

(* Weights arrive on the GPU, for a holder or before anybody holds them.   *)
Arrive(g) == inPlace' = inPlace \cup {g} /\ UNCHANGED <<held, started>>

Hold(g) ==
  /\ held' = held \cup {g}
  /\ inPlace' \in {inPlace, inPlace \cup {g}}
  /\ UNCHANGED started

Start(g) ==
  /\ g \in held
  /\ started' = started \cup {g}
  /\ UNCHANGED <<inPlace, held>>

Finish(g) ==
  /\ g \in started \cap inPlace
  /\ started' = started \ {g}
  /\ UNCHANGED <<inPlace, held>>

Drop(g) == held' = held \ {g} /\ UNCHANGED <<inPlace, started>>

Remove(G) ==
  /\ G \cap (held \cup started) = {}
  /\ inPlace' = inPlace \ G
  /\ UNCHANGED <<held, started>>

Next ==
  \/ \E g \in Groups : Arrive(g) \/ Hold(g) \/ Start(g) \/ Finish(g) \/ Drop(g)
  \/ \E G \in SUBSET Groups : Remove(G)

Spec == Init /\ [][Next]_vars
==============================================================================
