---------------------------- MODULE WeightLending ----------------------------
(***************************************************************************)
(* The forwards that linear_runtime and sdnq_runtime put in place of those *)
(* of linear, embedding, packed (SDNQ) and convolution layers: the         *)
(* parameters get a copy on the device for the call and their own data     *)
(* back after it, whether it returns, raises or is interrupted.  A forward *)
(* may call another patched layer, or itself.  The hook may be removed     *)
(* while a forward runs.                                                   *)
(*                                                                         *)
(* Layers that run at the same time in several threads are left out: only  *)
(* convolutions refuse a second call, and they test before they set.       *)
(***************************************************************************)
EXTENDS Naturals, SequencesExt

CONSTANTS
  Layer,        \* patched layers
  KindOf,       \* layer |-> "linear", "embedding", "packed" or "conv"
  ParametersOf, \* layer |-> its parameters, in order; some are shared
  OnDevice,     \* parameters whose own data is on the device
  Swap,         \* linear_runtime_strategy = "swap"
  MaxDepth      \* bound: forwards within forwards

VARIABLES
  lent,         \* parameters whose data is a copy
  frames,       \* forwards in progress, innermost last
  convolving,   \* layers whose flag `active` is set
  attached      \* whether the layers are patched

lendVars == <<lent, frames, convolving, attached>>

Parameter == UNION {ToSet(ParametersOf[l]) : l \in Layer}

ASSUME LendAssumption == MaxDepth \in Nat /\ \A l \in Layer : ParametersOf[l] \in Seq(Parameter)

LendTypeOK ==
  /\ lent \subseteq Parameter /\ convolving \subseteq Layer /\ attached \in BOOLEAN
  /\ Len(frames) <= MaxDepth
  /\ \A i \in DOMAIN frames : /\ frames[i].layer \in Layer /\ ToSet(frames[i].todo) \subseteq Parameter
                              /\ frames[i].kept \subseteq Parameter /\ frames[i].was \subseteq frames[i].kept

LendInit == lent = {} /\ frames = <<>> /\ convolving = {} /\ attached = TRUE

------------------------------------------------------------------------------
(* A frame knows the parameters it has yet to lend, those whose data it     *)
(* keeps, and which of these were copies already.                          *)
Frame(l, todo, kept) == [layer |-> l, todo |-> todo, kept |-> kept, was |-> kept \cap lent]

CanCall(l) == /\ attached /\ Len(frames) < MaxDepth
              /\ frames # <<>> => Last(frames).todo = <<>>

(* The weight, and the bias of a linear layer, are copied before either is *)
(* exchanged.  Data that is on the device is copied only when its type is  *)
(* not that of the input.                                                  *)
BeginDense(l) ==
  /\ CanCall(l) /\ KindOf[l] \in {"linear", "embedding"}
  /\ LET ps == IF Swap THEN ToSet(ParametersOf[l]) ELSE {}
     IN  /\ frames' = Append(frames, Frame(l, <<>>, ps))
         /\ \E casts \in SUBSET (IF KindOf[l] = "linear" THEN ps ELSE {}) :
              lent' = lent \cup {p \in ps : p \notin OnDevice \/ p \in casts}
  /\ UNCHANGED <<convolving, attached>>

BeginPacked(l) ==
  /\ CanCall(l) /\ KindOf[l] = "packed"
  /\ frames' = Append(frames, Frame(l, ParametersOf[l], {}))
  /\ UNCHANGED <<lent, convolving, attached>>

(* A second call of a convolution is refused, and so are training, capture *)
(* and compilation: nothing happens.                                       *)
BeginConvolution(l) ==
  /\ CanCall(l) /\ KindOf[l] = "conv" /\ l \notin convolving
  /\ frames' = Append(frames, Frame(l, ParametersOf[l], ToSet(ParametersOf[l])))
  /\ convolving' = convolving \cup {l}
  /\ UNCHANGED <<lent, attached>>

(* The next parameter of a packed layer or a convolution.                  *)
LendNext ==
  /\ frames # <<>> /\ Last(frames).todo # <<>>
  /\ LET f == Last(frames)
         p == Head(f.todo)
         stays == p \in OnDevice \/ p \in lent
         g == [f EXCEPT !.todo = Tail(@), !.kept = IF stays THEN @ ELSE @ \cup {p}]
     IN  /\ frames' = [frames EXCEPT ![Len(frames)] = g]
         /\ lent'   = IF stays THEN lent ELSE lent \cup {p}
  /\ UNCHANGED <<convolving, attached>>

(* finally: what the frame keeps goes back.  As a mutant, only when every  *)
(* parameter had been lent.                                                *)
GiveBackIfLent(f) == IF f.todo = <<>> THEN (lent \ f.kept) \cup f.was ELSE lent
GiveBack(f)       == (lent \ f.kept) \cup f.was

(* A forward returns; or a copy or the forward itself raises, or a          *)
(* convolution returns what borrows its parameters, at any point.          *)
EndForwardOf(f) ==
  /\ frames' = Front(frames)
  /\ lent' = GiveBack(f)
  /\ convolving' = IF KindOf[f.layer] = "conv" THEN convolving \ {f.layer} ELSE convolving
  /\ UNCHANGED attached

EndForwardCall == frames # <<>> /\ EndForwardOf(Last(frames))

(* detach_hook, which nothing in the package calls.                        *)
DetachHook ==
  /\ attached /\ convolving = {}
  /\ attached' = FALSE
  /\ UNCHANGED <<lent, frames, convolving>>

(* remove_dynamic_offload calls deinitalize_hook.                          *)
DeinitializeHook ==
  /\ attached
  /\ attached' = FALSE
  /\ UNCHANGED <<lent, frames, convolving>>

(* Applied again, between forwards.                                        *)
AttachAgain ==
  /\ ~attached /\ frames = <<>>
  /\ attached' = TRUE
  /\ UNCHANGED <<lent, frames, convolving>>

LendingNext ==
  \/ \E l \in Layer : BeginDense(l) \/ BeginPacked(l) \/ BeginConvolution(l)
  \/ LendNext \/ EndForwardCall \/ DetachHook \/ DeinitializeHook \/ AttachAgain

LendSpec == LendInit /\ [][LendingNext]_lendVars

------------------------------------------------------------------------------
(* Properties *)

(* Between forwards every parameter has its own data, whatever was raised  *)
(* in which copy of which nested call, shared parameters included, and     *)
(* whether or not the hook was removed meanwhile; no convolution stays     *)
(* closed to later calls.                                                  *)
SourcesReturn == frames = <<>> => lent = {} /\ convolving = {}

(* docs/user/linear-convolution-offload.md: "Returned parameter views,      *)
(* reentry, training/grad mode, active detach and CUDA graph capture are   *)
(* refused."                                                               *)
ActiveDetachRefused == convolving # {} => attached
==============================================================================
