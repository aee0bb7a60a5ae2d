---------------------------- MODULE SourceRegistry ----------------------------
(***************************************************************************)
(* Which bytes of which checkpoint file a CPU tensor holds: association     *)
(* after a load (_attach_safetensor_file_slices, associate_source_metadata),*)
(* SafetensorSliceRegistry, and _detach_cpu_sources, which moves tensors to *)
(* copies of their storage and the registry with them, or neither.          *)
(*                                                                         *)
(* The registry knows addresses only and keeps no tensor alive: an address *)
(* whose tensor went may be given to any other tensor.                     *)
(***************************************************************************)
EXTENDS Naturals, FiniteSets, Sequences

CONSTANTS
  Tensor,      \* named parameters; several may share a storage
  Address,     \* storages of the one size there is
  SourceRange,      \* descriptors: byte ranges of the checkpoint
  Overlaps,    \* pairs of addresses whose storages overlap partly
  CopyLimit,   \* max_copy_bytes
  Other,       \* content that no descriptor stands for
  Free,        \* not allocated
  Nothing      \* no descriptor

ASSUME SourcesAssumption ==
  /\ IsFiniteSet(SourceRange) /\ {Other, Free, Nothing} \cap SourceRange = {}
  /\ Other # Free

VARIABLES
  headers,     \* tensor |-> descriptors its name has in the files opened
  converted,   \* the loader changed the payload (quantized, transformed)
  misfit,      \* tensors whose shape or dtype is not the descriptor's
  holds,       \* address |-> content
  at,          \* tensor |-> address
  slices,      \* the registry
  known,       \* tensor |-> what the registry said of it after the load
  moves,       \* address |-> address of its copy, while a detachment runs
  changed,     \* tensors moved so far, with their old addresses
  retained,    \* addresses the native runtime reads from
  sources      \* where the component stands

sourceVars == <<headers, converted, misfit, holds, at, slices, known, moves, changed, retained, sources>>

Held     == {at[t] : t \in Tensor}
Owners(a) == {t \in Tensor : at[t] = a}
Content(t) == holds[at[t]]

SourcesTypeOK ==
  /\ holds \in [Address -> SourceRange \cup {Other, Free}] /\ at \in [Tensor -> Address]
  /\ slices \in [Address -> SourceRange \cup {Nothing}] /\ known \in [Tensor -> SourceRange \cup {Nothing}]
  /\ sources \in {"loaded", "bound", "moving", "restoring", "moved", "started", "closed"}
  /\ DOMAIN moves \subseteq Address /\ \A i \in DOMAIN changed : changed[i].tensor \in Tensor

(* After a load a storage holds what the file has for one of the names of  *)
(* its tensors.                                                            *)
SourcesInit ==
  /\ headers \in [Tensor -> {{}} \cup {{d} : d \in SourceRange} \cup {SourceRange}]
  /\ converted \in BOOLEAN /\ misfit \in {{}} \cup {{t} : t \in Tensor}
  /\ at \in [Tensor -> Address] /\ retained \in {{}} \cup {{a} : a \in Held}
  /\ \E content \in [Held -> SourceRange \cup {Other}] :
       /\ \A a \in Held :
            LET named == UNION {headers[t] : t \in Owners(a)} IN
            content[a] \in IF converted \/ named = {} THEN {Other} ELSE named
       /\ holds = [a \in Address |-> IF a \in Held THEN content[a] ELSE Free]
  /\ slices = [a \in Address |-> Nothing]
  /\ known = [t \in Tensor |-> Nothing]
  /\ moves = <<>> /\ changed = <<>>
  /\ sources = "loaded"

------------------------------------------------------------------------------
(* A name that several files give different ranges voids all of them.      *)
Available(t) == IF \E u \in Tensor : Cardinality(headers[u]) > 1 THEN {} ELSE headers[t]

(* All names of a storage must agree, and all its tensors fit.  As a       *)
(* mutant, one name is enough.                                             *)
AnySource(a) ==
  LET found == UNION {Available(t) : t \in Owners(a)} IN
  IF found = {} THEN Nothing ELSE CHOOSE d \in found : TRUE
AgreedSource(a) ==
  LET found == UNION {Available(t) : t \in Owners(a)} IN
  IF Cardinality(found) = 1 /\ Owners(a) \cap misfit = {} THEN CHOOSE d \in found : TRUE ELSE Nothing

Associate ==
  /\ sources = "loaded"
  /\ slices' = [a \in Address |-> IF converted \/ a \notin Held THEN Nothing ELSE AgreedSource(a)]
  /\ known'  = [t \in Tensor |-> slices'[at[t]]]
  /\ sources' = "bound"
  /\ UNCHANGED <<headers, converted, misfit, holds, at, moves, changed, retained>>

(* Other tensors come and go where the allocator puts them.                *)
AllocateOther(a) ==
  /\ holds[a] = Free /\ sources # "loaded"
  /\ holds' = [holds EXCEPT ![a] = Other]
  /\ UNCHANGED <<headers, converted, misfit, at, slices, known, moves, changed, retained, sources>>

(* The first native forward; nothing is detached after it.                 *)
StartNative ==
  /\ sources \in {"bound", "moved"} /\ sources' = "started"
  /\ UNCHANGED <<headers, converted, misfit, holds, at, slices, known, moves, changed, retained>>

------------------------------------------------------------------------------
(* _detach_cpu_sources *)
Selected == {a \in Held : slices[a] # Nothing}

(* Once, for an attached component whose execution has not started.         *)
Eligible == sources = "bound"

(* It refuses storages that the native runtime retains, partial overlaps,  *)
(* and more copies than allowed; a refusal changes nothing.                *)
Detachable ==
  /\ Selected # {} /\ Selected \cap retained = {}
  /\ \A pair \in Overlaps : pair \subseteq Held => pair \cap Selected = {}
  /\ Cardinality(Selected) <= CopyLimit

Clone ==
  /\ Eligible /\ Detachable
  /\ \E to \in [Selected -> {a \in Address : holds[a] = Free}] :
       /\ \A a, b \in Selected : to[a] = to[b] => a = b
       /\ moves' = to
       /\ holds' = [a \in Address |-> IF \E b \in Selected : to[b] = a
                                        THEN holds[CHOOSE b \in Selected : to[b] = a] ELSE holds[a]]
  /\ sources' = "moving"
  /\ UNCHANGED <<headers, converted, misfit, at, slices, known, changed, retained>>

Move(t) ==
  /\ sources = "moving" /\ at[t] \in DOMAIN moves
  /\ changed' = Append(changed, [tensor |-> t, from |-> at[t]])
  /\ at' = [at EXCEPT ![t] = moves[@]]
  /\ UNCHANGED <<headers, converted, misfit, holds, slices, known, moves, retained, sources>>

Freed(gone) == [a \in Address |-> IF a \in gone THEN Free ELSE holds[a]]

(* rebind_many: the old addresses leave the registry.  As a mutant, they   *)
(* stay.                                                                   *)
BoundTo(a) == {b \in DOMAIN moves : moves[b] = a}
RebindKeeping ==
  [a \in Address |-> IF BoundTo(a) # {} THEN slices[CHOOSE b \in BoundTo(a) : TRUE] ELSE slices[a]]
Rebind ==
  [a \in Address |-> IF BoundTo(a) # {} THEN slices[CHOOSE b \in BoundTo(a) : TRUE]
                     ELSE IF a \in DOMAIN moves THEN Nothing ELSE slices[a]]

RebindMany ==
  /\ sources = "moving" /\ Held \cap DOMAIN moves = {}
  /\ slices' = Rebind
  /\ holds' = Freed(DOMAIN moves)
  /\ moves' = <<>> /\ changed' = <<>> /\ sources' = "moved"
  /\ UNCHANGED <<headers, converted, misfit, at, known, retained>>

(* A swap raises, rebind_many does, or the process is interrupted between. *)
MoveRaises ==
  /\ sources = "moving" /\ sources' = "restoring"
  /\ UNCHANGED <<headers, converted, misfit, holds, at, slices, known, moves, changed, retained>>

(* Every tensor that was moved goes back; as a mutant, the last one does.  *)
RestoredLast == [at EXCEPT ![changed[Len(changed)].tensor] = changed[Len(changed)].from]
Restored ==
  [t \in Tensor |-> IF \E i \in DOMAIN changed : changed[i].tensor = t
                      THEN changed[CHOOSE i \in DOMAIN changed : changed[i].tensor = t].from
                      ELSE at[t]]

Restore ==
  /\ sources = "restoring"
  /\ at' = IF changed = <<>> THEN at ELSE Restored
  /\ holds' = Freed({moves[a] : a \in DOMAIN moves} \ {at'[t] : t \in Tensor})
  /\ moves' = <<>> /\ changed' = <<>> /\ sources' = "bound"
  /\ UNCHANGED <<headers, converted, misfit, slices, known, retained>>

(* The registry is closed with the runtime.                                *)
CloseSources ==
  /\ sources \in {"bound", "moved", "started"}
  /\ sources' = "closed" /\ slices' = [a \in Address |-> Nothing]
  /\ UNCHANGED <<headers, converted, misfit, holds, at, known, moves, changed, retained>>

SourcesNext ==
  \/ Associate \/ StartNative \/ Clone \/ RebindMany \/ MoveRaises \/ Restore \/ CloseSources
  \/ \E a \in Address : AllocateOther(a)
  \/ \E t \in Tensor : Move(t)

SourcesSpec == SourcesInit /\ [][SourcesNext]_sourceVars

------------------------------------------------------------------------------
(* Properties *)

(* Whatever tensor is asked for at an address, of the component or of       *)
(* another owner, the registry names the bytes that it holds, or none.      *)
ProvenanceTrue ==
  \A a \in Address : slices[a] # Nothing /\ holds[a] # Free => holds[a] = slices[a]

(* A detachment, carried through or given up anywhere, leaves every tensor *)
(* with its content and with the source that it had.                       *)
SourcesKept ==
  sources \in {"bound", "moved", "started"} =>
    \A t \in Tensor : slices[at[t]] = known[t] /\ (known[t] # Nothing => Content(t) = known[t])

==============================================================================
