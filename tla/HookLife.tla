------------------------------- MODULE HookLife -------------------------------
(***************************************************************************)
(* How a component of a pipeline comes under a dynamic offload hook and    *)
(* leaves it again: enable_offload and enable_pipeline_offload choose a     *)
(* route, apply_dynamic_offload takes an earlier hook away and initializes *)
(* the new one, which opens what its runtime needs step by step, and       *)
(* remove_dynamic_offload undoes it step by step.  Any step may raise.     *)
(*                                                                         *)
(* A hook whose initialization raised is never registered: it is lost, and *)
(* so is what it had opened or patched.  Components are not nested.        *)
(***************************************************************************)
EXTENDS Naturals, SequencesExt

CONSTANTS
  Component,
  Quantized,    \* components with layers of a quantization backend
  FromFiles,    \* those loaded with slices of safetensors files
  Blocks,       \* those with a ModuleList that makes execution groups
  Requests,     \* what callers ask for
  MaxHooks,     \* bound: hooks created
  MaxRaises     \* bound: steps that raise

ASSUME LifeAssumption == IsFiniteSet(Component) /\ MaxRaises \in Nat

VARIABLES
  hooks,        \* every DynamicOffloadHook created, in order
  hookOf,       \* component |-> its registered hook, 0 for none
  forward,      \* component |-> the hook whose forwards are in place, 0 for its own
  files,        \* components with an open _ddo_safetensor_slices
  placed,       \* component |-> who else has placed it
  now,          \* the hook that is being initialized or removed, 0 for none
  queue,        \* components the present call has yet to do
  wanted,       \* what it does with them
  raisesLeft

lifeVars == <<hooks, hookOf, forward, files, placed, now, queue, wanted, raisesLeft>>

NoRequest == [route |-> "none"]
Resources == {"active", "pool", "files", "executor", "stream", "registry", "arena", "groups", "store", "patches"}
Lives     == {"initializing", "attached", "removing", "removed", "abandoned", "lost"}

LifeTypeOK ==
  /\ \A h \in DOMAIN hooks : /\ hooks[h].on \in Component /\ hooks[h].life \in Lives
                             /\ hooks[h].open \subseteq Resources /\ hooks[h].reads \in BOOLEAN
  /\ hookOf \in [Component -> 0 .. Len(hooks)] /\ forward \in [Component -> 0 .. Len(hooks)]
  /\ files \subseteq FromFiles /\ placed \in [Component -> {"cpu", "group", "device"}]
  /\ now \in 0 .. Len(hooks) /\ queue \in Seq(Component)
  /\ wanted \in Requests \cup {NoRequest} /\ raisesLeft \in 0 .. MaxRaises

LifeInit ==
  /\ hooks = <<>>
  /\ hookOf = [c \in Component |-> 0] /\ forward = [c \in Component |-> 0]
  /\ files = FromFiles /\ placed = [c \in Component |-> "cpu"]
  /\ now = 0 /\ queue = <<>> /\ wanted = NoRequest /\ raisesLeft = MaxRaises

------------------------------------------------------------------------------
(* What is asked for *)

(* A request is direct when it comes from from_pretrained or from           *)
(* apply_dynamic_offload: no route is chosen, and nothing is switched.     *)
RouteOf(c, r) ==
  CASE r.direct \/ r.route = "linear_convolution"               -> "dynamic_offload"
    [] ~r.direct /\ r.route = "auto" /\ (r.group \/ (c \in Quantized /\ r.dynamic)) -> "diffusers_group_offload"
    [] ~r.direct /\ r.route = "auto" /\ ~r.group /\ c \notin Quantized /\ r.dynamic -> "dynamic_offload"
    [] ~r.direct /\ r.route = "auto" /\ ~r.group /\ ~r.dynamic  -> "none"
    [] OTHER -> r.route

RefusedCall(c, r) ==
  \/ r.route = "linear_convolution" /\ (c \in Quantized \/ ~r.convolutions)
  \/ r.profile /\ RouteOf(c, r) # "dynamic_offload"

ModeOf(c, r) == IF c \in Quantized /\ r.mode = "linear" /\ ~r.direct THEN "sdnq" ELSE r.mode

(* The steps of an initialization, named after what they open.             *)
When(condition, steps) == IF condition THEN steps ELSE <<>>
Refuses(c, r) == \/ ModeOf(c, r) \in {"vmm", "fast"} /\ c \in Quantized
                 \/ ModeOf(c, r) # "fast" /\ r.reclaim
Setup(c, r) ==
  CASE Refuses(c, r) -> <<"refused">>
    [] ~Refuses(c, r) /\ ModeOf(c, r) = "vmm" ->
         <<"active", "pool">> \o When(c \in files, <<"files", "executor">>) \o <<"stream">>
         \o When(r.hostCache, <<"registry">>) \o When(c \in Blocks, <<"arena", "groups", "patches">>) \o <<"ready">>
    [] ~Refuses(c, r) /\ ModeOf(c, r) = "fast" ->
         When(c \in files, <<"files">>) \o When(~r.native, <<"pool">>) \o <<"store">>
         \o When(r.reclaim, <<"reclaim">>) \o <<"active", "ready">>
    [] ~Refuses(c, r) /\ ModeOf(c, r) \in {"linear", "sdnq"} -> <<"patches", "ready">>
    [] OTHER -> <<"ready">>

(* deinitalize_hook.  As a mutant, the files are let go before the arena.   *)
FilesFirst == <<"groups", "executor", "leases", "patches", "active", "files", "store", "arena", "registry", "pool", "stream">>
Release    == <<"groups", "executor", "leases", "patches", "active", "store", "arena", "registry", "pool", "stream", "files">>

(* _close_vmm_store is the part of it from "active" on.                    *)
CloseStore == [i \in 1 .. 7 |-> Release[4 + i]]

------------------------------------------------------------------------------
(* Calls *)

Idle == now = 0 /\ queue = <<>>
ToDo(cs) == queue' = cs /\ wanted' = IF cs = <<>> THEN NoRequest ELSE wanted

(* enable_offload for one component, enable_pipeline_offload for several.  *)
BeginEnable ==
  /\ Idle
  /\ \E r \in Requests :
       /\ wanted' = r
       /\ queue' \in IF r.pipeline THEN SetToSeqs(Component) ELSE {<<c>> : c \in Component}
  /\ UNCHANGED <<hooks, hookOf, forward, files, placed, now, raisesLeft>>

StartRemoval(c) ==
  /\ now' = hookOf[c]
  /\ hooks' = [hooks EXCEPT ![hookOf[c]].life = "removing", ![hookOf[c]].todo = Release]

(* remove_dynamic_offload; cleanup_on_error of any result of this component *)
(* does the same, whichever hook the result had, and drops what it raises. *)
BeginRemove ==
  /\ Idle
  /\ \E c \in Component : hookOf[c] # 0 /\ StartRemoval(c)
  /\ UNCHANGED <<hookOf, forward, files, placed, queue, wanted, raisesLeft>>

(* The next component of the call.                                         *)
NextIs(c)  == now = 0 /\ queue # <<>> /\ c = Head(queue)
Hooks(c)   == RouteOf(c, wanted) = "dynamic_offload" /\ wanted.apply /\ (wanted.enabled \/ wanted.direct)

RefuseCall ==
  /\ \E c \in Component : NextIs(c) /\ RefusedCall(c, wanted)
  /\ ToDo(<<>>)
  /\ UNCHANGED <<hooks, hookOf, forward, files, placed, now, raisesLeft>>

(* Group offload, or a move to the device, which a pipeline also does for   *)
(* what is left without a hook; an earlier hook stays.                     *)
PlaceUnhooked ==
  /\ \E c \in Component :
       /\ NextIs(c) /\ ~RefusedCall(c, wanted) /\ ~Hooks(c)
       /\ placed' = [placed EXCEPT ![c] =
            CASE ~wanted.apply -> @
              [] wanted.apply /\ RouteOf(c, wanted) = "diffusers_group_offload" -> "group"
              [] wanted.apply /\ RouteOf(c, wanted) = "none" -> "device"
              [] OTHER -> IF wanted.pipeline THEN "device" ELSE @]
  /\ ToDo(Tail(queue))
  /\ UNCHANGED <<hooks, hookOf, forward, files, now, raisesLeft>>

(* apply_dynamic_offload: an earlier hook goes first.                      *)
RemoveEarlier ==
  /\ \E c \in Component : NextIs(c) /\ ~RefusedCall(c, wanted) /\ Hooks(c) /\ hookOf[c] # 0 /\ StartRemoval(c)
  /\ UNCHANGED <<hookOf, forward, files, placed, queue, wanted, raisesLeft>>

CreateHook ==
  /\ Len(hooks) < MaxHooks
  /\ \E c \in Component :
       /\ NextIs(c) /\ ~RefusedCall(c, wanted) /\ Hooks(c) /\ hookOf[c] = 0
       /\ hooks' = Append(hooks, [on |-> c, life |-> "initializing", todo |-> Setup(c, wanted),
                                  moves |-> wanted.pipeline /\ wanted.mode = "plan",
                                  open |-> {}, was |-> 0, reads |-> FALSE, failed |-> "nothing"])
  /\ now' = Len(hooks) + 1 /\ ToDo(Tail(queue))
  /\ UNCHANGED <<hookOf, forward, files, placed, raisesLeft>>

------------------------------------------------------------------------------
(* The steps of an initialization *)

Current   == hooks[now]
Doing(ls) == now # 0 /\ Current.life \in ls
Step      == Head(Current.todo)

OpenNext ==
  /\ Doing({"initializing"}) /\ Current.todo # <<>> /\ Step # "refused"
  /\ hooks' = [hooks EXCEPT ![now].todo = Tail(@), ![now].open = @ \cup ({Step} \cap Resources),
                            ![now].was = IF Step = "patches" THEN forward[Current.on] ELSE @,
                            ![now].reads = @ \/ (Step \in {"arena", "store"} /\ "files" \in Current.open)]
  /\ forward' = IF Step = "patches" THEN [forward EXCEPT ![Current.on] = now] ELSE forward
  /\ UNCHANGED <<hookOf, files, placed, now, queue, wanted, raisesLeft>>

(* Only where backing reclaim is set up is anything closed again.          *)
OpenRaises ==
  /\ Doing({"initializing"}) /\ Current.todo # <<>>
  /\ Step = "refused" \/ raisesLeft > 0
  /\ raisesLeft' = IF Step = "refused" THEN raisesLeft ELSE raisesLeft - 1
  /\ hooks' = [hooks EXCEPT ![now].life = IF Step = "reclaim" THEN "abandoned" ELSE "lost",
                            ![now].todo = IF Step = "reclaim" THEN CloseStore ELSE <<>>]
  /\ now' = IF Step = "reclaim" THEN now ELSE 0
  /\ ToDo(<<>>)
  /\ UNCHANGED <<hookOf, forward, files, placed>>

RegisterHook ==
  /\ Doing({"initializing"}) /\ Current.todo = <<>>
  /\ hooks'  = [hooks EXCEPT ![now].life = "attached"]
  /\ hookOf' = [hookOf EXCEPT ![Current.on] = now]
  /\ placed' = IF Current.moves THEN [placed EXCEPT ![Current.on] = "device"] ELSE placed
  /\ now' = 0
  /\ UNCHANGED <<forward, files, queue, wanted, raisesLeft>>

------------------------------------------------------------------------------
(* The steps of a removal *)

(* A step has nothing to do for what is not open.                          *)
Opened == Step \in Current.open

(* Without arena and store, and no longer active, a hook counts as closed. *)
CountsAsClosed == Step = "active" /\ Current.open \cap {"active", "store", "arena"} = {}

CloseNext ==
  /\ Doing({"removing", "abandoned"}) /\ Current.todo # <<>>
  /\ hooks' = [hooks EXCEPT ![now].todo = IF CountsAsClosed THEN <<>> ELSE Tail(@), ![now].open = @ \ {Step},
                            ![now].was = IF Step = "patches" THEN 0 ELSE @]
  /\ forward' = IF Step = "patches" /\ Opened THEN [forward EXCEPT ![Current.on] = Current.was] ELSE forward
  /\ files'   = IF Step = "files" /\ Opened THEN files \ {Current.on} ELSE files
  /\ UNCHANGED <<hookOf, placed, now, queue, wanted, raisesLeft>>

(* A background upload that had failed, a lease, or a close raises.        *)
MayRaise == \/ Step \in {"executor", "store", "arena", "registry", "pool"} /\ Opened
            \/ Step = "leases" /\ "arena" \in Current.open
CloseRaises ==
  /\ Doing({"removing", "abandoned"}) /\ Current.todo # <<>> /\ MayRaise /\ raisesLeft > 0
  /\ raisesLeft' = raisesLeft - 1
  /\ hooks' = [hooks EXCEPT ![now].life = IF @ = "removing" THEN "attached" ELSE "lost",
                            ![now].todo = <<>>, ![now].failed = Step]
  /\ now' = 0 /\ ToDo(<<>>)
  /\ UNCHANGED <<hookOf, forward, files, placed>>

Unregister ==
  /\ Doing({"removing", "abandoned"}) /\ Current.todo = <<>>
  /\ hooks'  = [hooks EXCEPT ![now].life = IF @ = "removing" THEN "removed" ELSE "lost"]
  /\ hookOf' = IF Current.life = "removing" THEN [hookOf EXCEPT ![Current.on] = 0] ELSE hookOf
  /\ now' = 0
  /\ UNCHANGED <<forward, files, placed, queue, wanted, raisesLeft>>

LifeNext ==
  \/ BeginEnable \/ BeginRemove \/ RefuseCall \/ PlaceUnhooked \/ RemoveEarlier \/ CreateHook
  \/ OpenNext \/ OpenRaises \/ RegisterHook \/ CloseNext \/ CloseRaises \/ Unregister

LifeSpec == LifeInit /\ [][LifeNext]_lifeVars

------------------------------------------------------------------------------
(* Properties *)

(* A hook that is gone has left nothing open, although removals raised and *)
(* were tried again.  The exception: once its arena or store is closed and *)
(* the registry or the pool refuses, the next removal takes it for closed. *)
LeavesNothing ==
  \A h \in DOMAIN hooks : hooks[h].life = "removed" =>
    \/ hooks[h].open = {}
    \/ hooks[h].failed \in {"registry", "pool"} /\ hooks[h].open \cap {"active", "arena", "store", "patches", "groups", "executor"} = {}

(* The files that an arena or a store reads from outlive it.               *)
FilesOutliveArena ==
  \A h \in DOMAIN hooks :
    hooks[h].reads /\ hooks[h].open \cap {"arena", "store"} # {} /\ hooks[h].life # "lost"
      => hooks[h].on \in files

(* No component has two hooks, and none runs forwards of a hook that is     *)
(* gone, not even after hooks that were lost lie beneath later ones.       *)
OneHook ==
  /\ \A g, h \in DOMAIN hooks : hooks[g].on = hooks[h].on /\ {hooks[g].life, hooks[h].life} \cap {"removed", "lost"} = {} => g = h
  /\ \A c \in Component : forward[c] # 0 => hooks[forward[c]].life # "removed" /\ hooks[forward[c]].on = c

RemovedIsUndone == LeavesNothing /\ FilesOutliveArena /\ OneHook
==============================================================================
