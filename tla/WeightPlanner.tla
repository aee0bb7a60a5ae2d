---------------------------- MODULE WeightPlanner ----------------------------
(***************************************************************************)
(* What linear_runtime and sdnq_runtime decide when a hook is initialized: *)
(* how many bytes may stay on the device and be page-locked, which modules *)
(* stay, where every large tensor is put, whose forward is replaced, and   *)
(* which weights are page-locked.  A module can be prepared again after    *)
(* the hook was removed; the plan may then come from the plan cache.       *)
(*                                                                         *)
(* A tree is named_modules() without the root, in its order.  Only tensors *)
(* above small_tensor_threshold_bytes are in it: the smaller ones, biases  *)
(* and those of the root all go to the device.  Bytes are multiples of     *)
(* half a GiB, ratios are per cent.                                        *)
(***************************************************************************)
EXTENDS PackedSizes, SequencesExt

CONSTANTS
  LargeTensor,  \* tensors, some of several modules
  TensorBytes,  \* tensor |-> bytes
  Trees,        \* of records [name, prefix, inside, kind, tensors]
  Configs,      \* configurations of the first preparation
  Reconfigs     \* configurations of the second one

Kinds == {"linear", "embedding", "conv", "odd", "packed", "block"}

(* A module stands behind those it is in, and is in what they are in; one  *)
(* that can be streamed has its weight.                                    *)
TreeAssumption ==
  \A tr \in Trees :
    /\ tr = [i \in 1 .. Len(tr) |-> tr[i]] /\ Len(tr) \in Nat
    /\ \A i \in 1 .. Len(tr) :
         /\ tr[i].kind \in Kinds /\ tr[i].tensors \in Seq(LargeTensor)
         /\ tr[i].kind \in {"linear", "embedding", "conv"} => Len(tr[i].tensors) = 1
         /\ tr[i].inside \subseteq 1 .. i - 1
         /\ \A j \in tr[i].inside : tr[j].inside \subseteq tr[i].inside

(* What a configuration says of bytes, and of per cent, are numbers, and    *)
(* one of three orders is asked for.                                       *)
Amounts == {"resident", "maxResident", "requested", "pinBudget", "pinRatio", "maxPin",
            "ram", "ramHeadroom", "vram", "vramHeadroom", "fullPinRatio"}
ConfigAssumption ==
  \A c \in Configs \cup Reconfigs :
    /\ c.mode \in {"linear", "sdnq"} /\ c.profile \in BOOLEAN
    /\ \A f \in Amounts : c[f] \in Nat
    /\ {c.residentOrder, c.pinOrder} \subseteq {"first", "spread", "largest"}

ASSUME PlannerAssumption ==
  /\ TensorBytes \in [LargeTensor -> Nat \ {0}] /\ IsFiniteSet(LargeTensor)
  /\ TreeAssumption /\ ConfigAssumption

VARIABLES
  tree,
  cfg,          \* the configuration of the hook
  planStep,     \* where the initialization of the hook is
  prepared,     \* hooks initialized so far
  device,       \* tensor |-> where its data is
  locked,       \* tensors on the CPU whose data is page-locked
  planCache,    \* cached plans: what they depend on |-> the decision in them
  budget,       \* what the hook may use
  residents,    \* _resident_module_names, by their places in the tree
  wrapped,      \* modules whose forward is replaced
  toPin,        \* modules_to_pin
  fresh         \* tensors that this hook page-locked

planVars == <<tree, cfg, planStep, prepared, device, locked, planCache, budget, residents, wrapped, toPin, fresh>>

Decisions == {"none", "full_pin_zero_resident", "full_pin_profile_resident", "skip_insufficient_ram", "budgeted"}

(* Modules are known by their places in the tree.                          *)
Modules == DOMAIN tree

(* enable_dynamic_offload leaves packed layers to sdnq_runtime.            *)
Suits(c) == (c.mode = "sdnq") = (\E i \in Modules : tree[i].kind = "packed")

PlanTypeOK ==
  /\ tree \in Trees /\ Suits(cfg)
  /\ planStep \in {"idle", "plan", "residents", "place", "pin", "ready"} /\ prepared \in 0..2
  /\ device \in [LargeTensor -> {"cpu", "cuda"}]
  /\ locked \subseteq {t \in LargeTensor : device[t] = "cpu"} /\ fresh \subseteq LargeTensor
  /\ budget.resident \in Nat /\ budget.pin \in Nat /\ budget.decision \in Decisions
  /\ residents \cup wrapped \cup toPin \subseteq Modules

NoBudget == [resident |-> 0, pin |-> 0, decision |-> "none", skip |-> FALSE, full |-> FALSE, always |-> {}]

PlanInit ==
  /\ tree \in Trees /\ cfg \in Configs /\ Suits(cfg)
  /\ planStep = "idle" /\ prepared = 0
  /\ device = [t \in LargeTensor |-> "cpu"] /\ locked = {}
  /\ planCache = <<>> /\ budget = NoBudget
  /\ residents = {} /\ wrapped = {} /\ toPin = {} /\ fresh = {}

------------------------------------------------------------------------------
(* Sizes and orders *)

TensorsAt(i) == ToSet(tree[i].tensors)
WeightOf(i)  == tree[i].tensors[1]
TensorsIn(i) == UNION {TensorsAt(j) : j \in {k \in Modules : k = i \/ i \in tree[k].inside}}

(* Candidates of a selection: what is selected, with its bytes.            *)
Total(items)  == SizeOf(items, DOMAIN items)
TensorItems   == [t \in LargeTensor |-> [size |-> TensorBytes[t]]]
BytesIn(ts)   == SizeOf(TensorItems, ts)
ModuleBytes(i) == BytesIn(TensorsIn(i))
ModuleItems(K) == [i \in K |-> [size |-> ModuleBytes(i)]]
WeightItems(K) == [i \in K |-> [size |-> TensorBytes[WeightOf(i)]]]

(* Orders are sets of pairs.  Modules come in the order of the tree, and   *)
(* tensors, by where they are, in that of their modules.                   *)
InTree(K)       == {p \in K \X K : p[1] < p[2]}
InModules(K)    == {p \in K \X K : p[1][1] < p[2][1] \/ (p[1][1] = p[2][1] /\ p[1][2] < p[2][2])}
Ahead(order, k) == {p[1] : p \in {q \in order : q[2] = k}}

(* round(a / b): halves go to the even neighbour.                          *)
Nearest(a, b) == IF 2 * (a % b) < b \/ (2 * (a % b) = b /\ (a \div b) % 2 = 0)
                   THEN a \div b ELSE a \div b + 1

(* Indices of count items that are spread over n.                          *)
SpreadOver(n, count) ==
  IF count = 1 THEN {n \div 2} ELSE {Nearest(p * (n - 1), count - 1) : p \in 0 .. count - 1}

SpreadFirst(items, order, limit) ==
  LET n       == Cardinality(DOMAIN items)
      average == Max({1, Total(items) \div n})
      chosen  == SpreadOver(n, Max({1, Min({n, limit \div average})}))
  IN  {k \in DOMAIN items : n > 2 /\ Cardinality(Ahead(order, k)) \in chosen}

(* _spread_order has some items before the others, _largest_first_order    *)
(* leaves items of one size in their order.                                *)
Ordered(items, order, limit, selection) ==
  LET pairs == (DOMAIN items) \X (DOMAIN items)
      first == SpreadFirst(items, order, limit)
  IN  CASE selection = "first"   -> order
        [] selection = "spread"  -> {p \in pairs : \/ p[1] \in first /\ p[2] \notin first
                                                   \/ (p[1] \in first) = (p[2] \in first) /\ p \in order}
        [] selection = "largest" -> {p \in pairs : \/ items[p[1]].size > items[p[2]].size
                                                   \/ items[p[1]].size = items[p[2]].size /\ p \in order}

(* Items are taken in turn: an item is taken if it fits with those that    *)
(* were taken before it, and passed over otherwise.                        *)
Fits(used, size, limit) == used + size <= limit
FirstFit(items, order, limit) ==
  CHOOSE S \in SUBSET DOMAIN items :
    \A k \in DOMAIN items :
      k \in S <=> Fits(SizeOf(items, S \cap Ahead(order, k)), items[k].size, limit)

------------------------------------------------------------------------------
(* Patterns *)

Skipped(i) == tree[i].name \in cfg.skip

(* "auto" takes the prefix of numbered modules that has most bytes, and    *)
(* most modules if there are several.                                      *)
Repeated(p) == {i \in Modules : tree[i].prefix = p /\ ~Skipped(i) /\ ModuleBytes(i) > 0}
Outweighs(p, q) ==
  \/ Total(ModuleItems(Repeated(p))) > Total(ModuleItems(Repeated(q)))
  \/ /\ Total(ModuleItems(Repeated(p))) = Total(ModuleItems(Repeated(q)))
     /\ Cardinality(Repeated(p)) >= Cardinality(Repeated(q))
Inferred ==
  LET many == {p \in {tree[i].prefix : i \in Modules} \ {""} : Cardinality(Repeated(p)) >= 2}
  IN  IF many = {} THEN {}
      ELSE LET best == CHOOSE p \in many : \A q \in many : Outweighs(p, q)
           IN  {i \in Modules : tree[i].prefix = best}

Matched == {i \in Modules : tree[i].name \in cfg.patterns \/ (cfg.infer /\ i \in Inferred)}

Dense(i)      == tree[i].kind \in {"linear", "embedding"} \/ (tree[i].kind = "conv" /\ cfg.convolutions)
InResident(i) == tree[i].inside \cap residents # {}
Always(i)     == tree[i].name \in cfg.always

(* Packed parameters, each where it is first.                              *)
PackedLayers == {i \in Modules : /\ tree[i].kind = "packed" /\ ~Skipped(i)
                                 /\ i \notin residents /\ ~InResident(i)}
PackedPlaces == UNION {{i} \X (DOMAIN tree[i].tensors) : i \in PackedLayers}
TensorThere(p) == tree[p[1]].tensors[p[2]]
Packed == {p \in PackedPlaces : \A q \in Ahead(InModules(PackedPlaces), p) : TensorThere(q) # TensorThere(p)}
PackedItems(K) == [p \in K |-> [size |-> TensorBytes[TensorThere(p)]]]

------------------------------------------------------------------------------
(* The automatic budgets *)

PinCandidates ==
  IF cfg.mode = "sdnq" THEN PackedItems(Packed)
  ELSE WeightItems({i \in Modules : /\ Dense(i) /\ ~Skipped(i) /\ ~InResident(i)
                                    /\ i \notin residents /\ ~Always(i)
                                    /\ device[WeightOf(i)] = "cpu" /\ WeightOf(i) \notin locked})

ResidentCandidates == ModuleItems({i \in Matched : ~Skipped(i)})

UsableRam == Max({0, cfg.ram - cfg.ramHeadroom})

CanFullPin(weights, modules) ==
  /\ cfg.pin /\ cfg.pinBudget = 0 /\ cfg.pinRatio = 0 /\ cfg.resident = 0 /\ cfg.maxPin = 0
  /\ cfg.ram > 0 /\ weights > 0 /\ UsableRam >= weights
  /\ cfg.fullPinRatio > 0 /\ cfg.vram > 0 /\ modules >= cfg.fullPinRatio * cfg.vram

VramHeadroom(modules) ==
  CASE cfg.vramHeadroom > 0 -> cfg.vramHeadroom
    [] cfg.vramHeadroom = 0 /\ cfg.vram <= 17 -> IF 2 * modules <= 5 * cfg.vram THEN 6 ELSE 4
    [] cfg.vramHeadroom = 0 /\ cfg.vram \in 18..25 -> 5
    [] OTHER -> Max({6, (15 * cfg.vram) \div 100})

VramTarget(modules) == Max({2, cfg.vram - VramHeadroom(modules)})

AutoResident(modules) ==
  LET quarter == modules \div 4
      grown   == IF modules > cfg.vram THEN Min({modules, Max({quarter, VramTarget(modules)})}) ELSE quarter
      fitted  == IF cfg.vram > 0 THEN Min({grown, VramTarget(modules)}) ELSE quarter
      wanted  == IF cfg.profiled THEN Min({cfg.requested, modules}) ELSE fitted
  IN  IF cfg.maxResident > 0 THEN Min({wanted, cfg.maxResident}) ELSE wanted

AutoPin(weights) ==
  CASE weights <= 16      -> weights
    [] weights \in 17..32 -> (85 * weights) \div 100
    [] OTHER              -> (75 * weights) \div 100

(* _apply_auto_budget_policy, from the bytes that may be page-locked and    *)
(* the bytes that may be resident.                                         *)
BudgetFor(weights, modules) ==
  LET full     == CanFullPin(weights, modules)
      share    == Min({cfg.requested, modules})
      profile  == full /\ share > 0 /\ UsableRam >= weights + share
      resident == CASE cfg.resident = 0 /\ modules > 0 /\ ~full -> AutoResident(modules)
                    [] profile -> share
                    [] OTHER   -> cfg.resident
      own      == cfg.pinBudget > 0 \/ cfg.pinRatio > 0 \/ weights = 0
      room     == cfg.ram = 0 \/ UsableRam >= weights + resident
      capped   == LET b == IF full THEN weights ELSE AutoPin(weights)
                  IN  IF cfg.maxPin > 0 THEN Min({b, cfg.maxPin}) ELSE b
  IN  [resident |-> resident,
       pin      |-> CASE own -> cfg.pinBudget [] ~own /\ room -> capped [] OTHER -> 0,
       skip     |-> ~own /\ ~room,
       decision |-> CASE own                            -> budget.decision
                      [] ~own /\ ~room                  -> "skip_insufficient_ram"
                      [] ~own /\ room /\ profile         -> "full_pin_profile_resident"
                      [] ~own /\ room /\ full /\ ~profile -> "full_pin_zero_resident"
                      [] OTHER                          -> "budgeted"]

AutoBudget == BudgetFor(Total(PinCandidates), Total(ResidentCandidates))

------------------------------------------------------------------------------
(* One action per phase of the initialization *)

PlanKey(c) == <<device, c.skip, c.patterns, c.infer, c.always>>

Cached(k) == [j \in DOMAIN planCache \cup {k} |-> IF j \in DOMAIN planCache THEN planCache[j] ELSE "none"]

(* build_dynamic_offload_plan: a hit is a copy.                            *)
BuildPlan ==
  /\ planStep = "idle" /\ prepared < 2
  /\ cfg' \in IF prepared = 0 THEN {cfg} ELSE {c \in Reconfigs : Suits(c)}
  /\ budget' = [NoBudget EXCEPT !.decision = IF cfg'.cachePlan /\ PlanKey(cfg') \in DOMAIN planCache
                                               THEN planCache[PlanKey(cfg')] ELSE "none"]
  /\ planCache' = IF cfg'.cachePlan THEN Cached(PlanKey(cfg')) ELSE planCache
  /\ planStep' = "plan" /\ prepared' = prepared + 1
  /\ fresh' = {}
  /\ UNCHANGED <<tree, device, locked, residents, wrapped, toPin>>

(* The cached plan after the hook's own plan got a decision: the same, for *)
(* the hook has a copy.  As a mutant, the hook has the cached plan itself. *)
SharedPlan(d) == [k \in DOMAIN planCache |-> IF cfg.cachePlan /\ k = PlanKey(cfg) THEN d ELSE planCache[k]]
ClonedPlan(d) == planCache

(* A calibration keeps nothing resident; full pinning without residents     *)
(* gives up the modules that are always resident as well.                  *)
ApplyBudgets ==
  /\ planStep = "plan"
  /\ LET auto == IF cfg.auto THEN AutoBudget
                 ELSE [resident |-> cfg.resident, pin |-> cfg.pinBudget, skip |-> FALSE, decision |-> budget.decision]
         bare == auto.decision = "full_pin_zero_resident" /\ cfg.mode = "linear"
     IN  /\ budget' = [resident |-> IF cfg.profile THEN 0 ELSE auto.resident,
                       pin |-> auto.pin, decision |-> auto.decision, skip |-> auto.skip, full |-> bare,
                       always |-> IF bare \/ cfg.profile THEN {} ELSE cfg.always]
         /\ planCache' = ClonedPlan(auto.decision)
  /\ planStep' = "residents"
  /\ UNCHANGED <<tree, cfg, prepared, device, locked, residents, wrapped, toPin, fresh>>

SelectResidents ==
  /\ planStep = "residents"
  /\ LET order == Ordered(ResidentCandidates, InTree(DOMAIN ResidentCandidates), budget.resident, cfg.residentOrder)
     IN  residents' = IF budget.resident = 0 THEN {}
                      ELSE FirstFit(ResidentCandidates, order, budget.resident)
  /\ planStep' = "place"
  /\ UNCHANGED <<tree, cfg, prepared, device, locked, planCache, budget, wrapped, toPin, fresh>>

(* The walk over the tree: each module moves some tensors to the device,    *)
(* or to the CPU.  The last that moves a tensor leaves it where it is.     *)
LastMoves(moves, others, t) ==
  \E i \in Modules : t \in moves[i] /\ \A j \in Modules : j > i => t \notin others[j]

PassedOver(i) == Skipped(i) \/ InResident(i)

MoveAll(out, back) ==
  device' = [t \in LargeTensor |-> CASE LastMoves(out, back, t) -> "cuda"
                                     [] LastMoves(back, out, t) -> "cpu"
                                     [] OTHER -> device[t]]

(* Data moved to the device is no longer page-locked.                      *)
StillLocked(out) == {t \in locked : \A i \in Modules : t \notin out[i]}

(* _prepare_linear_runtime.                                                *)
Stays(i) == i \in residents \/ tree[i].name \in budget.always
Streamed == {i \in Modules : ~PassedOver(i) /\ ~Stays(i) /\ Dense(i)}
DenseOut ==
  [i \in Modules |-> CASE PassedOver(i)               -> {}
                       [] ~PassedOver(i) /\ Stays(i)  -> TensorsIn(i)
                       [] OTHER                       -> IF tree[i].kind = "odd" THEN TensorsAt(i) ELSE {}]
DenseBack == [i \in Modules |-> IF i \in Streamed THEN {WeightOf(i)} ELSE {}]

PlaceModules ==
  /\ planStep = "place" /\ cfg.mode = "linear"
  /\ MoveAll(DenseOut, DenseBack)
  /\ locked' = StillLocked(DenseOut)
  /\ wrapped' = Streamed
  /\ toPin' = {i \in Streamed : WeightOf(i) \in locked => \E j \in Modules : j < i /\ WeightOf(i) \in DenseOut[j]}
  /\ planStep' = "pin"
  /\ UNCHANGED <<tree, cfg, prepared, planCache, budget, residents, fresh>>

(* _select_linear_weights_to_pin: 0 is no limit, and 95 per cent is all.   *)
PinLimit(items) ==
  LET asked  == IF budget.pin = 0 THEN (Total(items) * cfg.pinRatio) \div 100 ELSE budget.pin
      capped == IF asked > 0 /\ cfg.maxPin > 0 THEN Min({asked, cfg.maxPin}) ELSE asked
  IN  IF Total(items) > 0 /\ capped >= (95 * Total(items)) \div 100 THEN 0 ELSE capped

DenseToPin ==
  LET items == WeightItems(toPin)
      limit == PinLimit(items)
  IN  IF budget.full \/ limit = 0 THEN toPin
      ELSE FirstFit(items, Ordered(items, InTree(toPin), limit, cfg.pinOrder), limit)

PinWeights ==
  /\ planStep = "pin"
  /\ fresh' = IF cfg.pin /\ toPin # {} /\ ~budget.skip THEN {WeightOf(i) : i \in DenseToPin} ELSE {}
  /\ locked' = locked \cup {t \in fresh' : device[t] = "cpu"}
  /\ planStep' = "ready"
  /\ UNCHANGED <<tree, cfg, prepared, device, planCache, budget, residents, wrapped, toPin>>

(* _select_sdnq_parameters_to_pin: what is page-locked already counts.     *)
PackedLimit ==
  LET bytes == Total(PackedItems(Packed))
  IN  Min({bytes}
          \cup (IF budget.pin > 0   THEN {budget.pin} ELSE {})
          \cup (IF cfg.pinRatio > 0 THEN {(bytes * cfg.pinRatio) \div 100} ELSE {})
          \cup (IF cfg.maxPin > 0   THEN {cfg.maxPin} ELSE {})
          \cup (IF cfg.ram > 0      THEN {UsableRam} ELSE {})
          \cup (IF ~cfg.pin \/ budget.skip THEN {0} ELSE {}))

PackedToPin ==
  LET held  == {p \in Packed : TensorThere(p) \in locked}
      order == Ordered(PackedItems(Packed), InModules(Packed), PackedLimit, cfg.pinOrder)
  IN  FirstFit(PackedItems(Packed \ held), order, Max({0, PackedLimit - Total(PackedItems(held))}))

(* _prepare_sdnq_runtime: a parameter of several layers is moved back by   *)
(* the first of them only.                                                 *)
PackedOut ==
  [i \in Modules |-> CASE PassedOver(i)                      -> {}
                       [] ~PassedOver(i) /\ i \in residents  -> TensorsIn(i)
                       [] OTHER -> IF tree[i].kind \in {"linear", "odd", "embedding"} THEN TensorsAt(i) ELSE {}]
PackedBack == [i \in Modules |-> {TensorThere(p) : p \in {q \in Packed : q[1] = i}}]

PlaceAndPinPacked ==
  /\ planStep = "place" /\ cfg.mode = "sdnq"
  /\ MoveAll(PackedOut, PackedBack)
  /\ fresh' = {t \in {TensorThere(p) : p \in PackedToPin} : device'[t] = "cpu"}
  /\ locked' = StillLocked(PackedOut) \cup fresh'
  /\ wrapped' = PackedLayers /\ toPin' = {}
  /\ planStep' = "ready"
  /\ UNCHANGED <<tree, cfg, prepared, planCache, budget, residents>>

(* deinitalize_hook: forwards come back, data stays where it is.           *)
RestorePlan ==
  /\ planStep = "ready"
  /\ planStep' = "idle"
  /\ residents' = {} /\ wrapped' = {} /\ toPin' = {}
  /\ UNCHANGED <<tree, cfg, prepared, device, locked, planCache, budget, fresh>>

(* Another module of the same class and structure takes its place.         *)
LoadAnother ==
  /\ planStep = "idle" /\ prepared = 1
  /\ device' = [t \in LargeTensor |-> "cpu"] /\ locked' = {} /\ fresh' = {}
  /\ UNCHANGED <<tree, cfg, planStep, prepared, planCache, budget, residents, wrapped, toPin>>

PlanNext == LoadAnother \/ BuildPlan \/ ApplyBudgets \/ SelectResidents \/ PlaceModules \/ PinWeights \/ PlaceAndPinPacked \/ RestorePlan

PlanSpec == PlanInit /\ [][PlanNext]_planVars

------------------------------------------------------------------------------
(* Properties *)

(* Bytes kept on the device by the budget stay within it, also when a      *)
(* module and its parent are both taken or modules share tensors; nothing  *)
(* that would still fit is left out, and a calibration keeps nothing.      *)
ResidentsFit ==
  /\ BytesIn(UNION {TensorsIn(i) : i \in residents}) <= budget.resident
  /\ cfg.profile => residents = {}
  /\ budget.resident > 0 =>
       \A i \in DOMAIN ResidentCandidates \ residents :
          Total(ModuleItems(residents)) + ModuleBytes(i) > budget.resident

(* An explicit limit of page-locked bytes is kept, up to the 5 per cent     *)
(* that make it all; whatever an earlier hook of the process decided.       *)
PinsAsAsked ==
  LET limit == IF cfg.maxPin > 0 THEN Min({cfg.pinBudget, cfg.maxPin}) ELSE cfg.pinBudget
  IN  cfg.pinBudget > 0 => 95 * BytesIn(fresh) < 100 * (limit + 1)

(* Pages locked on account of the automatic policy fit into the memory it  *)
(* was told of.  It does not count what joins later: modules that were to  *)
(* be always resident when full pinning or a calibration streams them, and,*)
(* after an earlier hook, what comes from the device.                      *)
Joining == {i \in Modules : Always(i) /\ tree[i].name \notin budget.always}
PinsFitRam ==
  cfg.auto /\ cfg.ram > 0 /\ cfg.pinBudget = 0 /\ cfg.pinRatio = 0 /\ prepared = 1
    => BytesIn(fresh) <= UsableRam + BytesIn(UNION {TensorsIn(i) : i \in Joining})

(* What a module computes with is on the device, or its forward brings it   *)
(* there, unless another module's forward does, which shares the tensor:   *)
(* that module's preparation takes it from the device.                     *)
Reachable ==
  \A i \in Modules \ wrapped :
    ~Skipped(i) /\ tree[i].kind \in {"linear", "embedding", "odd", "packed"} =>
      \A t \in TensorsAt(i) \ UNION {TensorsAt(j) : j \in wrapped} : device[t] = "cuda"

(* When a hook is ready, all this holds of it.                             *)
PlanFits == planStep = "ready" => ResidentsFit /\ PinsAsAsked /\ PinsFitRam /\ Reachable
==============================================================================
