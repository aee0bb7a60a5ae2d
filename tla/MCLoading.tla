------------------------------ MODULE MCLoading ------------------------------
(***************************************************************************)
(* The way of weights from checkpoint files to a forward: how they are      *)
(* read and what is known of where they came from, where a plan puts them, *)
(* how they are page-locked and lent to a layer, and how the hook that     *)
(* does so comes and goes.  The parts share no state, so that a behaviour  *)
(* runs one of them.                                                       *)
(***************************************************************************)
EXTENDS CheckpointReads, SourceRegistry, RegisteredHost, LoaderPatch,
        WeightPlanner, PinnedWeights, WeightLending, HookLife

CONSTANTS w1, w2, w3, a1, a2
VARIABLE loading

(* Reading, sources and registration.                                      *)
Slice(p, o, z) == [path |-> p, offset |-> o, size |-> z]
MCSlices   == {Slice("f", 0, 2), Slice("f", 2, 1), Slice("g", 2, 1), Slice("f", 3, 2)}
MCPages    == (w1 :> "p") @@ (w2 :> "p") @@ (w3 :> "q")
MCBytes    == (w1 :> 1) @@ (w2 :> 1) @@ (w3 :> 2)
MCOverlaps == {{a1, a2}}

(* Three trees: blocks with a tensor that cannot be streamed, numbered      *)
(* layers, and packed layers that share a tensor.                          *)
MCTensorBytes == ("q0" :> 6) @@ ("q1" :> 9) @@ ("q2" :> 5) @@ ("r0" :> 2) @@ ("r1" :> 3) @@ ("e" :> 8)
Node(n, p, i, k, ts) == [name |-> n, prefix |-> p, inside |-> i, kind |-> k, tensors |-> ts]
BlockTree  == << Node("emb", "", {}, "embedding", <<"e">>),
                 Node("b0", "b", {}, "block", <<>>), Node("b0.q", "", {2}, "linear", <<"q0">>), Node("b0.o", "", {2}, "odd", <<"r0">>),
                 Node("b1", "b", {}, "block", <<>>), Node("b1.q", "", {5}, "linear", <<"q1">>),
                 Node("r0", "r", {}, "linear", <<"q2">>), Node("r1", "r", {}, "conv", <<"r1">>) >>
LayerTree  == << Node("e", "", {}, "embedding", <<"e">>), Node("b0", "b", {}, "linear", <<"q0">>),
                 Node("b1", "b", {}, "linear", <<"q1">>), Node("r0", "", {}, "linear", <<"q2">>) >>
PackedTree == << Node("b0", "b", {}, "block", <<>>), Node("b0.q", "", {1}, "packed", <<"q0", "r0">>),
                 Node("b1", "b", {}, "block", <<>>), Node("b1.q", "", {3}, "packed", <<"q1", "r0">>),
                 Node("k", "", {}, "packed", <<"q2">>), Node("d", "", {}, "linear", <<"e">>) >>
MCTrees == {BlockTree, LayerTree, PackedTree}

Plain == [mode |-> "linear", auto |-> TRUE, profile |-> FALSE, profiled |-> FALSE, cachePlan |-> TRUE, pin |-> TRUE,
          skip |-> {}, patterns |-> {}, infer |-> TRUE, always |-> {}, convolutions |-> FALSE,
          resident |-> 0, maxResident |-> 0, requested |-> 0, residentOrder |-> "first",
          pinBudget |-> 0, pinRatio |-> 0, maxPin |-> 0, pinOrder |-> "first",
          ram |-> 0, ramHeadroom |-> 2, vram |-> 0, vramHeadroom |-> 0, fullPinRatio |-> 2]
Automatic == {[Plain EXCEPT !.always = a, !.requested = q, !.profiled = q > 0, !.ram = r, !.vram = v, !.vramHeadroom = h, !.maxPin = p] :
                a \in {{}, {"r0"}}, q \in {0, 4}, r \in {0, 14, 26, 40}, v \in {0, 6, 14, 24, 40}, h \in {0, 3}, p \in {0, 12}}
Explicit  == {[Plain EXCEPT !.auto = a, !.resident = b, !.residentOrder = o, !.pinOrder = o, !.pinBudget = p, !.pinRatio = r, !.patterns = n] :
                a \in BOOLEAN, b \in {0, 14, 20}, o \in {"first", "spread", "largest"}, p \in {0, 9, 14}, r \in {0, 50},
                n \in {{}, {"b1", "b1.q", "emb"}}}
Others    == {[Plain EXCEPT !.skip = {"b0.q"}], [Plain EXCEPT !.pin = FALSE], [Plain EXCEPT !.convolutions = TRUE, !.infer = FALSE],
              [Plain EXCEPT !.cachePlan = FALSE], [Plain EXCEPT !.vram = 6, !.maxResident = 7],
              [Plain EXCEPT !.profile = TRUE, !.always = {"emb", "e", "b0", "b1", "b0.q", "b1.q", "r0"}, !.ram = 14]}
MCConfigs   == {[c EXCEPT !.mode = d] : c \in Automatic \cup Explicit \cup Others, d \in {"linear", "sdnq"}}
MCReconfigs == {[Plain EXCEPT !.mode = d, !.auto = a, !.profile = p, !.pinBudget = b, !.ram = r] :
                  d \in {"linear", "sdnq"}, a \in BOOLEAN, p \in BOOLEAN, b \in {0, 9}, r \in {0, 14}}

(* Three hooks page-lock weights of a common name.  Two are on models of    *)
(* one class and have no namespace configured, the third has its own.      *)
MCPinList    == ("g" :> {"n1", "n2", "n3"}) @@ ("h" :> {"n1"}) @@ ("k" :> {"n1"})
MCConfigured == ("g" :> "") @@ ("h" :> "") @@ ("k" :> "U")
MCClassName  == ("g" :> "T") @@ ("h" :> "T") @@ ("k" :> "T")

(* One layer of each kind, with parameters that two or three share.        *)
MCKindOf       == ("lin" :> "linear") @@ ("emb" :> "embedding") @@ ("pk" :> "packed") @@ ("cv" :> "conv")
MCParametersOf == ("lin" :> <<"w", "b">>) @@ ("emb" :> <<"w">>) @@ ("pk" :> <<"q", "s", "b">>) @@ ("cv" :> <<"k", "kb">>)

(* Every runtime and route, for one component or for the pipeline.         *)
Ask == [route |-> "auto", direct |-> FALSE, pipeline |-> FALSE, apply |-> TRUE, enabled |-> TRUE, group |-> FALSE,
        dynamic |-> TRUE, profile |-> FALSE, mode |-> "vmm", convolutions |-> FALSE, hostCache |-> FALSE,
        native |-> FALSE, reclaim |-> FALSE]
MCRequests ==
  {[Ask EXCEPT !.mode = m, !.hostCache = (m = "vmm"), !.pipeline = p] :
     m \in {"vmm", "fast", "plan"}, p \in BOOLEAN}
  \cup {[Ask EXCEPT !.mode = "fast", !.native = TRUE, !.reclaim = TRUE],
        [Ask EXCEPT !.mode = "linear", !.direct = TRUE], [Ask EXCEPT !.apply = FALSE],
        [Ask EXCEPT !.group = TRUE], [Ask EXCEPT !.group = TRUE, !.profile = TRUE],
        [Ask EXCEPT !.dynamic = FALSE, !.pipeline = TRUE],
        [Ask EXCEPT !.route = "linear_convolution", !.mode = "linear", !.convolutions = TRUE],
        [Ask EXCEPT !.route = "dynamic_offload", !.enabled = FALSE, !.mode = "plan", !.pipeline = TRUE]}

------------------------------------------------------------------------------
LoadingVars == <<loading, readVars, sourceVars, hostVars, patchVars, planVars, pinVars, lendVars, lifeVars>>

(* A part that is not run has one initial state.                           *)
MCInit ==
  /\ loading \in {"reads", "sources", "registration", "patch", "planning", "pinning", "lending", "life"}
  /\ \/ loading = "planning"
     \/ loading # "planning" /\ tree = LayerTree /\ cfg = Plain
  /\ \/ loading = "reads"
     \/ loading # "reads" /\ overlapped = TRUE
  /\ \/ loading = "registration"
     \/ loading # "registration" /\ pinned = [p \in Page |-> "no"]
  /\ \/ loading = "sources"
     \/ /\ loading # "sources"
        /\ headers = [t \in Tensor |-> {}] /\ converted = FALSE /\ misfit = {} /\ retained = {}
        /\ at = [t \in Tensor |-> a1]
  /\ PlanInit /\ ReadsInit /\ HostInit /\ PatchInit /\ SourcesInit /\ PinInit /\ LendInit /\ LifeInit

MCNext ==
  /\ UNCHANGED loading
  /\ \/ /\ UNCHANGED <<planVars, pinVars, lendVars, lifeVars>>
        /\ \/ loading = "reads"        /\ ReadsNext   /\ UNCHANGED <<sourceVars, hostVars, patchVars>>
           \/ loading = "sources"      /\ SourcesNext /\ UNCHANGED <<readVars, hostVars, patchVars>>
           \/ loading = "registration" /\ HostNext    /\ UNCHANGED <<readVars, sourceVars, patchVars>>
           \/ loading = "patch"        /\ PatchNext   /\ UNCHANGED <<readVars, sourceVars, hostVars>>
     \/ /\ UNCHANGED <<readVars, sourceVars, hostVars, patchVars>>
        /\ \/ loading = "planning"     /\ PlanNext    /\ UNCHANGED <<pinVars, lendVars, lifeVars>>
           \/ loading = "pinning"      /\ PinNext     /\ UNCHANGED <<planVars, lendVars, lifeVars>>
           \/ loading = "lending"      /\ LendingNext /\ UNCHANGED <<planVars, pinVars, lifeVars>>
           \/ loading = "life"         /\ LifeNext    /\ UNCHANGED <<planVars, pinVars, lendVars>>

MCSpec == MCInit /\ [][MCNext]_LoadingVars

(* The variables of every part are of their types.                         *)
LoadingTypeOK ==
  /\ ReadsTypeOK /\ SourcesTypeOK /\ HostTypeOK /\ PatchTypeOK
  /\ PlanTypeOK /\ PinTypeOK /\ LendTypeOK /\ LifeTypeOK
==============================================================================
