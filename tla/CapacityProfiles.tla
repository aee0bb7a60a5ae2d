--------------------------- MODULE CapacityProfiles ---------------------------
(***************************************************************************)
(* Named workload profiles: a calibration measures the peak of a workload  *)
(* without resident modules and saves a recommended resident budget; later *)
(* runs apply it.  In the SDNQ runtime the first recommendation may be a   *)
(* bold one, to be tried by the next run (a probe) and then corrected.     *)
(*                                                                         *)
(* Runners are processes that share the profile's file.  A runner reads    *)
(* the file, writes a temporary one and replaces the profile with it; it   *)
(* may be killed at any point, a half written file included.               *)
(*                                                                         *)
(* Memory is counted in whole GiB.  The driver's view of the device is     *)
(* that of one workload at a time.                                         *)
(***************************************************************************)
EXTENDS Integers

CONSTANTS
  Runner,        \* processes that use the profile
  Total,         \* memory of the device
  Headroom,      \* profile_vram_headroom_gb
  Ceiling,       \* max_resident_module_budget_gb, 0 for none
  ProbeCeiling,  \* _SDNQ_DEFAULT_RESIDENT_CEILING_GB
  ProbeMinSafe,  \* _SDNQ_PROBE_MIN_SAFE_BUDGET_GB
  Limits,        \* values of a capacity metric
  VmmBytes,      \* virtual bytes of the VMM runtime, one of Limits
  MaxRuns        \* bound: runs of all runners

ASSUME ProfilesAssumption ==
  /\ {Total, Headroom, Ceiling, ProbeCeiling, MaxRuns} \subseteq Nat
  /\ ProbeMinSafe \in 0 .. Total
  /\ Limits \subseteq Nat /\ VmmBytes \in Limits

VARIABLES
  runtime,       \* execution_mode: part of the profile's identity
  base,          \* peak of the workload without resident modules
  candidates,    \* memory of all modules that may become resident
  profile,       \* the file: NoProfile, Torn, or a record
  temporary,     \* the temporary file of each runner
  stage,         \* where each runner stands
  status,        \* report["status"]
  granted,       \* resident budget of each runner's present run
  draft,         \* the record that each runner is about to save
  tried,         \* largest budget with which the workload came through
  runsLeft       \* runs still to come

profileVars == <<runtime, base, candidates, profile, temporary, stage, status,
                 granted, draft, tried, runsLeft>>

Lower(x, y)  == IF x < y THEN x ELSE y
Higher(x, y) == IF x < y THEN y ELSE x

(* budget and probe of the recommendation, 0 for no probe; recommended is  *)
(* FALSE when there is none.  best and worst: max_success and min_failure, *)
(* 0 for none.                                                             *)
Record == [recommended : BOOLEAN, budget : 0 .. Total, probe : 0 .. Total,
           best : Limits \cup {0}, worst : Limits \cup {0}]
Blank     == [recommended |-> FALSE, budget |-> 0, probe |-> 0, best |-> 0, worst |-> 0]
NoProfile == [Blank EXCEPT !.probe = -1]
Torn      == [Blank EXCEPT !.probe = -2]

Runtimes  == {"linear_runtime", "sdnq_runtime", "vmm_fast_runtime"}

ProfilesTypeOK ==
  /\ runtime \in Runtimes
  /\ base \in 0 .. Total /\ candidates \in Nat
  /\ profile \in Record \cup {NoProfile, Torn}
  /\ temporary \in [Runner -> Record \cup {NoProfile, Torn}]
  /\ stage \in [Runner -> {"idle", "region", "read", "write", "flush", "replace"}]
  /\ status \in [Runner -> {"disabled", "calibrating", "observing_vmm", "observed", "missing",
                            "applied", "probing", "observing", "saved", "failed"}]
  /\ granted \in [Runner -> 0 .. Total]
  /\ draft \in [Runner -> Record]
  /\ tried \in 0 .. Total /\ runsLeft \in 0 .. MaxRuns

ProfilesInit ==
  /\ runtime \in Runtimes
  /\ base \in 1 .. Total /\ candidates \in 1 .. ProbeCeiling + 1
  /\ profile = NoProfile /\ tried = 0
  /\ temporary = [p \in Runner |-> NoProfile]
  /\ stage = [p \in Runner |-> "idle"]
  /\ status = [p \in Runner |-> "disabled"]
  /\ granted = [p \in Runner |-> 0]
  /\ draft = [p \in Runner |-> Blank]
  /\ runsLeft = MaxRuns

------------------------------------------------------------------------------
(* load_dynamic_offload_profile takes a file that does not parse for none. *)
Loaded == IF profile \in {NoProfile, Torn} THEN Blank ELSE profile

Capped(budget) == IF Ceiling > 0 THEN Lower(budget, Ceiling) ELSE budget

(* prepare: what the new run may keep resident, and what its measurement   *)
(* will mean.  The VMM runtime only observes; a budget that the caller     *)
(* gives goes before a recommendation.                                     *)
Prepared(call, explicit) ==
  LET run(st, budget) == [status |-> st, budget |-> budget] IN
  IF runtime = "vmm_fast_runtime"
    THEN run(IF call = "build" THEN "observing_vmm"
             ELSE IF Loaded = Blank THEN "missing" ELSE "observed", 0)
  ELSE IF call = "build" THEN run("calibrating", 0)
  ELSE IF call = "explicit" THEN run("disabled", explicit)
  ELSE IF ~Loaded.recommended THEN run("missing", 0)
  ELSE IF Loaded.probe > 0
    THEN run("probing", Lower(Loaded.probe, Capped(Loaded.budget)))
    ELSE run("applied", Capped(Loaded.budget))

Prepare(p, call) ==
  /\ stage[p] = "idle" /\ runsLeft > 0
  /\ \E explicit \in IF call = "explicit" THEN {ProbeMinSafe} ELSE {0} :
       /\ status'  = [status EXCEPT ![p] = Prepared(call, explicit).status]
       /\ granted' = [granted EXCEPT ![p] = Prepared(call, explicit).budget]
  /\ stage'    = [stage EXCEPT ![p] = "region"]
  /\ runsLeft' = runsLeft - 1
  /\ UNCHANGED <<runtime, base, candidates, profile, temporary, draft, tried>>

(* The modules that become resident may be fewer than the budget allows.   *)
PeakWith(budget) == base + Lower(budget, candidates)
Peak(p)          == PeakWith(granted[p])

(* What a runner knows goes with its run.                                  *)
Forget(p) == /\ granted' = [granted EXCEPT ![p] = 0]
             /\ draft'   = [draft EXCEPT ![p] = Blank]

(* The device runs out of memory, or the region raises for another reason: *)
(* nothing is saved.                                                       *)
RegionRaises(p) ==
  /\ stage[p] = "region"
  /\ stage'  = [stage EXCEPT ![p] = "idle"]
  /\ status' = [status EXCEPT ![p] = "failed"]
  /\ Forget(p)
  /\ UNCHANGED <<runtime, base, candidates, profile, temporary, tried, runsLeft>>

(* As a mutant, a peak above the target makes the budget negative.         *)
Target         == Higher(0, Total - Headroom)
Unbounded(pk)  == Total - pk - Headroom
SafeBudget(pk) == Higher(0, Total - pk - Headroom)
ProbeBudget          == Lower(IF Ceiling > 0 THEN Ceiling ELSE ProbeCeiling, Target)

(* The recommendation that a measured peak leads to.  As a mutant, a probe *)
(* is forgotten to be one.                                                 *)
Settle(pk, rec)   == [rec EXCEPT !.recommended = TRUE, !.budget = ProbeBudget, !.probe = 0]
Propose(pk, rec)  == [rec EXCEPT !.recommended = TRUE, !.budget = ProbeBudget, !.probe = ProbeBudget]
Safe(pk, rec)     == [rec EXCEPT !.recommended = TRUE, !.budget = SafeBudget(pk), !.probe = 0]

(* As a mutant, what a probe went over the target by is not taken off.     *)
Unrefined(budget, pk) == budget
Refined(budget, pk)   == Higher(0, budget - Higher(0, pk - Target))
Refine(budget, pk, rec) ==
  [rec EXCEPT !.recommended = TRUE, !.budget = Refined(budget, pk), !.probe = 0]

Recommend(p, rec) ==
  IF status[p] = "probing" THEN Refine(granted[p], Peak(p), rec)
  ELSE IF /\ runtime = "sdnq_runtime"
          /\ SafeBudget(Peak(p)) >= ProbeMinSafe
          /\ ProbeBudget > SafeBudget(Peak(p))
    THEN Propose(Peak(p), rec)
    ELSE Safe(Peak(p), rec)

(* The region comes through; calibrations and probes go on to save.        *)
RegionDone(p) ==
  /\ stage[p] = "region" /\ Peak(p) <= Total
  /\ tried' = Higher(tried, granted[p])
  /\ \/ /\ status[p] \in {"calibrating", "probing", "observing_vmm"}
        /\ stage' = [stage EXCEPT ![p] = "read"] /\ UNCHANGED <<granted, draft>>
     \/ /\ status[p] \in {"missing", "applied", "observed", "disabled"}
        /\ stage' = [stage EXCEPT ![p] = "idle"] /\ Forget(p)
  /\ UNCHANGED <<runtime, base, candidates, profile, temporary, status, runsLeft>>

(* A host that records an outcome of its own gives no recommendation: the  *)
(* one in the file is kept.                                                *)
Merge(outcome, value, rec) ==
  IF outcome = "success"
    THEN [rec EXCEPT !.best = Higher(value, @)]
    ELSE [rec EXCEPT !.worst = IF @ = 0 THEN value ELSE Lower(value, @)]

Observe(p) ==
  /\ stage[p] = "idle" /\ runsLeft > 0
  /\ \E outcome \in {"success", "failure"}, value \in Limits :
       draft' = [draft EXCEPT ![p] = Merge(outcome, value, Loaded)]
  /\ stage'    = [stage EXCEPT ![p] = "write"]
  /\ status'   = [status EXCEPT ![p] = "observing"]
  /\ runsLeft' = runsLeft - 1
  /\ UNCHANGED <<runtime, base, candidates, profile, temporary, granted, tried>>

(* record_dynamic_offload_profile: read, write a temporary file, replace.  *)
Read(p) ==
  /\ stage[p] = "read"
  /\ draft' = [draft EXCEPT ![p] = IF status[p] = "observing_vmm"
                                     THEN Merge("success", VmmBytes, Loaded)
                                     ELSE Recommend(p, Loaded)]
  /\ stage' = [stage EXCEPT ![p] = "write"]
  /\ UNCHANGED <<runtime, base, candidates, profile, temporary, status, granted, tried, runsLeft>>

(* The temporary file while it is being written; as a mutant, the profile  *)
(* itself is opened for writing.                                           *)
OpenTarget(p)    == profile' = Torn /\ UNCHANGED temporary
OpenTemporary(p) == temporary' = [temporary EXCEPT ![p] = Torn] /\ UNCHANGED profile

Write(p) ==
  /\ stage[p] = "write"
  /\ OpenTemporary(p)
  /\ stage' = [stage EXCEPT ![p] = "flush"]
  /\ UNCHANGED <<runtime, base, candidates, status, granted, draft, tried, runsLeft>>

Flush(p) ==
  /\ stage[p] = "flush"
  /\ temporary' = [temporary EXCEPT ![p] = draft[p]]
  /\ stage' = [stage EXCEPT ![p] = "replace"]
  /\ UNCHANGED <<runtime, base, candidates, profile, status, granted, draft, tried, runsLeft>>

Replace(p) ==
  /\ stage[p] = "replace"
  /\ profile'   = temporary[p]
  /\ temporary' = [temporary EXCEPT ![p] = NoProfile]
  /\ stage'     = [stage EXCEPT ![p] = "idle"]
  /\ status'    = [status EXCEPT ![p] = "saved"]
  /\ Forget(p)
  /\ UNCHANGED <<runtime, base, candidates, tried, runsLeft>>

(* The process is killed; its temporary file stays under a name that       *)
(* nobody will use again, so that it may be forgotten here.                *)
Kill(p) ==
  /\ stage[p] # "idle"
  /\ stage'  = [stage EXCEPT ![p] = "idle"]
  /\ status' = [status EXCEPT ![p] = "disabled"]
  /\ temporary' = [temporary EXCEPT ![p] = NoProfile]
  /\ Forget(p)
  /\ UNCHANGED <<runtime, base, candidates, profile, tried, runsLeft>>

ProfilesNext ==
  \E p \in Runner :
    \/ \E call \in {"build", "explicit", "plain"} : Prepare(p, call)
    \/ RegionRaises(p) \/ RegionDone(p) \/ Observe(p)
    \/ Read(p) \/ Write(p) \/ Flush(p) \/ Replace(p) \/ Kill(p)

ProfilesSpec == ProfilesInit /\ [][ProfilesNext]_profileVars

------------------------------------------------------------------------------
(* Properties *)

(* A run on a settled recommendation leaves the headroom free, unless the  *)
(* workload alone does not, however calibrations, probes, observations and *)
(* kills were mixed before it.  (A correction takes the whole probe for    *)
(* used: where the candidates are fewer, it is too small, and the run only *)
(* needs no more than one that came through.)                              *)
HeadroomKept ==
  \A p \in Runner : stage[p] = "region" /\ status[p] = "applied" =>
    \/ Peak(p) <= Higher(Target, base)
    \/ candidates < ProbeBudget /\ Peak(p) <= PeakWith(tried)

(* What is recommended without a reservation was tried, or follows from    *)
(* the measured baseline.                                                  *)
SettledWasTried ==
  profile.recommended /\ profile.probe = 0 =>
    profile.budget <= Higher(SafeBudget(base), tried)

(* Whenever a process is killed, the profile is there as it was, or as it  *)
(* was to be.                                                              *)
ProfileWhole == profile # Torn

==============================================================================
