----------------------------- MODULE LoaderPatch -----------------------------
(***************************************************************************)
(* _temporary_safetensors_backend: during a load, safetensors.safe_open and *)
(* the copies of it that loader modules took when they were imported are    *)
(* replaced by a wrapper that notes the files opened; afterwards the        *)
(* replaced values are put back.  Loads may be nested, and each may raise.  *)
(* load_file is patched in the same way and is left out.                    *)
(***************************************************************************)
EXTENDS Naturals, SequencesExt

CONSTANTS
  Load,         \* loads, each of one use
  Importer,     \* the loader modules of accelerate, transformers and diffusers
  EarlyImports, \* those imported before any load
  Shard,        \* checkpoint files
  Original,     \* safetensors.safe_open
  NotImported   \* no function

ASSUME PatchAssumption ==
  /\ EarlyImports \subseteq Importer
  /\ Original \notin Load /\ NotImported \notin Load \cup {Original}

VARIABLES
  safeOpen,     \* safetensors.safe_open: Original, or the wrapper of a load
  captured,     \* importer |-> its safe_open
  saved,        \* load |-> original_safe_open
  patched,      \* load |-> importers to be put back
  active,       \* loads in progress, innermost last
  opened,       \* load |-> opened_files
  readFor       \* load |-> files that were read for it

patchVars == <<safeOpen, captured, saved, patched, active, opened, readFor>>

Function == {Original} \cup Load

PatchTypeOK ==
  /\ safeOpen \in Function /\ captured \in [Importer -> Function \cup {NotImported}]
  /\ saved \in [Load -> Function \cup {NotImported}] /\ patched \in [Load -> SUBSET Importer]
  /\ active \in Seq(Load)
  /\ opened \in [Load -> SUBSET Shard] /\ readFor \in [Load -> SUBSET Shard]

PatchInit ==
  /\ safeOpen = Original
  /\ captured = [i \in Importer |-> IF i \in EarlyImports THEN Original ELSE NotImported]
  /\ saved = [l \in Load |-> NotImported] /\ patched = [l \in Load |-> {}]
  /\ active = <<>>
  /\ opened = [l \in Load |-> {}] /\ readFor = [l \in Load |-> {}]

------------------------------------------------------------------------------
(* The importers to be patched are those whose copy is the value that this *)
(* load replaces.  As a mutant, all are thought to look it up at each call.*)
NoImporter      == {}
ImportersToPatch == {i \in Importer : captured[i] = safeOpen}

(* safetensors is patched first: an importer that is imported only now      *)
(* takes the wrapper for the original.                                      *)
EnterLoad(l) ==
  /\ saved[l] = NotImported
  /\ saved'    = [saved EXCEPT ![l] = safeOpen]
  /\ safeOpen' = l
  /\ patched'  = [patched EXCEPT ![l] = ImportersToPatch]
  /\ captured' = [i \in Importer |-> IF i \in ImportersToPatch \/ captured[i] = NotImported
                                       THEN l ELSE captured[i]]
  /\ active'   = Append(active, l)
  /\ UNCHANGED <<opened, readFor>>

(* A wrapper notes the file and calls what it replaced: the wrappers that  *)
(* a call of f passes are the least set with f and what they replaced.     *)
ClosedUnder(f, S) == f \in S \cup {Original} /\ \A k \in S : saved[k] \in S \cup {Original}
Through(f)       == {l \in Load : \A S \in SUBSET Load : ClosedUnder(f, S) => l \in S}

ReadShard(p) ==
  /\ active # <<>>
  /\ \E f \in ({safeOpen} \cup {captured[i] : i \in Importer}) \ {NotImported} :
       opened' = [l \in Load |-> IF l \in Through(f) THEN opened[l] \cup {p} ELSE opened[l]]
  /\ readFor' = [l \in Load |-> IF l \in ToSet(active) THEN readFor[l] \cup {p} ELSE readFor[l]]
  /\ UNCHANGED <<safeOpen, captured, saved, patched, active>>

(* The importers are put back.  As a mutant, they are not.                 *)
KeepImporters(l) == captured
PutBack(l)       == [i \in Importer |-> IF i \in patched[l] THEN saved[l] ELSE captured[i]]

(* The load ends or raises.                                                *)
ExitLoad(l) ==
  /\ active # <<>> /\ Last(active) = l
  /\ active'   = Front(active)
  /\ captured' = PutBack(l)
  /\ safeOpen' = saved[l]
  /\ UNCHANGED <<saved, patched, opened, readFor>>

PatchNext ==
  \/ \E l \in Load : EnterLoad(l) \/ ExitLoad(l)
  \/ \E p \in Shard : ReadShard(p)

PatchSpec == PatchInit /\ [][PatchNext]_patchVars

------------------------------------------------------------------------------
(* Properties *)

(* After all loads, nested ones and failed ones included, the process has  *)
(* the functions it had.                                                   *)
PatchUndone ==
  active = <<>> => safeOpen = Original /\ \A i \in Importer : captured[i] \in {Original, NotImported}

(* A load reports the files that were opened while it ran, whichever way    *)
(* the loader reaches safe_open.                                            *)
OpensReported == \A l \in Load : readFor[l] \subseteq opened[l]

==============================================================================
