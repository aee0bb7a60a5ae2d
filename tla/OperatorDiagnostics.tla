------------------------- MODULE OperatorDiagnostics -------------------------
(***************************************************************************)
(* DynamicOffloadOperatorDiagnostics: a scope that profiles chosen forwards *)
(* of one module and leaves a trace file of each.  One scope of the process *)
(* at a time owns the diagnostics.  Forwards of the module may be nested,  *)
(* raise, or be interrupted (an interrupt passes PyTorch's always_call      *)
(* hooks by).  Other processes may run scopes of the same code over the    *)
(* same directory: that a name is free is asked in one step, and the trace *)
(* is written in another, over whatever is there by then.                  *)
(***************************************************************************)
EXTENDS Naturals

CONSTANTS
  Probe,       \* scopes, one after the other or nested
  Requested,   \* Requested[p]: invocations that p is to capture
  Nobody,      \* not in Probe
  Elsewhere,   \* neither in Probe nor Nobody: other processes
  MaxForwards  \* bound: forwards that a scope sees

ASSUME ProbesAssumption ==
  Nobody \notin Probe /\ Elsewhere \notin Probe \cup {Nobody} /\ MaxForwards \in Nat

VARIABLES
  probe,       \* scope |-> its fields
  owner,       \* the scope that holds _owner
  traces,      \* invocation |-> who wrote its trace file
  elsewhere,   \* traces whose names other processes have found free
  depth        \* forwards of the module in progress

probeVars == <<probe, owner, traces, elsewhere, depth>>

Index   == 0 .. MaxForwards - 1
NoIndex == MaxForwards

ProbeState ==
  [scope : {"new", "active", "left", "raises"}, hooked : BOOLEAN, inForward : BOOLEAN,
   count : 0 .. MaxForwards, capturing : Index \cup {NoIndex}, writing : Index \cup {NoIndex},
   samples : SUBSET Index, dark : BOOLEAN, failed : BOOLEAN]

ProbesTypeOK ==
  /\ probe \in [Probe -> ProbeState] /\ owner \in Probe \cup {Nobody}
  /\ traces \in [Index -> Probe \cup {Nobody, Elsewhere}] /\ elsewhere \subseteq Index
  /\ depth \in 0 .. 2

ProbesInit ==
  /\ probe = [p \in Probe |->
       [scope |-> "new", hooked |-> FALSE, inForward |-> FALSE, count |-> 0,
        capturing |-> NoIndex, writing |-> NoIndex, samples |-> {}, dark |-> FALSE, failed |-> FALSE]]
  /\ owner = Nobody /\ depth = 0
  /\ traces = [i \in Index |-> Nobody] /\ elsewhere = {}

------------------------------------------------------------------------------
(* __enter__ refuses a second owner, a directory that already holds one of *)
(* the captures, and a PyTorch without CUDA tracing; a refusal leaves      *)
(* neither hooks nor the ownership.                                        *)
EnterProbe(p) ==
  /\ probe[p].scope = "new" /\ depth = 0
  /\ \/ /\ owner = Nobody /\ \A i \in Requested[p] : traces[i] = Nobody
        /\ owner' = p
        /\ probe' = [probe EXCEPT ![p].scope = "active", ![p].hooked = TRUE]
     \/ probe' = [probe EXCEPT ![p].scope = "raises"] /\ UNCHANGED owner
  /\ UNCHANGED <<traces, elsewhere, depth>>

(* _end: the profiler stops, unless that raises, and the name of the trace *)
(* is asked for; it is to be written when there is no such file.           *)
EndCapture(p, rec) ==
  LET ended == [rec EXCEPT !.inForward = FALSE, !.capturing = NoIndex] IN
  /\ \/ probe' = [probe EXCEPT ![p] = ended]
     \/ /\ rec.capturing # NoIndex /\ traces[rec.capturing] = Nobody
        /\ probe' = [probe EXCEPT ![p] = [ended EXCEPT !.writing = rec.capturing]]
  /\ UNCHANGED <<traces, elsewhere>>

(* A capture is a sample once its trace is exported.  As a mutant, before. *)
SampleAnyway(rec, i, exported, lit) ==
  [rec EXCEPT !.samples = @ \cup {i}, !.dark = @ \/ ~lit]
Sample(rec, i, exported, lit) ==
  IF exported THEN [rec EXCEPT !.samples = @ \cup {i}, !.dark = @ \/ ~lit] ELSE rec

(* The export, in the same call of _end; one that fails may leave a file.  *)
(* lit: there was CUDA activity; without it _end raises after the sample.  *)
Export(p) ==
  LET i == probe[p].writing IN
  /\ i # NoIndex
  /\ \E exported, lit \in BOOLEAN :
       /\ probe' = [probe EXCEPT ![p] = Sample([@ EXCEPT !.writing = NoIndex], i, exported, lit)]
       /\ \/ traces' = [traces EXCEPT ![i] = p]
          \/ ~exported /\ UNCHANGED traces
  /\ UNCHANGED <<owner, elsewhere, depth>>

(* _begin.  A forward inside another is refused: PyTorch still calls _end  *)
(* for it, which ends the capture of the outer one.  A profiler that does  *)
(* not start ends likewise.                                                *)
BeginForward(p) ==
  /\ owner = p /\ probe[p].writing = NoIndex /\ depth < 2
  /\ \/ probe[p].inForward /\ EndCapture(p, probe[p]) /\ UNCHANGED depth
     \/ /\ ~probe[p].inForward /\ probe[p].count < MaxForwards
        /\ LET i == probe[p].count
               begun == [probe[p] EXCEPT !.inForward = TRUE, !.count = @ + 1] IN
           \/ /\ probe' = [probe EXCEPT ![p] = IF i \in Requested[p]
                                                 THEN [begun EXCEPT !.capturing = i] ELSE begun]
              /\ depth' = depth + 1 /\ UNCHANGED <<traces, elsewhere>>
           \/ i \in Requested[p] /\ EndCapture(p, begun) /\ UNCHANGED depth
  /\ UNCHANGED owner

EndForward(p) ==
  /\ owner = p /\ probe[p].writing = NoIndex /\ depth > 0
  /\ EndCapture(p, probe[p])
  /\ depth' = depth - 1
  /\ UNCHANGED owner

Interrupt ==
  /\ depth > 0 /\ \A p \in Probe : probe[p].writing = NoIndex
  /\ depth' = 0
  /\ UNCHANGED <<probe, owner, traces, elsewhere>>

(* The same two steps in another process.                                  *)
OtherFindsFree(i) ==
  /\ traces[i] = Nobody
  /\ elsewhere' = elsewhere \cup {i}
  /\ UNCHANGED <<probe, owner, traces, depth>>

OtherExports(i) ==
  /\ i \in elsewhere
  /\ traces' = [traces EXCEPT ![i] = Elsewhere]
  /\ UNCHANGED <<probe, owner, elsewhere, depth>>

(* __exit__ stops a profiler that an interrupt left on, and removes the     *)
(* hooks whatever that raises.  As a mutant, not after an exception.       *)
RemoveUnless(p, raised) == IF raised THEN UNCHANGED owner ELSE owner' = Nobody
Remove(p, raised)       == owner' = Nobody

ExitProbe(p) ==
  /\ probe[p].scope = "active" /\ probe[p].writing = NoIndex /\ depth = 0
  /\ \E raised, stopRaises \in BOOLEAN :
       /\ stopRaises => probe[p].capturing # NoIndex
       /\ probe' = [probe EXCEPT ![p].scope = "left", ![p].hooked = FALSE,
                                 ![p].capturing = NoIndex, ![p].failed = raised \/ stopRaises]
       /\ Remove(p, raised)
  /\ UNCHANGED <<traces, elsewhere, depth>>

ProbeStatus(p) ==
  CASE probe[p].scope # "left" -> "not_finished"
    [] probe[p].failed         -> "failed"
    [] probe[p].samples # Requested[p] -> "incomplete"
    [] probe[p].dark           -> "cuda_activity_unavailable"
    [] OTHER                   -> "complete"

ProbesNext ==
  \/ \E p \in Probe :
       EnterProbe(p) \/ BeginForward(p) \/ EndForward(p) \/ Export(p) \/ ExitProbe(p)
  \/ Interrupt
  \/ \E i \in Index : OtherFindsFree(i) \/ OtherExports(i)

ProbesSpec == ProbesInit /\ [][ProbesNext]_probeVars

------------------------------------------------------------------------------
(* Properties *)

(* The diagnostics belong to the one scope that has hooks on a module, and *)
(* a scope that was left, by whatever exception, has neither.              *)
OwnerIsHooked ==
  \A p \in Probe : /\ owner = p <=> probe[p].hooked
                   /\ probe[p].hooked => probe[p].scope = "active"

(* A report that calls itself complete has a trace file of every forward   *)
(* it was to capture, and the file is its own, whatever other scopes asked *)
(* for the same forwards; only another process that found the name free    *)
(* before the export can have replaced it.                                 *)
CompleteIsCaptured ==
  \A p \in Probe : ProbeStatus(p) = "complete" =>
    \A i \in Requested[p] : traces[i] = p \/ (i \in elsewhere /\ traces[i] = Elsewhere)

==============================================================================
