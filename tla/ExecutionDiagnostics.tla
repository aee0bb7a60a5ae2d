------------------------- MODULE ExecutionDiagnostics -------------------------
(***************************************************************************)
(* DynamicOffloadExecutionTimer and DynamicOffloadAllocationDiagnostics:   *)
(* scopes of one use around a run.  A timer attaches a native timeline to  *)
(* the store of the component and records events on the compute stream; an *)
(* allocation scope switches on counters of the whole process.  Every call *)
(* into CUDA or into the native component may raise, and so may the body.  *)
(***************************************************************************)
EXTENDS Naturals

CONSTANTS
  Timer,     \* execution timers on one store
  Gauge,     \* allocation scopes
  Detached,  \* not in Timer: the store has no timeline
  MaxSteps   \* bound: steps marked in a scope

ASSUME ScopesAssumption == Detached \notin Timer /\ MaxSteps \in Nat

VARIABLES
  timer,     \* timer |-> its fields
  timeline,  \* store._timeline
  gauge,     \* allocation scope |-> its fields
  counting   \* the native switch set by set_allocation_diagnostics

scopeVars == <<timer, timeline, gauge, counting>>

(* scope: __enter__ and __exit__; raises: __enter__ raised.                *)
Scope      == {"new", "active", "left", "raises"}
TimerState == [scope : Scope, native : {"none", "open", "sealed"}, events : 0 .. MaxSteps + 1,
               failed : BOOLEAN, end : {"none", "unrecorded", "pending", "reached"}]
GaugeState == [scope : Scope, baseline : BOOLEAN, steps : 0 .. MaxSteps, final : BOOLEAN,
               failed : BOOLEAN, error : BOOLEAN, stuck : BOOLEAN]

ScopesTypeOK ==
  /\ timer \in [Timer -> TimerState] /\ timeline \in Timer \cup {Detached}
  /\ gauge \in [Gauge -> GaugeState] /\ counting \in BOOLEAN

ScopesInit ==
  /\ timer = [t \in Timer |-> [scope |-> "new", native |-> "none", events |-> 0,
                               failed |-> FALSE, end |-> "none"]]
  /\ timeline = Detached
  /\ gauge = [g \in Gauge |-> [scope |-> "new", baseline |-> FALSE, steps |-> 0, final |-> FALSE,
                               failed |-> FALSE, error |-> FALSE, stuck |-> FALSE]]
  /\ counting = FALSE

------------------------------------------------------------------------------
(* The timer *)

(* The factory attaches the timeline before its first boundary is marked,  *)
(* and what that raises is not caught; the first event's failure is.       *)
TimerEnter(t, native) ==
  /\ timer[t].scope = "new"
  /\ \/ /\ timer' = [timer EXCEPT ![t].scope = "active", ![t].events = 1,
                                  ![t].native = IF native THEN "open" ELSE "none"]
        /\ timeline' = IF native THEN t ELSE timeline
     \/ /\ native
        /\ timer' = [timer EXCEPT ![t].scope = "raises", ![t].native = "open"]
        /\ timeline' = t
     \/ /\ timer' = [timer EXCEPT ![t].scope = "raises", ![t].failed = TRUE,
                                  ![t].native = IF native THEN "sealed" ELSE "none"]
        /\ timeline' = IF native THEN Detached ELSE timeline
  /\ UNCHANGED <<gauge, counting>>

MarkStep(t) ==
  /\ timer[t].scope = "active" /\ timer[t].events <= MaxSteps
  /\ timer' = [timer EXCEPT ![t].events = @ + 1]
  /\ UNCHANGED <<timeline, gauge, counting>>

(* The last boundary and the seal; as a mutant, they are left out after a  *)
(* body that raised.                                                       *)
SealUnlessRaised(t, raised) == ~raised \/ timer[t].native = "none"
Seal(t, raised)             == TRUE

(* The end event is there only when neither raises, and may not be         *)
(* recorded; the timeline is detached in any case.  As a mutant, only when *)
(* neither raises.                                                         *)
DetachOnSuccess(t, sealed) == IF sealed /\ timer[t].native # "none" THEN Detached ELSE timeline
Detach(t, sealed)          == IF timer[t].native # "none" THEN Detached ELSE timeline

TimerExit(t, raised) ==
  /\ timer[t].scope = "active"
  /\ \E sealed \in BOOLEAN, recorded \in BOOLEAN :
       /\ timer[t].native = "none" => sealed
       /\ timeline' = Detach(t, sealed)
       /\ timer' = [timer EXCEPT
            ![t].scope = "left", ![t].failed = raised,
            ![t].native = IF @ = "open" /\ sealed /\ Seal(t, raised) THEN "sealed" ELSE @,
            ![t].end = IF ~sealed THEN "none" ELSE IF recorded THEN "pending" ELSE "unrecorded"]
  /\ UNCHANGED <<gauge, counting>>

EndReached(t) ==
  /\ timer[t].end = "pending"
  /\ timer' = [timer EXCEPT ![t].end = "reached"]
  /\ UNCHANGED <<timeline, gauge, counting>>

(* No time elapses between an event and one that was not recorded: asked   *)
(* for it, snapshot raises.                                                *)
TimerStatus(t) ==
  CASE timer[t].end = "none"       -> "not_finished"
    [] timer[t].end = "unrecorded" -> "raises"
    [] timer[t].end = "pending"    -> "pending"
    [] timer[t].end = "reached"    -> "complete"

------------------------------------------------------------------------------
(* The allocation scope *)

(* Without a baseline the counters are switched off again.  A switch that  *)
(* raises stays where it is; stuck: it was to be set off.                  *)
GaugeEnter(g) ==
  /\ gauge[g].scope = "new"
  /\ \/ /\ gauge' = [gauge EXCEPT ![g].scope = "active", ![g].baseline = TRUE]
        /\ counting' = TRUE
     \/ gauge' = [gauge EXCEPT ![g].scope = "raises"] /\ UNCHANGED counting
     \/ \E stuck \in BOOLEAN :
          /\ gauge' = [gauge EXCEPT ![g].scope = "raises", ![g].stuck = stuck]
          /\ counting' = stuck
  /\ UNCHANGED <<timer, timeline>>

GaugeMark(g) ==
  /\ gauge[g].scope = "active" /\ gauge[g].steps < MaxSteps
  /\ gauge' = [gauge EXCEPT ![g].steps = @ + 1]
  /\ UNCHANGED <<timer, timeline, counting>>

(* A final reading, or an error that a body's own exception hides.         *)
GaugeExit(g, raised) ==
  /\ gauge[g].scope = "active"
  /\ \E reads, stuck \in BOOLEAN :
       /\ gauge' = [gauge EXCEPT ![g].scope = "left", ![g].final = reads, ![g].stuck = stuck,
                                 ![g].failed = raised \/ ~reads \/ stuck, ![g].error = ~reads \/ stuck]
       /\ counting' = (stuck /\ counting)
  /\ UNCHANGED <<timer, timeline>>

GaugeStatus(g) ==
  CASE gauge[g].error                          -> "failed"
    [] ~gauge[g].error /\ ~gauge[g].final -> "not_finished"
    [] OTHER                                   -> "complete"

ScopesNext ==
  \/ \E t \in Timer :
       \/ \E native \in BOOLEAN : TimerEnter(t, native)
       \/ \E raised \in BOOLEAN : TimerExit(t, raised)
       \/ MarkStep(t) \/ EndReached(t)
  \/ \E g \in Gauge :
       \/ GaugeEnter(g) \/ GaugeMark(g)
       \/ \E raised \in BOOLEAN : GaugeExit(g, raised)

ScopesSpec == ScopesInit /\ [][ScopesNext]_scopeVars

------------------------------------------------------------------------------
(* Properties *)

(* A store and a process outside every scope run as if they were never     *)
(* measured, whatever raised inside.  (A timer whose first boundary raised *)
(* in __enter__ stays attached: the call is outside the try.  Nobody tries *)
(* again to set off a switch that raised.)                                 *)
ScopesLetGo ==
  /\ timeline # Detached =>
       \/ timer[timeline].scope = "active"
       \/ timer[timeline].scope = "raises" /\ timer[timeline].native = "open"
  /\ counting => \E g \in Gauge : gauge[g].scope = "active" \/ gauge[g].stuck

(* A report that calls itself complete is one of a timeline that nobody    *)
(* writes to any more, and of two readings.                                *)
CompleteIsMeasured ==
  /\ \A t \in Timer : TimerStatus(t) = "complete" => timer[t].native # "open"
  /\ \A g \in Gauge : GaugeStatus(g) = "complete" => gauge[g].baseline /\ gauge[g].final

==============================================================================
