------------------------------ MODULE MCRecords ------------------------------
(***************************************************************************)
(* What is written for later runs and for reports.  The parts share no     *)
(* state, so that a behaviour runs one of them.                            *)
(***************************************************************************)
EXTENDS CapacityProfiles, MetricsJournal, ExecutionDiagnostics, OperatorDiagnostics

CONSTANTS p1, p2
VARIABLE part

(* Two scopes that ask for one forward in common.                          *)
TwoProbes == [p \in {p1, p2} |-> IF p = p1 THEN {0, 1} ELSE {1, 2}]

MCInit ==
  /\ part \in {"profiles", "journal", "scopes", "operators"}
  /\ ProfilesInit /\ JournalInit /\ ScopesInit /\ ProbesInit
  /\ part # "journal" => posix
  /\ part # "profiles" => runtime = "linear_runtime" /\ base = 1 /\ candidates = 1

MCNext ==
  /\ UNCHANGED part
  /\ \/ /\ part = "profiles" /\ ProfilesNext
        /\ UNCHANGED <<journalVars, scopeVars, probeVars>>
     \/ /\ part = "journal" /\ JournalNext
        /\ UNCHANGED <<profileVars, scopeVars, probeVars>>
     \/ /\ part = "scopes" /\ ScopesNext
        /\ UNCHANGED <<profileVars, journalVars, probeVars>>
     \/ /\ part = "operators" /\ ProbesNext
        /\ UNCHANGED <<profileVars, journalVars, scopeVars>>

MCSpec == MCInit /\ [][MCNext]_<<part, profileVars, journalVars, scopeVars, probeVars>>

(* The variables of every part are of their types.                         *)
RecordsTypeOK == ProfilesTypeOK /\ JournalTypeOK /\ ScopesTypeOK /\ ProbesTypeOK
==============================================================================
