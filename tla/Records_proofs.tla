---------------------------- MODULE Records_proofs ----------------------------
(***************************************************************************)
(* What later runs and reports may rely on, for any number of processes,   *)
(* journals, scopes and steps: profiles are whole and keep the headroom,   *)
(* records are whole and whose they are said to be, and reports that call  *)
(* themselves complete are.                                                *)
(*                                                                         *)
(* Each part has an invariant of its own: what a writer has drafted        *)
(* (Drafted), how far a scope has come (Measuring), what a probe has       *)
(* captured (Captured), and what a runner knows at each stage of its run   *)
(* (Knows), with the soundness of every copy of the profile (Sound).       *)
(***************************************************************************)
EXTENDS MCRecords, TLAPS

------------------------------------------------------------------------------
(* The journal *)

(* A draft is of the journal that writes it, it is whole when it is        *)
(* published, and what was linked is the journal's own.                    *)
Drafted ==
  \A j \in Journal :
    /\ journalAt[j] \in {"opened", "synced"} => draftFile[j].of = j
    /\ journalAt[j] = "synced" => draftFile[j].whole
    /\ journalAt[j] = "linked" => published[recording[j]].of = j

JournalInv == JournalTypeOK /\ Drafted /\ RecordsMine /\ RecordsWhole

LEMMA JournalInvInit == JournalInit => JournalInv
<1> SUFFICES ASSUME JournalInit PROVE JournalInv OBVIOUS
<1>1. JournalTypeOK
  <2>1. \A j \in Journal : recording[j] \in Step BY JournalAssumption DEF JournalInit
  <2> QED BY <2>1, JournalAssumption DEF JournalInit, JournalTypeOK
<1> QED BY <1>1 DEF JournalInit, JournalInv, Drafted, RecordsMine, RecordsWhole

LEMMA JournalInvNext ==
  ASSUME JournalInv, [JournalNext]_journalVars
  PROVE  JournalInv'
<1> USE DEF JournalInv
<1>a. /\ published \in [Step -> File \cup {NoFile}] /\ draftFile \in [Journal -> File \cup {NoFile}]
      /\ journalAt \in [Journal -> {"open", "absent", "opened", "synced", "linked", "closed", "killed"}]
      /\ recording \in [Journal -> Step] /\ returned \in [Journal -> SUBSET Step]
      /\ recordsLeft \in 0 .. MaxRecords /\ MaxRecords \in Nat
  BY JournalAssumption DEF JournalTypeOK
<1>b. NoFile.of = "nobody" BY DEF NoFile
<1>1. CASE UNCHANGED journalVars
  BY <1>1 DEF journalVars, JournalTypeOK, Drafted, RecordsMine, RecordsWhole
<1>2. ASSUME NEW j \in Journal, NEW s \in Step, RecordBegin(j, s) PROVE JournalInv'
  <2>1. JournalTypeOK' BY <1>2, <1>a DEF RecordBegin, To, JournalTypeOK
  <2>2. Drafted' BY <1>2, <1>a DEF RecordBegin, To, Drafted
  <2> QED BY <1>2, <2>1, <2>2 DEF RecordBegin, RecordsMine, RecordsWhole
<1>3. ASSUME NEW j \in Journal, OpenDraft(j) PROVE JournalInv'
  <2>1. JournalTypeOK' BY <1>3, <1>a DEF OpenDraft, To, JournalTypeOK, File
  <2>2. Drafted' BY <1>3, <1>a DEF OpenDraft, To, Drafted
  <2> QED BY <1>3, <2>1, <2>2 DEF OpenDraft, RecordsMine, RecordsWhole
<1>4. ASSUME NEW j \in Journal, WriteDraft(j) PROVE JournalInv'
  <2>1. draftFile[j] \in File
    <3>1. draftFile[j].of = j BY <1>4 DEF WriteDraft, Drafted
    <3>2. NoFile.of = "nobody" BY DEF NoFile
    <3>3. draftFile[j] # NoFile BY <3>1, <3>2, JournalAssumption
    <3> QED BY <3>3, <1>a
  <2> DEFINE whole == [draftFile[j] EXCEPT !.whole = TRUE]
  <2>2. whole \in File /\ whole.of = draftFile[j].of /\ whole.whole BY <2>1 DEF File
  <2>3. CASE To(j, "synced") /\ draftFile' = [draftFile EXCEPT ![j] = whole]
    <3> HIDE DEF whole
    <3>1. UNCHANGED <<posix, published, recording, returned, recordsLeft>> BY <1>4 DEF WriteDraft
    <3>2. JournalTypeOK' BY <1>a, <2>2, <2>3, <3>1 DEF To, JournalTypeOK
    <3>3. draftFile[j].of = j BY <1>4 DEF WriteDraft, Drafted
    <3>4. Drafted' BY <1>a, <2>2, <2>3, <3>1, <3>3 DEF To, Drafted
    <3> QED BY <3>1, <3>2, <3>4 DEF RecordsMine, RecordsWhole
  <2>4. CASE To(j, "open") /\ UNCHANGED <<posix, published, draftFile, recording, returned, recordsLeft>>
    BY <1>a, <2>4 DEF To, JournalTypeOK, Drafted, RecordsMine, RecordsWhole
  <2> QED BY <1>4, <2>3, <2>4 DEF WriteDraft
<1>5. ASSUME NEW j \in Journal, PublishRecord(j) PROVE JournalInv'
  <2>1. draftFile[j].of = j /\ draftFile[j].whole BY <1>5 DEF PublishRecord, Drafted
  <2>2. CASE /\ NameFree(j)
             /\ published' = [published EXCEPT ![recording[j]] = draftFile[j]]
             /\ recording' = recording /\ posix' = posix /\ recordsLeft' = recordsLeft
             /\ \/ To(j, "linked") /\ UNCHANGED <<draftFile, returned>>
                \/ /\ To(j, "open") /\ draftFile' = [draftFile EXCEPT ![j] = NoFile]
                   /\ returned' = [returned EXCEPT ![j] = @ \cup {recording[j]}]
    <3>1. JournalTypeOK' BY <1>a, <2>2 DEF To, JournalTypeOK
    <3>2. \A s \in Step : published[s] # NoFile => published'[s] = published[s]
      BY <1>a, <2>2 DEF NameFree
    <3>3. published'[recording[j]].of = j BY <1>a, <2>1, <2>2
    <3>6. \A i \in Journal, s \in Step : published[s].of = i => published'[s] = published[s]
      BY <1>b, <3>2, JournalAssumption
    <3>7. Drafted'
      <4>1. \A i \in Journal : journalAt'[i] = "linked" => published'[recording'[i]].of = i
        BY <1>a, <2>2, <3>3, <3>6 DEF To, Drafted
      <4>2. \A i \in Journal : i # j => journalAt'[i] = journalAt[i] /\ draftFile'[i] = draftFile[i]
        BY <1>a, <2>2 DEF To
      <4>3. journalAt'[j] \notin {"opened", "synced"} BY <1>a, <2>2 DEF To
      <4> QED BY <4>1, <4>2, <4>3 DEF Drafted
    <3>4. RecordsMine'
      <4>1. \A i \in Journal : \A s \in returned'[i] : s \in returned[i] \/ (i = j /\ s = recording[j])
        BY <1>a, <2>2
      <4>2. \A i \in Journal : returned[i] \subseteq Step BY <1>a
      <4> QED BY <3>3, <3>6, <4>1, <4>2 DEF RecordsMine
    <3>5. RecordsWhole' BY <1>a, <2>1, <2>2 DEF RecordsWhole
    <3> QED BY <3>1, <3>4, <3>5, <3>7
  <2>3. CASE To(j, "open") /\ UNCHANGED <<posix, published, draftFile, returned, recording, recordsLeft>>
    BY <1>a, <2>3 DEF To, JournalTypeOK, Drafted, RecordsMine, RecordsWhole
  <2> QED BY <1>5, <2>2, <2>3 DEF PublishRecord
<1>6. ASSUME NEW j \in Journal, UnlinkDraft(j) PROVE JournalInv'
  <2>1. JournalTypeOK' BY <1>6, <1>a DEF UnlinkDraft, To, JournalTypeOK
  <2>2. Drafted' BY <1>6, <1>a DEF UnlinkDraft, To, Drafted
  <2>3. RecordsMine' BY <1>6, <1>a DEF UnlinkDraft, RecordsMine, Drafted
  <2> QED BY <1>6, <2>1, <2>2, <2>3 DEF UnlinkDraft, RecordsWhole
<1>7. ASSUME NEW j \in Journal, CloseJournal(j) \/ KillJournal(j) PROVE JournalInv'
  BY <1>7, <1>a DEF CloseJournal, KillJournal, To, JournalTypeOK, Drafted, RecordsMine, RecordsWhole
<1> QED BY <1>1, <1>2, <1>3, <1>4, <1>5, <1>6, <1>7 DEF JournalNext

(* A path that record returned names the journal's own report, whatever    *)
(* other journals record into the directory.                               *)
THEOREM RecordsAreMine == JournalSpec => []RecordsMine
<1>1. JournalInv => RecordsMine BY DEF JournalInv
<1> QED BY <1>1, JournalInvInit, JournalInvNext, PTL DEF JournalSpec

(* Kills and full disks leave whole records or none under a step's name.   *)
THEOREM RecordsAreWhole == JournalSpec => []RecordsWhole
<1>1. JournalInv => RecordsWhole BY DEF JournalInv
<1> QED BY <1>1, JournalInvInit, JournalInvNext, PTL DEF JournalSpec

------------------------------------------------------------------------------
(* Timers and allocation scopes *)

(* The store's timeline is one that a timer has attached; the end is       *)
(* recorded once the timeline is sealed, and a scope that was entered has  *)
(* its first reading.                                                      *)
Measuring ==
  /\ timeline # Detached => timeline \in Timer /\ timer[timeline].native # "none"
  /\ \A t \in Timer :
       /\ timer[t].scope # "left" => timer[t].end = "none"
       /\ timer[t].end # "none" => timer[t].native # "open"
  /\ \A g \in Gauge :
       /\ gauge[g].scope = "active" \/ gauge[g].final => gauge[g].baseline
       /\ gauge[g].stuck => gauge[g].scope \in {"left", "raises"}

ScopesInv == ScopesTypeOK /\ Measuring /\ ScopesLetGo

LEMMA ScopesInvInit == ScopesInit => ScopesInv
<1> SUFFICES ASSUME ScopesInit PROVE ScopesInv OBVIOUS
<1> DEFINE
  t0 == [scope |-> "new", native |-> "none", events |-> 0, failed |-> FALSE, end |-> "none"]
  g0 == [scope |-> "new", baseline |-> FALSE, steps |-> 0, final |-> FALSE,
         failed |-> FALSE, error |-> FALSE, stuck |-> FALSE]
<1>1. t0 \in TimerState /\ g0 \in GaugeState
  BY ScopesAssumption DEF TimerState, GaugeState, Scope
<1>2. timer = [t \in Timer |-> t0] /\ gauge = [g \in Gauge |-> g0]
  BY DEF ScopesInit
<1>3. timeline = Detached /\ counting = FALSE BY DEF ScopesInit
<1> HIDE DEF t0, g0
<1>4. ScopesTypeOK BY <1>1, <1>2, <1>3 DEF ScopesTypeOK
<1>5. Measuring BY <1>2, <1>3 DEF Measuring, t0, g0
<1> QED BY <1>3, <1>4, <1>5 DEF ScopesInv, ScopesLetGo

LEMMA ScopesInvNext ==
  ASSUME ScopesInv, [ScopesNext]_scopeVars
  PROVE  ScopesInv'
<1> USE ScopesAssumption DEF ScopesInv
<1>a. /\ timer \in [Timer -> TimerState] /\ timeline \in Timer \cup {Detached}
      /\ gauge \in [Gauge -> GaugeState] /\ counting \in BOOLEAN
  BY DEF ScopesTypeOK
<1>1. CASE UNCHANGED scopeVars BY <1>1 DEF scopeVars, ScopesTypeOK, Measuring, ScopesLetGo
(* What a step of one timer has to show. *)
<1>2. ASSUME NEW t \in Timer, NEW rec \in TimerState, timer' = [timer EXCEPT ![t] = rec],
             UNCHANGED <<gauge, counting>>,
             rec.scope # "left" => rec.end = "none",
             rec.end # "none" => rec.native # "open",
             \/ timeline' = Detached
             \/ timeline' = t /\ rec.native # "none"
                  /\ (rec.scope = "active" \/ (rec.scope = "raises" /\ rec.native = "open"))
             \/ timeline' = timeline /\ timeline # t
      PROVE  ScopesInv'
  <2>1. ScopesTypeOK' BY <1>2, <1>a DEF ScopesTypeOK
  <2>2. \A u \in Timer : timer'[u] = IF u = t THEN rec ELSE timer[u] BY <1>2, <1>a
  <2>3. Measuring' BY <1>2, <1>a, <2>2 DEF Measuring
  <2>4. ScopesLetGo' BY <1>2, <1>a, <2>2 DEF ScopesLetGo, Measuring
  <2> QED BY <2>1, <2>3, <2>4
(* What a step of one allocation scope has to show. *)
<1>3. ASSUME NEW g \in Gauge, NEW rec \in GaugeState, gauge' = [gauge EXCEPT ![g] = rec],
             UNCHANGED <<timer, timeline>>,
             rec.scope = "active" \/ rec.final => rec.baseline,
             rec.stuck => rec.scope \in {"left", "raises"},
             counting' \in BOOLEAN,
             counting' => \/ rec.scope = "active" \/ rec.stuck
                          \/ counting /\ gauge[g].scope # "active" /\ ~gauge[g].stuck
      PROVE  ScopesInv'
  <2>1. ScopesTypeOK' BY <1>3, <1>a DEF ScopesTypeOK
  <2>2. \A h \in Gauge : gauge'[h] = IF h = g THEN rec ELSE gauge[h] BY <1>3, <1>a
  <2>3. Measuring' BY <1>3, <1>a, <2>2 DEF Measuring
  <2>4. ScopesLetGo' BY <1>3, <1>a, <2>2 DEF ScopesLetGo
  <2> QED BY <2>1, <2>3, <2>4
<1>4. ASSUME NEW t \in Timer, NEW native \in BOOLEAN, TimerEnter(t, native) PROVE ScopesInv'
  <2>1. timer[t].scope = "new" /\ timer[t].end = "none" /\ timeline # t /\ timer[t] \in TimerState
    BY <1>4, <1>a DEF TimerEnter, Measuring, ScopesLetGo
  <2>2. CASE /\ timer' = [timer EXCEPT ![t].scope = "active", ![t].events = 1,
                                  ![t].native = IF native THEN "open" ELSE "none"]
             /\ timeline' = IF native THEN t ELSE timeline
    <3> DEFINE rec == [timer[t] EXCEPT !.scope = "active", !.events = 1,
                                       !.native = IF native THEN "open" ELSE "none"]
    <3>0. 1 \in 0 .. MaxSteps + 1 /\ (IF native THEN "open" ELSE "none") \in {"none", "open", "sealed"}
      OBVIOUS
    <3>1. rec \in TimerState BY <2>1, <3>0 DEF TimerState, Scope
    <3>2. timer' = [timer EXCEPT ![t] = rec] BY <2>2, <1>a
    <3>3. /\ rec.scope = "active" /\ rec.end = "none"
          /\ rec.native = IF native THEN "open" ELSE "none"
      BY <2>1 DEF TimerState
    <3>4. UNCHANGED <<gauge, counting>> BY <1>4 DEF TimerEnter
    <3> HIDE DEF rec
    <3> QED BY <1>2, <2>1, <2>2, <3>1, <3>2, <3>3, <3>4
  <2>3. CASE /\ timer' = [timer EXCEPT ![t].scope = "raises", ![t].native = "open"]
             /\ timeline' = t
    <3> DEFINE rec == [timer[t] EXCEPT !.scope = "raises", !.native = "open"]
    <3>1. rec \in TimerState BY <2>1 DEF TimerState, Scope
    <3>2. timer' = [timer EXCEPT ![t] = rec] BY <2>3, <1>a
    <3>3. rec.scope = "raises" /\ rec.end = "none" /\ rec.native = "open"
      BY <2>1 DEF TimerState
    <3>4. UNCHANGED <<gauge, counting>> BY <1>4 DEF TimerEnter
    <3> HIDE DEF rec
    <3> QED BY <1>2, <2>1, <2>3, <3>1, <3>2, <3>3, <3>4
  <2>4. CASE /\ timer' = [timer EXCEPT ![t].scope = "raises", ![t].failed = TRUE,
                                  ![t].native = IF native THEN "sealed" ELSE "none"]
             /\ timeline' = IF native THEN Detached ELSE timeline
    <3> DEFINE rec == [timer[t] EXCEPT !.scope = "raises", !.failed = TRUE,
                                       !.native = IF native THEN "sealed" ELSE "none"]
    <3>1. rec \in TimerState BY <2>1 DEF TimerState, Scope
    <3>2. timer' = [timer EXCEPT ![t] = rec] BY <2>4, <1>a
    <3>3. rec.scope = "raises" /\ rec.end = "none" BY <2>1 DEF TimerState
    <3>4. UNCHANGED <<gauge, counting>> BY <1>4 DEF TimerEnter
    <3> HIDE DEF rec
    <3> QED BY <1>2, <2>1, <2>4, <3>1, <3>2, <3>3, <3>4
  <2> QED BY <1>4, <2>2, <2>3, <2>4 DEF TimerEnter
<1>5. ASSUME NEW t \in Timer, MarkStep(t) PROVE ScopesInv'
  <2> DEFINE rec == [timer[t] EXCEPT !.events = @ + 1]
  <2>1. timer[t] \in TimerState /\ timer[t].scope = "active" /\ timer[t].events <= MaxSteps
    BY <1>5, <1>a DEF MarkStep
  <2>2. timer[t].events \in 0 .. MaxSteps + 1 BY <2>1 DEF TimerState
  <2>3. timer[t].events + 1 \in 0 .. MaxSteps + 1 BY <2>1, <2>2
  <2>4. rec \in TimerState BY <2>1, <2>3 DEF TimerState
  <2>5. timer' = [timer EXCEPT ![t] = rec] BY <1>5, <1>a DEF MarkStep
  <2>6. rec.scope = "active" /\ rec.end = timer[t].end /\ rec.native = timer[t].native
    BY <2>1 DEF TimerState
  <2>7. timer[t].end = "none" BY <2>1 DEF Measuring
  <2>8. timeline = t => timer[t].native # "none" BY DEF Measuring
  <2>9. UNCHANGED <<timeline, gauge, counting>> BY <1>5 DEF MarkStep
  <2> HIDE DEF rec
  <2> QED BY <1>2, <2>4, <2>5, <2>6, <2>7, <2>8, <2>9
<1>6. ASSUME NEW t \in Timer, NEW raised \in BOOLEAN, TimerExit(t, raised) PROVE ScopesInv'
  <2>1. timer[t] \in TimerState /\ timer[t].scope = "active" BY <1>6, <1>a DEF TimerExit
  <2>2. PICK sealed \in BOOLEAN, recorded \in BOOLEAN :
          /\ timer[t].native = "none" => sealed
          /\ timeline' = Detach(t, sealed)
          /\ timer' = [timer EXCEPT
               ![t].scope = "left", ![t].failed = raised,
               ![t].native = IF @ = "open" /\ sealed /\ Seal(t, raised) THEN "sealed" ELSE @,
               ![t].end = IF ~sealed THEN "none" ELSE IF recorded THEN "pending" ELSE "unrecorded"]
    BY <1>6 DEF TimerExit
  <2> DEFINE rec == [timer[t] EXCEPT
               !.scope = "left", !.failed = raised,
               !.native = IF @ = "open" /\ sealed /\ Seal(t, raised) THEN "sealed" ELSE @,
               !.end = IF ~sealed THEN "none" ELSE IF recorded THEN "pending" ELSE "unrecorded"]
  <2>3. rec \in TimerState BY <2>1 DEF TimerState, Scope
  <2>4. timer' = [timer EXCEPT ![t] = rec] BY <2>2, <1>a
  <2>5. rec.scope = "left" /\ (rec.end # "none" => rec.native # "open")
    BY <2>1, <2>2 DEF TimerState, Seal
  <2>6. \/ timeline' = Detached
        \/ timeline' = timeline /\ timeline # t
    BY <2>2 DEF Detach, Measuring
  <2>7. UNCHANGED <<gauge, counting>> BY <1>6 DEF TimerExit
  <2> HIDE DEF rec
  <2> QED BY <1>2, <2>3, <2>4, <2>5, <2>6, <2>7
<1>7. ASSUME NEW t \in Timer, EndReached(t) PROVE ScopesInv'
  <2> DEFINE rec == [timer[t] EXCEPT !.end = "reached"]
  <2>1. timer[t] \in TimerState /\ timer[t].end = "pending" BY <1>7, <1>a DEF EndReached
  <2>2. timer[t].scope = "left" /\ timer[t].native # "open" BY <2>1 DEF Measuring
  <2>3. rec \in TimerState BY <2>1 DEF TimerState
  <2>4. timer' = [timer EXCEPT ![t] = rec] BY <1>7, <1>a DEF EndReached
  <2>5. rec.scope = "left" /\ rec.end = "reached" /\ rec.native = timer[t].native
    BY <2>1, <2>2 DEF TimerState
  <2>6. timeline # t BY <2>2, <1>a DEF ScopesLetGo
  <2>7. UNCHANGED <<timeline, gauge, counting>> BY <1>7 DEF EndReached
  <2> HIDE DEF rec
  <2> QED BY <1>2, <2>2, <2>3, <2>4, <2>5, <2>6, <2>7
<1>8. ASSUME NEW g \in Gauge, GaugeEnter(g) PROVE ScopesInv'
  <2>1. gauge[g] \in GaugeState /\ gauge[g].scope = "new" BY <1>8, <1>a DEF GaugeEnter
  <2>2. CASE /\ gauge' = [gauge EXCEPT ![g].scope = "active", ![g].baseline = TRUE]
             /\ counting' = TRUE
    <3> DEFINE rec == [gauge[g] EXCEPT !.scope = "active", !.baseline = TRUE]
    <3>1. rec \in GaugeState BY <2>1 DEF GaugeState, Scope
    <3>2. gauge' = [gauge EXCEPT ![g] = rec] BY <2>2, <1>a
    <3>3. rec.scope = "active" /\ rec.baseline /\ ~rec.stuck BY <2>1 DEF GaugeState, Measuring
    <3>4. UNCHANGED <<timer, timeline>> BY <1>8 DEF GaugeEnter
    <3> HIDE DEF rec
    <3> QED BY <1>3, <2>2, <3>1, <3>2, <3>3, <3>4
  <2>a. (gauge[g].final => gauge[g].baseline) /\ ~gauge[g].stuck BY <2>1 DEF Measuring
  <2>b. UNCHANGED <<timer, timeline>> BY <1>8 DEF GaugeEnter
  <2>3. CASE gauge' = [gauge EXCEPT ![g].scope = "raises"] /\ UNCHANGED counting
    <3> DEFINE rec == [gauge[g] EXCEPT !.scope = "raises"]
    <3>1. rec \in GaugeState BY <2>1 DEF GaugeState, Scope
    <3>2. gauge' = [gauge EXCEPT ![g] = rec] BY <2>3, <1>a
    <3>3. /\ rec.scope = "raises" /\ rec.final = gauge[g].final /\ rec.baseline = gauge[g].baseline
          /\ rec.stuck = gauge[g].stuck
      BY <2>1 DEF GaugeState
    <3> HIDE DEF rec
    <3> QED BY <1>3, <1>a, <2>1, <2>3, <2>a, <2>b, <3>1, <3>2, <3>3
  <2>4. ASSUME NEW stuck \in BOOLEAN, counting' = stuck,
               gauge' = [gauge EXCEPT ![g].scope = "raises", ![g].stuck = stuck]
        PROVE  ScopesInv'
    <3> DEFINE rec == [gauge[g] EXCEPT !.scope = "raises", !.stuck = stuck]
    <3>1. rec \in GaugeState BY <2>1 DEF GaugeState, Scope
    <3>2. gauge' = [gauge EXCEPT ![g] = rec] BY <2>4, <1>a
    <3>3. /\ rec.scope = "raises" /\ rec.final = gauge[g].final /\ rec.baseline = gauge[g].baseline
          /\ rec.stuck = stuck
      BY <2>1 DEF GaugeState
    <3> HIDE DEF rec
    <3> QED BY <1>3, <2>4, <2>a, <2>b, <3>1, <3>2, <3>3
  <2> QED BY <1>8, <2>2, <2>3, <2>4 DEF GaugeEnter
<1>9. ASSUME NEW g \in Gauge, GaugeMark(g) PROVE ScopesInv'
  <2> DEFINE rec == [gauge[g] EXCEPT !.steps = @ + 1]
  <2>1. gauge[g] \in GaugeState /\ gauge[g].scope = "active" /\ gauge[g].steps < MaxSteps
    BY <1>9, <1>a DEF GaugeMark
  <2>2. gauge[g].steps \in 0 .. MaxSteps BY <2>1 DEF GaugeState
  <2>3. gauge[g].steps + 1 \in 0 .. MaxSteps BY <2>1, <2>2
  <2>4. rec \in GaugeState BY <2>1, <2>3 DEF GaugeState
  <2>5. gauge' = [gauge EXCEPT ![g] = rec] BY <1>9, <1>a DEF GaugeMark
  <2>6. rec.scope = "active" /\ rec.baseline = gauge[g].baseline /\ rec.stuck = gauge[g].stuck
    BY <2>1 DEF GaugeState
  <2>7. gauge[g].baseline /\ ~gauge[g].stuck BY <2>1 DEF Measuring
  <2>8. UNCHANGED <<timer, timeline, counting>> BY <1>9 DEF GaugeMark
  <2> HIDE DEF rec
  <2> QED BY <1>3, <1>a, <2>4, <2>5, <2>6, <2>7, <2>8
<1>10. ASSUME NEW g \in Gauge, NEW raised \in BOOLEAN, GaugeExit(g, raised) PROVE ScopesInv'
  <2>1. gauge[g] \in GaugeState /\ gauge[g].scope = "active" BY <1>10, <1>a DEF GaugeExit
  <2>2. PICK reads \in BOOLEAN, stuck \in BOOLEAN :
          gauge' = [gauge EXCEPT ![g].scope = "left", ![g].final = reads, ![g].stuck = stuck,
                              ![g].failed = raised \/ ~reads \/ stuck, ![g].error = ~reads \/ stuck]
          /\ counting' = (stuck /\ counting)
    BY <1>10 DEF GaugeExit
  <2> DEFINE rec == [gauge[g] EXCEPT !.scope = "left", !.final = reads, !.stuck = stuck,
                                     !.failed = raised \/ ~reads \/ stuck, !.error = ~reads \/ stuck]
  <2>a. (raised \/ ~reads \/ stuck) \in BOOLEAN /\ (~reads \/ stuck) \in BOOLEAN OBVIOUS
  <2>3. rec \in GaugeState BY <2>1, <2>a DEF GaugeState, Scope
  <2>4. gauge' = [gauge EXCEPT ![g] = rec] BY <2>2, <1>a
  <2>5. rec.scope = "left" /\ rec.baseline = gauge[g].baseline /\ rec.stuck = stuck
    BY <2>1 DEF GaugeState
  <2>6. gauge[g].baseline BY <2>1 DEF Measuring
  <2>7. UNCHANGED <<timer, timeline>> /\ counting' \in BOOLEAN /\ (counting' => stuck)
    BY <1>10, <2>2, <1>a DEF GaugeExit
  <2> HIDE DEF rec
  <2> QED BY <1>3, <2>3, <2>4, <2>5, <2>6, <2>7
<1> QED BY <1>1, <1>4, <1>5, <1>6, <1>7, <1>8, <1>9, <1>10 DEF ScopesNext

(* Outside every scope neither the store nor the process is measured any   *)
(* more, whatever raised in the calls and in the bodies.                   *)
THEOREM MeasuringEnds == ScopesSpec => []ScopesLetGo
<1>1. ScopesInv => ScopesLetGo BY DEF ScopesInv
<1> QED BY <1>1, ScopesInvInit, ScopesInvNext, PTL DEF ScopesSpec

(* A complete timing is of a sealed timeline, a complete allocation report *)
(* of two readings.                                                        *)
THEOREM CompleteReportsAreMeasured == ScopesSpec => []CompleteIsMeasured
<1>1. ScopesInv => CompleteIsMeasured
  <2> SUFFICES ASSUME ScopesInv PROVE CompleteIsMeasured OBVIOUS
  <2>1. \A t \in Timer : timer[t].end \in {"none", "unrecorded", "pending", "reached"}
    BY DEF ScopesInv, ScopesTypeOK, TimerState
  <2>2. \A t \in Timer : TimerStatus(t) = "complete" => timer[t].end # "none"
    BY <2>1 DEF TimerStatus
  <2>3. \A g \in Gauge : GaugeStatus(g) = "complete" => gauge[g].final
    <3>1. \A g \in Gauge : gauge[g].error \in BOOLEAN /\ gauge[g].final \in BOOLEAN
      BY DEF ScopesInv, ScopesTypeOK, GaugeState
    <3> QED BY <3>1 DEF GaugeStatus
  <2> QED BY <2>2, <2>3 DEF ScopesInv, Measuring, CompleteIsMeasured
<1> QED BY <1>1, ScopesInvInit, ScopesInvNext, PTL DEF ScopesSpec

------------------------------------------------------------------------------
(* Operator diagnostics *)

(* A sample is of a trace file that its scope wrote, which only a process  *)
(* that found the name free can have replaced.  A trace that is about to   *)
(* be written is the owner's, and nobody has a sample of it.  A scope has  *)
(* its hooks as long as it is entered.                                     *)
Captured ==
  \A p \in Probe :
    /\ \A i \in probe[p].samples : traces[i] = p \/ (i \in elsewhere /\ traces[i] = Elsewhere)
    /\ probe[p].writing # NoIndex =>
         owner = p /\ \A q \in Probe : probe[p].writing \notin probe[q].samples
    /\ probe[p].scope = "active" => probe[p].hooked

ProbesInv == ProbesTypeOK /\ OwnerIsHooked /\ Captured

LEMMA ProbesInvInit == ProbesInit => ProbesInv
<1> SUFFICES ASSUME ProbesInit PROVE ProbesInv OBVIOUS
<1> DEFINE
  p0 == [scope |-> "new", hooked |-> FALSE, inForward |-> FALSE, count |-> 0,
         capturing |-> NoIndex, writing |-> NoIndex, samples |-> {}, dark |-> FALSE, failed |-> FALSE]
<1>1. p0 \in ProbeState BY ProbesAssumption DEF ProbeState, NoIndex
<1>2. /\ probe = [p \in Probe |-> p0] /\ owner = Nobody /\ depth = 0
      /\ traces = [i \in Index |-> Nobody] /\ elsewhere = {}
  BY DEF ProbesInit
<1>3. p0.hooked = FALSE /\ p0.samples = {} /\ p0.scope = "new" /\ p0.writing = NoIndex OBVIOUS
<1> HIDE DEF p0
<1>4. ProbesTypeOK BY <1>1, <1>2 DEF ProbesTypeOK
<1> QED BY <1>2, <1>3, <1>4, ProbesAssumption DEF ProbesInv, OwnerIsHooked, Captured

LEMMA ProbesInvNext ==
  ASSUME ProbesInv, [ProbesNext]_probeVars
  PROVE  ProbesInv'
<1> USE ProbesAssumption DEF ProbesInv
<1>a. /\ probe \in [Probe -> ProbeState] /\ owner \in Probe \cup {Nobody}
      /\ traces \in [Index -> Probe \cup {Nobody, Elsewhere}] /\ elsewhere \subseteq Index
      /\ depth \in 0 .. 2
      /\ \A p \in Probe : probe[p].samples \subseteq Index
  BY DEF ProbesTypeOK, ProbeState
<1>b. NoIndex \notin Index BY DEF NoIndex, Index
<1>1. CASE UNCHANGED probeVars BY <1>1 DEF probeVars, ProbesTypeOK, OwnerIsHooked, Captured
(* What a step that writes no trace has to show.                           *)
<1>2. ASSUME NEW p \in Probe, NEW rec \in ProbeState, probe' = [probe EXCEPT ![p] = rec],
             UNCHANGED <<traces, elsewhere>>, depth' \in 0 .. 2,
             rec.samples = probe[p].samples,
             rec.hooked <=> rec.scope = "active",
             \/ rec.writing = NoIndex
             \/ owner' = p /\ rec.writing \in Index /\ traces[rec.writing] = Nobody,
             \/ owner = Nobody /\ owner' = p /\ rec.hooked
             \/ owner = p /\ owner' = Nobody /\ ~rec.hooked
             \/ owner' = owner /\ (rec.hooked <=> probe[p].hooked)
      PROVE  ProbesInv'
  <2>1. owner' \in Probe \cup {Nobody} BY <1>2, <1>a
  <2>2. ProbesTypeOK' BY <1>2, <1>a, <2>1 DEF ProbesTypeOK
  <2>3. \A q \in Probe : probe'[q] = IF q = p THEN rec ELSE probe[q] BY <1>2, <1>a
  <2>4. OwnerIsHooked' BY <1>2, <1>a, <2>3 DEF OwnerIsHooked
  <2>5. \A q \in Probe : probe'[q].samples = probe[q].samples BY <1>2, <2>3
  <2>6. ASSUME NEW q \in Probe, probe'[q].writing # NoIndex
        PROVE  owner' = q /\ \A r \in Probe : probe'[q].writing \notin probe'[r].samples
    <3>1. CASE q = p
      <4>1. probe'[q] = rec BY <2>3, <3>1
      <4>2. owner' = p /\ traces[rec.writing] = Nobody BY <1>2, <2>6, <4>1
      <4>3. \A r \in Probe : rec.writing \notin probe[r].samples BY <4>2 DEF Captured
      <4> QED BY <2>5, <3>1, <4>1, <4>2, <4>3
    <3>2. CASE q # p
      <4>1. probe'[q] = probe[q] BY <2>3, <3>2
      <4>2. owner = q /\ \A r \in Probe : probe[q].writing \notin probe[r].samples
        BY <2>6, <4>1 DEF Captured
      <4>3. owner' = owner BY <1>2, <3>2, <4>2
      <4> QED BY <2>5, <4>1, <4>2, <4>3
    <3> QED BY <3>1, <3>2
  <2>7. \A q \in Probe : \A i \in probe'[q].samples :
          traces'[i] = q \/ (i \in elsewhere' /\ traces'[i] = Elsewhere)
    BY <1>2, <2>5 DEF Captured
  <2>8. \A q \in Probe : probe'[q].scope = "active" => probe'[q].hooked
    BY <1>2, <2>3 DEF Captured
  <2>9. Captured' BY <2>6, <2>7, <2>8 DEF Captured
  <2> QED BY <2>2, <2>4, <2>9
(* A capture ends: its trace is not written yet.                           *)
<1>3. ASSUME NEW p \in Probe, NEW rec \in ProbeState, EndCapture(p, rec), owner = p,
             rec.samples = probe[p].samples, rec.scope = probe[p].scope,
             rec.hooked = probe[p].hooked, rec.writing = NoIndex, UNCHANGED owner, depth' \in 0 .. 2
      PROVE  ProbesInv'
  <2> DEFINE ended == [rec EXCEPT !.inForward = FALSE, !.capturing = NoIndex]
             asked == [ended EXCEPT !.writing = rec.capturing]
  <2>1. /\ UNCHANGED <<traces, elsewhere>>
        /\ \/ probe' = [probe EXCEPT ![p] = ended]
           \/ rec.capturing # NoIndex /\ traces[rec.capturing] = Nobody /\ probe' = [probe EXCEPT ![p] = asked]
    BY <1>3 DEF EndCapture
  <2>2. /\ ended \in ProbeState /\ ended.samples = probe[p].samples /\ ended.writing = NoIndex
        /\ ended.scope = probe[p].scope /\ ended.hooked = probe[p].hooked
    BY <1>3 DEF ProbeState
  <2>3. rec.capturing \in Index \cup {NoIndex} BY DEF ProbeState
  <2>4. /\ asked \in ProbeState /\ asked.samples = probe[p].samples /\ asked.writing = rec.capturing
        /\ asked.scope = probe[p].scope /\ asked.hooked = probe[p].hooked
    BY <2>2, <2>3 DEF ProbeState
  <2>5. probe[p].hooked <=> probe[p].scope = "active" BY DEF OwnerIsHooked, Captured
  <2> HIDE DEF ended, asked
  <2> QED BY <1>2, <1>3, <2>1, <2>2, <2>3, <2>4, <2>5
(* The trace is written: nobody has a sample of it but the scope itself.   *)
<1>10. ASSUME NEW p \in Probe, Export(p) PROVE ProbesInv'
  <2> DEFINE i == probe[p].writing
             done  == [probe[p] EXCEPT !.writing = NoIndex]
             taken(lit) == [done EXCEPT !.samples = @ \cup {i}, !.dark = @ \/ ~lit]
  <2>1. PICK exported \in BOOLEAN, lit \in BOOLEAN :
          /\ i # NoIndex
          /\ probe' = [probe EXCEPT ![p] = Sample([@ EXCEPT !.writing = NoIndex], i, exported, lit)]
          /\ \/ traces' = [traces EXCEPT ![i] = p]
             \/ ~exported /\ UNCHANGED traces
          /\ UNCHANGED <<owner, elsewhere, depth>>
    BY <1>10 DEF Export
  <2>2. probe[p] \in ProbeState /\ i \in Index BY <1>a, <2>1 DEF ProbeState
  <2>3. owner = p /\ \A q \in Probe : i \notin probe[q].samples BY <2>1 DEF Captured
  <2>4. /\ done \in ProbeState /\ done.samples = probe[p].samples /\ done.writing = NoIndex
        /\ done.scope = probe[p].scope /\ done.hooked = probe[p].hooked
    BY <2>2 DEF ProbeState
  <2>5. /\ taken(lit) \in ProbeState /\ taken(lit).samples = probe[p].samples \cup {i}
        /\ taken(lit).writing = NoIndex
        /\ taken(lit).scope = probe[p].scope /\ taken(lit).hooked = probe[p].hooked
    <3>1. (done.dark \/ ~lit) \in BOOLEAN OBVIOUS
    <3> QED BY <2>2, <2>4, <3>1 DEF ProbeState
  <2> DEFINE rec == IF exported THEN taken(lit) ELSE done
  <2>6. probe' = [probe EXCEPT ![p] = rec] BY <2>1, <1>a DEF Sample
  <2> HIDE DEF done, taken
  <2>7. /\ rec \in ProbeState /\ rec.writing = NoIndex
        /\ rec.scope = probe[p].scope /\ rec.hooked = probe[p].hooked
        /\ rec.samples \subseteq probe[p].samples \cup {i}
        /\ i \in rec.samples => exported
    BY <2>3, <2>4, <2>5
  <2> HIDE DEF rec
  <2>8. \A q \in Probe : probe'[q] = IF q = p THEN rec ELSE probe[q] BY <1>a, <2>6
  <2>9. traces' \in [Index -> Probe \cup {Nobody, Elsewhere}]
        /\ (\A k \in Index : k # i => traces'[k] = traces[k])
        /\ (exported => traces'[i] = p)
    BY <1>a, <2>1, <2>2
  <2>10. ProbesTypeOK' BY <1>a, <2>1, <2>6, <2>7, <2>9 DEF ProbesTypeOK
  <2>11. OwnerIsHooked' BY <2>1, <2>7, <2>8 DEF OwnerIsHooked
  <2>12. \A q \in Probe : probe'[q].writing = NoIndex
    BY <2>3, <2>7, <2>8 DEF Captured
  <2>13. ASSUME NEW q \in Probe, NEW k \in probe'[q].samples
         PROVE  traces'[k] = q \/ (k \in elsewhere' /\ traces'[k] = Elsewhere)
    <3>1. CASE k = i
      <4>1. q = p /\ exported BY <2>3, <2>7, <2>8, <3>1
      <4> QED BY <2>9, <3>1, <4>1
    <3>2. CASE k # i
      <4>1. k \in probe[q].samples BY <2>7, <2>8, <3>2
      <4>2. k \in Index BY <1>a, <4>1
      <4> QED BY <2>1, <2>9, <3>2, <4>1, <4>2 DEF Captured
    <3> QED BY <3>1, <3>2
  <2>14. \A q \in Probe : probe'[q].scope = "active" => probe'[q].hooked
    BY <2>7, <2>8 DEF Captured
  <2>15. Captured' BY <2>12, <2>13, <2>14 DEF Captured
  <2> QED BY <2>10, <2>11, <2>15
<1>4. ASSUME NEW p \in Probe, EnterProbe(p) PROVE ProbesInv'
  <2>1. probe[p] \in ProbeState /\ probe[p].scope = "new" /\ ~probe[p].hooked
    BY <1>4, <1>a DEF EnterProbe, OwnerIsHooked
  <2>2. UNCHANGED <<traces, elsewhere, depth>> BY <1>4 DEF EnterProbe
  <2>a. probe[p].writing = NoIndex BY <2>1 DEF OwnerIsHooked, Captured
  <2>3. CASE /\ owner = Nobody /\ owner' = p
             /\ probe' = [probe EXCEPT ![p].scope = "active", ![p].hooked = TRUE]
    <3> DEFINE rec == [probe[p] EXCEPT !.scope = "active", !.hooked = TRUE]
    <3>1. rec \in ProbeState /\ rec.samples = probe[p].samples /\ rec.hooked /\ rec.scope = "active"
          /\ rec.writing = NoIndex
      BY <2>1, <2>a DEF ProbeState
    <3>2. probe' = [probe EXCEPT ![p] = rec] BY <2>3, <1>a
    <3> HIDE DEF rec
    <3> QED BY <1>2, <1>a, <2>2, <2>3, <3>1, <3>2
  <2>4. CASE probe' = [probe EXCEPT ![p].scope = "raises"] /\ UNCHANGED owner
    <3> DEFINE rec == [probe[p] EXCEPT !.scope = "raises"]
    <3>1. rec \in ProbeState /\ rec.samples = probe[p].samples /\ rec.hooked = probe[p].hooked
          /\ rec.scope = "raises" /\ rec.writing = NoIndex
      BY <2>1, <2>a DEF ProbeState
    <3>2. probe' = [probe EXCEPT ![p] = rec] BY <2>4, <1>a
    <3> HIDE DEF rec
    <3> QED BY <1>2, <1>a, <2>1, <2>2, <2>4, <3>1, <3>2
  <2> QED BY <1>4, <2>3, <2>4 DEF EnterProbe
<1>5. ASSUME NEW p \in Probe, BeginForward(p) PROVE ProbesInv'
  <2>1. probe[p] \in ProbeState /\ owner = p /\ UNCHANGED owner /\ depth + 1 \in 0 .. 2
        /\ probe[p].writing = NoIndex
    BY <1>5, <1>a DEF BeginForward
  <2>2. CASE EndCapture(p, probe[p]) /\ UNCHANGED depth BY <1>3, <1>a, <2>1, <2>2
  <2>3. CASE ~probe[p].inForward /\ probe[p].count < MaxForwards
    <3> DEFINE i == probe[p].count
               begun == [probe[p] EXCEPT !.inForward = TRUE, !.count = @ + 1]
               asked == [begun EXCEPT !.capturing = i]
    <3>1. i \in Index /\ i + 1 \in 0 .. MaxForwards BY <2>1, <2>3 DEF ProbeState, Index
    <3>2. /\ begun \in ProbeState /\ begun.samples = probe[p].samples /\ begun.writing = NoIndex
          /\ begun.scope = probe[p].scope /\ begun.hooked = probe[p].hooked
      BY <2>1, <3>1 DEF ProbeState
    <3>3. /\ asked \in ProbeState /\ asked.samples = probe[p].samples /\ asked.writing = NoIndex
          /\ asked.scope = probe[p].scope /\ asked.hooked = probe[p].hooked
      BY <3>1, <3>2 DEF ProbeState
    <3>4. probe[p].hooked <=> probe[p].scope = "active" BY DEF OwnerIsHooked, Captured
    <3>5. \/ /\ probe' = [probe EXCEPT ![p] = asked] \/ probe' = [probe EXCEPT ![p] = begun]
             /\ depth' = depth + 1 /\ UNCHANGED <<traces, elsewhere>>
          \/ EndCapture(p, begun) /\ UNCHANGED depth
          \/ EndCapture(p, probe[p]) /\ UNCHANGED depth
      BY <1>5 DEF BeginForward
    <3> HIDE DEF begun, asked, i
    <3> QED BY <1>2, <1>3, <1>a, <2>1, <2>2, <3>2, <3>3, <3>4, <3>5
  <2> QED BY <1>5, <2>2, <2>3 DEF BeginForward
<1>6. ASSUME NEW p \in Probe, EndForward(p) PROVE ProbesInv'
  <2>1. /\ probe[p] \in ProbeState /\ EndCapture(p, probe[p]) /\ UNCHANGED owner /\ depth' \in 0 .. 2
        /\ owner = p /\ probe[p].writing = NoIndex
    BY <1>6, <1>a DEF EndForward
  <2> QED BY <1>3, <2>1
<1>7. CASE Interrupt
  BY <1>7, <1>a DEF Interrupt, ProbesTypeOK, OwnerIsHooked, Captured
<1>8. ASSUME NEW i \in Index, OtherFindsFree(i) \/ OtherExports(i) PROVE ProbesInv'
  <2>1. UNCHANGED <<probe, owner, depth>> BY <1>8 DEF OtherFindsFree, OtherExports
  <2>2. ProbesTypeOK' BY <1>8, <1>a DEF OtherFindsFree, OtherExports, ProbesTypeOK
  <2>3. elsewhere \subseteq elsewhere' BY <1>8 DEF OtherFindsFree, OtherExports
  <2>4. \A k \in Index : traces'[k] = traces[k] \/ (k \in elsewhere /\ traces'[k] = Elsewhere)
    BY <1>8, <1>a DEF OtherFindsFree, OtherExports
  <2>5. \A q \in Probe : \A k \in probe[q].samples :
          traces'[k] = q \/ (k \in elsewhere' /\ traces'[k] = Elsewhere)
    BY <1>a, <2>3, <2>4 DEF Captured
  <2>6. Captured' BY <2>1, <2>5 DEF Captured
  <2> QED BY <2>1, <2>2, <2>6 DEF OwnerIsHooked
<1>9. ASSUME NEW p \in Probe, ExitProbe(p) PROVE ProbesInv'
  <2>1. PICK raised \in BOOLEAN, stopRaises \in BOOLEAN :
          /\ probe' = [probe EXCEPT ![p].scope = "left", ![p].hooked = FALSE,
                                 ![p].capturing = NoIndex, ![p].failed = raised \/ stopRaises]
          /\ Remove(p, raised)
    BY <1>9 DEF ExitProbe
  <2> DEFINE rec == [probe[p] EXCEPT !.scope = "left", !.hooked = FALSE,
                                     !.capturing = NoIndex, !.failed = raised \/ stopRaises]
  <2>2. probe[p] \in ProbeState /\ probe[p].scope = "active" /\ UNCHANGED <<traces, elsewhere, depth>>
        /\ probe[p].writing = NoIndex
    BY <1>9, <1>a DEF ExitProbe
  <2>a. (raised \/ stopRaises) \in BOOLEAN OBVIOUS
  <2>3. rec \in ProbeState /\ rec.samples = probe[p].samples /\ ~rec.hooked /\ rec.scope = "left"
        /\ rec.writing = NoIndex
    BY <2>2, <2>a DEF ProbeState
  <2>4. probe' = [probe EXCEPT ![p] = rec] BY <2>1, <1>a
  <2>5. owner = p /\ owner' = Nobody BY <2>1, <2>2 DEF Remove, OwnerIsHooked, Captured
  <2> HIDE DEF rec
  <2> QED BY <1>2, <1>a, <2>2, <2>3, <2>4, <2>5 DEF OwnerIsHooked
<1> QED BY <1>1, <1>4, <1>5, <1>6, <1>7, <1>8, <1>9, <1>10 DEF ProbesNext

(* Hooks and the ownership of the diagnostics come and go together.        *)
THEOREM OwnerHasTheHooks == ProbesSpec => []OwnerIsHooked
<1>1. ProbesInv => OwnerIsHooked BY DEF ProbesInv
<1> QED BY <1>1, ProbesInvInit, ProbesInvNext, PTL DEF ProbesSpec

(* A complete report has a trace file of each of its captures, which is    *)
(* its own unless another process found the name free before the export;   *)
(* no other scope of the process has touched it.                           *)
THEOREM CompleteReportsAreCaptured == ProbesSpec => []CompleteIsCaptured
<1>1. ProbesInv => CompleteIsCaptured
  <2>1. ASSUME ProbesInv, NEW p \in Probe, ProbeStatus(p) = "complete"
        PROVE  probe[p].samples = Requested[p]
    BY <2>1 DEF ProbeStatus
  <2> QED BY <2>1 DEF ProbesInv, Captured, CompleteIsCaptured
<1> QED BY <1>1, ProbesInvInit, ProbesInvNext, PTL DEF ProbesSpec

------------------------------------------------------------------------------
(* Capacity profiles *)

(* A budget b suits a workload of peak k without residents and c of        *)
(* candidates, of which runs came through with budgets up to t.            *)
Suits(b, k, c, t) ==
  \/ k + Lower(b, c) <= Higher(Target, k)
  \/ c < ProbeBudget /\ Lower(b, c) <= Lower(t, c)

Sound(rec, k, c, t) ==
  /\ rec.probe <= ProbeBudget
  /\ rec.recommended /\ rec.probe = 0 =>
       Suits(rec.budget, k, c, t) /\ rec.budget <= Higher(SafeBudget(k), t)

(* What a runner knows at each stage.                                      *)
Knows(p) ==
  /\ Sound(draft[p], base, candidates, tried)
  /\ stage[p] = "replace" => temporary[p] = draft[p]
  /\ stage[p] = "read" => status[p] \in {"calibrating", "probing", "observing_vmm"}
  /\ stage[p] \in {"region", "read"} /\ status[p] = "calibrating" => granted[p] = 0
  /\ stage[p] \in {"region", "read"} /\ status[p] = "probing" => granted[p] <= ProbeBudget
  /\ stage[p] = "read" /\ status[p] = "probing" => granted[p] <= tried
  /\ stage[p] = "region" /\ status[p] = "applied" =>
       Suits(granted[p], base, candidates, tried)

ProfilesInv ==
  /\ ProfilesTypeOK /\ ProfileWhole
  /\ Sound(profile, base, candidates, tried)
  /\ \A p \in Runner : Knows(p)

LEMMA Amounts == Target \in 0 .. Total /\ ProbeBudget \in 0 .. Total /\ ProbeBudget <= Target
BY ProfilesAssumption DEF Target, ProbeBudget, Higher, Lower

LEMMA FilesDiffer ==
  /\ Blank \in Record /\ Torn \notin Record /\ NoProfile \notin Record /\ Torn # NoProfile
  /\ NoProfile.probe = -1 /\ NoProfile.recommended = FALSE
  /\ Blank.probe = 0 /\ Blank.recommended = FALSE
<1>1. Torn.probe = -2 /\ NoProfile.probe = -1 /\ NoProfile.recommended = FALSE
      /\ Blank.probe = 0 /\ Blank.recommended = FALSE
  BY DEF Torn, NoProfile, Blank
<1>2. \A rec \in Record : rec.probe \in 0 .. Total BY DEF Record
<1>3. -1 \notin 0 .. Total /\ -2 \notin 0 .. Total BY ProfilesAssumption
<1>4. Blank \in Record BY ProfilesAssumption DEF Blank, Record
<1> QED BY <1>1, <1>2, <1>3, <1>4

(* Smaller budgets suit as well, and none stops to suit when more is tried. *)
LEMMA SuitsBelow ==
  ASSUME NEW k \in Nat, NEW c \in Nat, NEW t \in Nat, NEW u \in Nat, t <= u,
         NEW b \in Nat, NEW d \in Nat, d <= b, Suits(b, k, c, t)
  PROVE  Suits(d, k, c, u)
BY Amounts, ProfilesAssumption DEF Suits, Lower, Higher

LEMMA SoundLater ==
  ASSUME NEW k \in Nat, NEW c \in Nat, NEW t \in Nat, NEW u \in Nat, t <= u,
         NEW rec \in Record \cup {NoProfile}, Sound(rec, k, c, t)
  PROVE  Sound(rec, k, c, u)
<1>1. CASE rec = NoProfile BY <1>1, FilesDiffer DEF Sound
<1>2. CASE rec \in Record
  <2>1. rec.budget \in Nat BY <1>2, ProfilesAssumption DEF Record
  <2>2. SafeBudget(k) \in Nat BY ProfilesAssumption DEF SafeBudget, Higher
  <2>3. rec.budget <= Higher(SafeBudget(k), t) => rec.budget <= Higher(SafeBudget(k), u)
    BY <2>1, <2>2 DEF Higher
  <2> QED BY <2>1, <2>3, SuitsBelow DEF Sound
<1> QED BY <1>1, <1>2

(* What the measured baseline leaves suits.                                *)
LEMMA SafeIsSound ==
  ASSUME NEW k \in Nat, NEW c \in Nat, NEW t \in Nat, NEW rec \in Record
  PROVE  Safe(k, rec) \in Record /\ Sound(Safe(k, rec), k, c, t)
<1>1. SafeBudget(k) \in 0 .. Total BY ProfilesAssumption DEF SafeBudget, Higher
<1>a. 0 \in 0 .. Total BY ProfilesAssumption
<1>2. Safe(k, rec) \in Record BY <1>1, <1>a DEF Safe, Record
<1>3. Safe(k, rec).budget = SafeBudget(k) /\ Safe(k, rec).probe = 0 BY DEF Safe, Record
<1>4. Suits(SafeBudget(k), k, c, t)
  BY ProfilesAssumption DEF Suits, SafeBudget, Target, Lower, Higher
<1>5. SafeBudget(k) <= Higher(SafeBudget(k), t) BY <1>1 DEF Higher
<1> QED BY <1>2, <1>3, <1>4, <1>5, Amounts DEF Sound

LEMMA ProposeIsSound ==
  ASSUME NEW k \in Nat, NEW c \in Nat, NEW t \in Nat, NEW pk \in Nat, NEW rec \in Record,
         ProbeBudget > SafeBudget(pk)
  PROVE  Propose(pk, rec) \in Record /\ Sound(Propose(pk, rec), k, c, t)
<1>1. SafeBudget(pk) \in Nat BY ProfilesAssumption DEF SafeBudget, Higher
<1>2. Propose(pk, rec) \in Record BY Amounts DEF Propose, Record
<1>3. Propose(pk, rec).probe = ProbeBudget BY DEF Propose, Record
<1>4. ProbeBudget # 0 BY <1>1, Amounts
<1> QED BY <1>2, <1>3, <1>4, Amounts DEF Sound

(* The correction of a probe of g by the peak it led to: it suits when the *)
(* candidates used it up, and otherwise needs no more than the probe did.  *)
LEMMA RefineIsSound ==
  ASSUME NEW k \in Nat, NEW c \in Nat, NEW t \in Nat, NEW g \in 0 .. Total, NEW rec \in Record,
         g <= ProbeBudget, g <= t
  PROVE  LET pk == k + Lower(g, c) IN
           Refine(g, pk, rec) \in Record /\ Sound(Refine(g, pk, rec), k, c, t)
<1> DEFINE pk == k + Lower(g, c)
           b  == Refined(g, pk)
<1>1. pk \in Nat BY DEF Lower
<1>2. b \in 0 .. Total /\ b <= g BY <1>1, Amounts, ProfilesAssumption DEF Refined, Higher
<1>3. Suits(b, k, c, t)
  <2>1. CASE pk <= Target
    <3>1. b = g BY <2>1, <1>1, Amounts, ProfilesAssumption DEF Refined, Higher
    <3> QED BY <2>1, <3>1, Amounts, ProfilesAssumption DEF Suits, Higher, Lower
  <2>2. CASE pk > Target /\ g <= c
    <3>1. pk = k + g BY <2>2 DEF Lower
    <3>2. b = Higher(0, Target - k) BY <2>2, <3>1, Amounts, ProfilesAssumption DEF Refined, Higher
    <3> QED BY <3>2, Amounts, ProfilesAssumption DEF Suits, Higher, Lower
  <2>3. CASE g > c
    BY <2>3, <1>2, Amounts, ProfilesAssumption DEF Suits, Lower
  <2> QED BY <2>1, <2>2, <2>3, <1>1, Amounts
<1>4. b <= Higher(SafeBudget(k), t)
  <2>1. SafeBudget(k) \in Nat BY ProfilesAssumption DEF SafeBudget, Higher
  <2> QED BY <1>2, <2>1, ProfilesAssumption DEF Higher
<1>a. 0 \in 0 .. Total BY ProfilesAssumption
<1>5. Refine(g, pk, rec) \in Record BY <1>2, <1>a DEF Refine, Record
<1>6. Refine(g, pk, rec).budget = b /\ Refine(g, pk, rec).probe = 0 BY DEF Refine, Record
<1> QED BY <1>3, <1>4, <1>5, <1>6, Amounts DEF Sound

LEMMA MergeIsSound ==
  ASSUME NEW k \in Nat, NEW c \in Nat, NEW t \in Nat, NEW rec \in Record, Sound(rec, k, c, t),
         NEW outcome \in {"success", "failure"}, NEW value \in Limits
  PROVE  Merge(outcome, value, rec) \in Record /\ Sound(Merge(outcome, value, rec), k, c, t)
<1>1. Merge(outcome, value, rec) \in Record BY DEF Merge, Record, Higher, Lower
<1>2. /\ Merge(outcome, value, rec).budget = rec.budget
      /\ Merge(outcome, value, rec).probe = rec.probe
      /\ Merge(outcome, value, rec).recommended = rec.recommended
  BY DEF Merge, Record
<1> QED BY <1>1, <1>2 DEF Sound

LEMMA ProfilesInvInit == ProfilesInit => ProfilesInv
<1> SUFFICES ASSUME ProfilesInit PROVE ProfilesInv OBVIOUS
<1>1. ProfilesTypeOK
  BY FilesDiffer, ProfilesAssumption DEF ProfilesInit, ProfilesTypeOK
<1>2. \A rec \in {NoProfile, Blank} : Sound(rec, base, candidates, tried)
  BY FilesDiffer, Amounts DEF Sound
<1>3. ASSUME NEW p \in Runner PROVE Knows(p)
  BY <1>2 DEF Knows, ProfilesInit
<1> QED BY <1>1, <1>2, <1>3, FilesDiffer DEF ProfilesInv, ProfileWhole, ProfilesInit

LEMMA LoadedSound ==
  ASSUME ProfilesInv
  PROVE  Loaded \in Record /\ Sound(Loaded, base, candidates, tried)
<1>1. Sound(Blank, base, candidates, tried) BY FilesDiffer, Amounts DEF Sound
<1> QED BY <1>1, FilesDiffer DEF ProfilesInv, ProfilesTypeOK, Loaded

LEMMA PreparedSound ==
  ASSUME ProfilesInv, NEW call \in {"build", "explicit", "plain"},
         NEW explicit \in {0, ProbeMinSafe}
  PROVE  LET run == Prepared(call, explicit) IN
         /\ run.budget \in 0 .. Total
         /\ run.status \in {"disabled", "calibrating", "observing_vmm", "observed", "missing",
                            "applied", "probing"}
         /\ run.status = "calibrating" => run.budget = 0
         /\ run.status = "probing" => run.budget <= ProbeBudget
         /\ run.status = "applied" => Suits(run.budget, base, candidates, tried)
<1>1. Loaded \in Record /\ Sound(Loaded, base, candidates, tried) BY LoadedSound
<1>2. Loaded.budget \in 0 .. Total /\ Loaded.probe \in 0 .. Total BY <1>1 DEF Record
<1>3. 0 \in 0 .. Total /\ explicit \in 0 .. Total BY ProfilesAssumption
<1>4. Capped(Loaded.budget) \in 0 .. Total /\ Capped(Loaded.budget) <= Loaded.budget
  BY <1>2, ProfilesAssumption DEF Capped, Lower
<1>5. /\ Lower(Loaded.probe, Capped(Loaded.budget)) \in 0 .. Total
      /\ Lower(Loaded.probe, Capped(Loaded.budget)) <= Loaded.probe
  BY <1>2, <1>4 DEF Lower
<1>6. Loaded.probe <= ProbeBudget BY <1>1 DEF Sound
<1>7. Lower(Loaded.probe, Capped(Loaded.budget)) <= ProbeBudget
  BY <1>2, <1>5, <1>6, Amounts
<1>8. Loaded.recommended /\ Loaded.probe = 0 => Suits(Capped(Loaded.budget), base, candidates, tried)
  <2>1. base \in Nat /\ candidates \in Nat /\ tried \in Nat
    BY ProfilesAssumption DEF ProfilesInv, ProfilesTypeOK
  <2> QED BY <2>1, <1>1, <1>2, <1>4, SuitsBelow DEF Sound
<1>9. ~(Loaded.probe > 0) => Loaded.probe = 0 BY <1>2
<1> QED BY <1>2, <1>3, <1>4, <1>5, <1>7, <1>8, <1>9 DEF Prepared

LEMMA RecommendSound ==
  ASSUME ProfilesInv, NEW p \in Runner, stage[p] = "read", status[p] # "observing_vmm"
  PROVE  /\ Recommend(p, Loaded) \in Record
         /\ Sound(Recommend(p, Loaded), base, candidates, tried)
<1>1. Loaded \in Record BY LoadedSound
<1>2. /\ base \in Nat /\ candidates \in Nat /\ tried \in Nat /\ granted[p] \in 0 .. Total
      /\ Knows(p)
  BY ProfilesAssumption DEF ProfilesInv, ProfilesTypeOK
<1>3. CASE status[p] = "probing"
  <2>1. granted[p] <= ProbeBudget /\ granted[p] <= tried BY <1>2, <1>3 DEF Knows
  <2>2. Peak(p) = base + Lower(granted[p], candidates) BY DEF Peak, PeakWith
  <2> QED BY <1>1, <1>2, <1>3, <2>1, <2>2, RefineIsSound DEF Recommend
<1>4. CASE status[p] = "calibrating"
  <2>1. Peak(p) = base BY <1>2, <1>4 DEF Knows, Peak, PeakWith, Lower
  <2> QED BY <1>1, <1>2, <1>4, <2>1, SafeIsSound, ProposeIsSound DEF Recommend
<1> QED BY <1>2, <1>3, <1>4 DEF Knows

LEMMA ProfilesInvNext ==
  ASSUME ProfilesInv, [ProfilesNext]_profileVars
  PROVE  ProfilesInv'
<1> USE DEF ProfilesInv
<1>a. /\ runtime \in Runtimes /\ base \in 0 .. Total /\ candidates \in Nat
      /\ profile \in Record \cup {NoProfile, Torn}
      /\ temporary \in [Runner -> Record \cup {NoProfile, Torn}]
      /\ stage \in [Runner -> {"idle", "region", "read", "write", "flush", "replace"}]
      /\ status \in [Runner -> {"disabled", "calibrating", "observing_vmm", "observed", "missing",
                            "applied", "probing", "observing", "saved", "failed"}]
      /\ granted \in [Runner -> 0 .. Total] /\ draft \in [Runner -> Record]
      /\ tried \in 0 .. Total /\ runsLeft \in 0 .. MaxRuns
      /\ \A p \in Runner : Knows(p)
  BY DEF ProfilesTypeOK
<1>b. base \in Nat /\ tried \in Nat /\ 0 \in 0 .. Total BY <1>a, ProfilesAssumption
<1>c. Blank \in Record /\ Sound(Blank, base, candidates, tried) BY FilesDiffer, Amounts DEF Sound
<1>1. CASE UNCHANGED profileVars
  BY <1>1, <1>a DEF profileVars, ProfilesTypeOK, ProfileWhole, Knows
(* What a step of one runner that leaves the file alone has to show.       *)
<1>2. ASSUME NEW p \in Runner, UNCHANGED <<runtime, base, candidates, profile>>,
             ProfilesTypeOK', tried <= tried', Knows(p)',
             \A q \in Runner \ {p} :
               /\ stage'[q] = stage[q] /\ status'[q] = status[q] /\ granted'[q] = granted[q]
               /\ draft'[q] = draft[q] /\ temporary'[q] = temporary[q]
      PROVE  ProfilesInv'
  <2>2. ProfileWhole' /\ profile \in Record \cup {NoProfile} BY <1>2, <1>a DEF ProfileWhole
  <2>3. tried' \in Nat BY <1>2, ProfilesAssumption DEF ProfilesTypeOK
  <2>4. \A rec \in Record \cup {NoProfile} :
          Sound(rec, base, candidates, tried) => Sound(rec, base, candidates, tried')
    BY <1>2, <1>a, <1>b, <2>3, SoundLater
  <2>5. \A n \in 0 .. Total :
          Suits(n, base, candidates, tried) => Suits(n, base, candidates, tried')
    <3>1. \A n \in 0 .. Total : n \in Nat /\ n <= n BY ProfilesAssumption
    <3> QED BY <1>2, <1>a, <1>b, <2>3, <3>1, SuitsBelow
  <2>6. Sound(profile', base', candidates', tried') BY <1>2, <2>2, <2>4
  <2>7. ASSUME NEW q \in Runner, q # p PROVE Knows(q)'
    <3>1. /\ stage'[q] = stage[q] /\ status'[q] = status[q] /\ granted'[q] = granted[q]
          /\ draft'[q] = draft[q] /\ temporary'[q] = temporary[q]
      BY <1>2, <2>7
    <3>2. granted[q] \in 0 .. Total /\ draft[q] \in Record BY <1>a
    <3>3. granted[q] <= tried => granted[q] <= tried' BY <1>2, <1>a, <3>2, <2>3
    <3>4. base' = base /\ candidates' = candidates BY <1>2
    <3>5. Knows(q) BY <1>a
    <3> QED BY <3>1, <3>2, <3>3, <3>4, <3>5, <2>4, <2>5 DEF Knows
  <2> QED BY <1>2, <2>2, <2>6, <2>7
<1>3. ASSUME NEW p \in Runner, NEW call \in {"build", "explicit", "plain"}, Prepare(p, call)
      PROVE  ProfilesInv'
  <2>1. PICK explicit \in IF call = "explicit" THEN {ProbeMinSafe} ELSE {0} :
          /\ status'  = [status EXCEPT ![p] = Prepared(call, explicit).status]
          /\ granted' = [granted EXCEPT ![p] = Prepared(call, explicit).budget]
    BY <1>3 DEF Prepare
  <2>2. PICK run : run = Prepared(call, explicit) OBVIOUS
  <2>3. /\ run.budget \in 0 .. Total
        /\ run.status \in {"disabled", "calibrating", "observing_vmm", "observed", "missing",
                           "applied", "probing"}
        /\ run.status = "calibrating" => run.budget = 0
        /\ run.status = "probing" => run.budget <= ProbeBudget
        /\ run.status = "applied" => Suits(run.budget, base, candidates, tried)
    BY <2>2, PreparedSound
  <2>4. /\ stage' = [stage EXCEPT ![p] = "region"] /\ runsLeft' \in 0 .. MaxRuns
        /\ draft' = [draft EXCEPT ![p] = draft[p]]
        /\ temporary' = [temporary EXCEPT ![p] = temporary[p]]
        /\ tried' = tried /\ UNCHANGED <<runtime, base, candidates, profile>>
    BY <1>3, <1>a, ProfilesAssumption DEF Prepare
  <2>5. draft[p] \in Record /\ temporary[p] \in Record \cup {NoProfile, Torn}
        /\ Sound(draft[p], base, candidates, tried)
    BY <1>a DEF Knows
  <2>7. ProfilesTypeOK' BY <1>a, <1>b, <1>c, <2>1, <2>2, <2>3, <2>4, <2>5 DEF ProfilesTypeOK
  <2>8. Knows(p)' BY <1>a, <1>b, <1>c, <2>1, <2>2, <2>3, <2>4, <2>5 DEF Knows
  <2> QED BY <1>2, <1>a, <2>1, <2>2, <2>3, <2>4, <2>5, <2>7, <2>8
<1>4. ASSUME NEW p \in Runner, RegionRaises(p) PROVE ProfilesInv'
  <2>1. /\ stage' = [stage EXCEPT ![p] = "idle"] /\ status' = [status EXCEPT ![p] = "failed"]
        /\ granted' = [granted EXCEPT ![p] = 0] /\ draft' = [draft EXCEPT ![p] = Blank]
        /\ temporary' = [temporary EXCEPT ![p] = temporary[p]]
        /\ UNCHANGED <<runtime, base, candidates, profile, tried, runsLeft>>
    BY <1>4, <1>a DEF RegionRaises, Forget
  <2>7. ProfilesTypeOK' BY <1>a, <1>b, <1>c, <2>1 DEF ProfilesTypeOK
  <2>8. Knows(p)' BY <1>a, <1>b, <1>c, <2>1 DEF Knows
  <2> QED BY <1>2, <1>a, <2>1, <2>7, <2>8
<1>5. ASSUME NEW p \in Runner, RegionDone(p) PROVE ProfilesInv'
  <2>1. /\ tried' = Higher(tried, granted[p]) /\ granted[p] \in 0 .. Total
        /\ temporary' = [temporary EXCEPT ![p] = temporary[p]]
        /\ status' = [status EXCEPT ![p] = status[p]]
        /\ UNCHANGED <<runtime, base, candidates, profile, runsLeft>>
    BY <1>5, <1>a DEF RegionDone
  <2>2. tried' \in 0 .. Total /\ tried <= tried' /\ granted[p] <= tried'
    BY <2>1, <1>a DEF Higher
  <2>3. Knows(p) /\ stage[p] = "region" BY <1>5, <1>a DEF RegionDone
  <2>4. CASE /\ status[p] \in {"calibrating", "probing", "observing_vmm"}
             /\ stage' = [stage EXCEPT ![p] = "read"] /\ UNCHANGED <<granted, draft>>
    <3>1. granted' = [granted EXCEPT ![p] = granted[p]] /\ draft' = [draft EXCEPT ![p] = draft[p]]
          /\ draft[p] \in Record
      BY <2>4, <1>a
    <3>2. ProfilesTypeOK' BY <1>a, <2>1, <2>2, <2>4, <3>1 DEF ProfilesTypeOK
    <3>3. Sound(draft[p], base, candidates, tried')
      BY <1>a, <1>b, <2>2, <2>3, <3>1, SoundLater, ProfilesAssumption DEF Knows
    <3>4. Knows(p)' BY <1>a, <2>1, <2>2, <2>3, <2>4, <3>1, <3>3 DEF Knows
    <3> QED BY <1>2, <1>a, <2>1, <2>2, <2>4, <3>1, <3>2, <3>4
  <2>5. CASE stage' = [stage EXCEPT ![p] = "idle"] /\ Forget(p)
    <3>1. granted' = [granted EXCEPT ![p] = 0] /\ draft' = [draft EXCEPT ![p] = Blank]
      BY <2>5 DEF Forget
    <3>2. ProfilesTypeOK' BY <1>a, <1>b, <1>c, <2>1, <2>2, <2>5, <3>1 DEF ProfilesTypeOK
    <3>3. Sound(Blank, base, candidates, tried') BY FilesDiffer, Amounts DEF Sound
    <3>4. Knows(p)' BY <1>a, <2>1, <2>2, <2>5, <3>1, <3>3 DEF Knows
    <3> QED BY <1>2, <1>a, <2>1, <2>2, <2>5, <3>1, <3>2, <3>4
  <2> QED BY <1>5, <2>4, <2>5 DEF RegionDone
<1>6. ASSUME NEW p \in Runner, Observe(p) PROVE ProfilesInv'
  <2>1. PICK outcome \in {"success", "failure"}, value \in Limits :
          draft' = [draft EXCEPT ![p] = Merge(outcome, value, Loaded)]
    BY <1>6 DEF Observe
  <2>2. PICK d : d = Merge(outcome, value, Loaded) OBVIOUS
  <2>3. d \in Record /\ Sound(d, base, candidates, tried)
    BY <1>a, <1>b, <2>2, LoadedSound, MergeIsSound
  <2>4. /\ stage' = [stage EXCEPT ![p] = "write"] /\ status' = [status EXCEPT ![p] = "observing"]
        /\ granted' = [granted EXCEPT ![p] = granted[p]] /\ granted[p] \in 0 .. Total
        /\ temporary' = [temporary EXCEPT ![p] = temporary[p]] /\ runsLeft' \in 0 .. MaxRuns
        /\ UNCHANGED <<runtime, base, candidates, profile, tried>>
    BY <1>6, <1>a, ProfilesAssumption DEF Observe
  <2>7. ProfilesTypeOK' BY <1>a, <1>b, <1>c, <2>1, <2>2, <2>3, <2>4 DEF ProfilesTypeOK
  <2>8. Knows(p)' BY <1>a, <1>b, <1>c, <2>1, <2>2, <2>3, <2>4 DEF Knows
  <2> QED BY <1>2, <1>a, <2>1, <2>2, <2>3, <2>4, <2>7, <2>8
<1>7. ASSUME NEW p \in Runner, Read(p) PROVE ProfilesInv'
  <2>1. PICK d : d = IF status[p] = "observing_vmm" THEN Merge("success", VmmBytes, Loaded)
                                                    ELSE Recommend(p, Loaded)
    OBVIOUS
  <2>2. d \in Record /\ Sound(d, base, candidates, tried)
    <3>1. stage[p] = "read" /\ VmmBytes \in Limits BY <1>7, ProfilesAssumption DEF Read
    <3> QED BY <1>a, <1>b, <2>1, <3>1, LoadedSound, MergeIsSound, RecommendSound
  <2>3. /\ stage' = [stage EXCEPT ![p] = "write"] /\ draft' = [draft EXCEPT ![p] = d]
        /\ granted' = [granted EXCEPT ![p] = granted[p]] /\ granted[p] \in 0 .. Total
        /\ temporary' = [temporary EXCEPT ![p] = temporary[p]]
        /\ status' = [status EXCEPT ![p] = status[p]]
        /\ UNCHANGED <<runtime, base, candidates, profile, tried, runsLeft>>
    BY <1>7, <1>a, <2>1 DEF Read
  <2>7. ProfilesTypeOK' BY <1>a, <1>b, <1>c, <2>2, <2>3 DEF ProfilesTypeOK
  <2>8. Knows(p)' BY <1>a, <1>b, <1>c, <2>2, <2>3 DEF Knows
  <2> QED BY <1>2, <1>a, <2>2, <2>3, <2>7, <2>8
<1>8. ASSUME NEW p \in Runner, Write(p) PROVE ProfilesInv'
  <2>1. /\ stage' = [stage EXCEPT ![p] = "flush"] /\ draft' = [draft EXCEPT ![p] = draft[p]]
        /\ granted' = [granted EXCEPT ![p] = granted[p]] /\ granted[p] \in 0 .. Total
        /\ temporary' = [temporary EXCEPT ![p] = Torn]
        /\ status' = [status EXCEPT ![p] = status[p]]
        /\ UNCHANGED <<runtime, base, candidates, profile, tried, runsLeft>>
    BY <1>8, <1>a DEF Write, OpenTemporary
  <2>2. draft[p] \in Record /\ Sound(draft[p], base, candidates, tried) BY <1>a DEF Knows
  <2>7. ProfilesTypeOK' BY <1>a, <1>b, <1>c, <2>1, <2>2 DEF ProfilesTypeOK
  <2>8. Knows(p)' BY <1>a, <1>b, <1>c, <2>1, <2>2 DEF Knows
  <2> QED BY <1>2, <1>a, <2>1, <2>2, <2>7, <2>8
<1>9. ASSUME NEW p \in Runner, Flush(p) PROVE ProfilesInv'
  <2>1. /\ stage' = [stage EXCEPT ![p] = "replace"] /\ draft' = [draft EXCEPT ![p] = draft[p]]
        /\ granted' = [granted EXCEPT ![p] = granted[p]] /\ granted[p] \in 0 .. Total
        /\ temporary' = [temporary EXCEPT ![p] = draft[p]]
        /\ status' = [status EXCEPT ![p] = status[p]]
        /\ UNCHANGED <<runtime, base, candidates, profile, tried, runsLeft>>
    BY <1>9, <1>a DEF Flush
  <2>2. draft[p] \in Record /\ Sound(draft[p], base, candidates, tried) BY <1>a DEF Knows
  <2>7. ProfilesTypeOK' BY <1>a, <1>b, <1>c, <2>1, <2>2 DEF ProfilesTypeOK
  <2>8. Knows(p)' BY <1>a, <1>b, <1>c, <2>1, <2>2 DEF Knows
  <2> QED BY <1>2, <1>a, <2>1, <2>2, <2>7, <2>8
<1>10. ASSUME NEW p \in Runner, Replace(p) PROVE ProfilesInv'
  <2>1. /\ profile' = draft[p] /\ draft[p] \in Record /\ Sound(draft[p], base, candidates, tried)
    BY <1>10, <1>a DEF Replace, Knows
  <2>2. /\ stage' = [stage EXCEPT ![p] = "idle"] /\ status' = [status EXCEPT ![p] = "saved"]
        /\ granted' = [granted EXCEPT ![p] = 0] /\ draft' = [draft EXCEPT ![p] = Blank]
        /\ temporary' = [temporary EXCEPT ![p] = NoProfile]
        /\ UNCHANGED <<runtime, base, candidates, tried, runsLeft>>
    BY <1>10, <1>a DEF Replace, Forget
  <2>3. ProfilesTypeOK' BY <1>a, <1>b, <1>c, <2>1, <2>2 DEF ProfilesTypeOK
  <2>4. ProfileWhole' BY <2>1, FilesDiffer DEF ProfileWhole
  <2>5. ASSUME NEW q \in Runner PROVE Knows(q)'
    BY <1>a, <1>c, <2>2 DEF Knows
  <2> QED BY <2>1, <2>2, <2>3, <2>4, <2>5
<1>11. ASSUME NEW p \in Runner, Kill(p) PROVE ProfilesInv'
  <2>1. /\ stage' = [stage EXCEPT ![p] = "idle"] /\ status' = [status EXCEPT ![p] = "disabled"]
        /\ granted' = [granted EXCEPT ![p] = 0] /\ draft' = [draft EXCEPT ![p] = Blank]
        /\ temporary' = [temporary EXCEPT ![p] = NoProfile]
        /\ UNCHANGED <<runtime, base, candidates, profile, tried, runsLeft>>
    BY <1>11, <1>a DEF Kill, Forget
  <2>7. ProfilesTypeOK' BY <1>a, <1>b, <1>c, <2>1 DEF ProfilesTypeOK
  <2>8. Knows(p)' BY <1>a, <1>b, <1>c, <2>1 DEF Knows
  <2> QED BY <1>2, <1>a, <2>1, <2>7, <2>8
<1> QED BY <1>1, <1>3, <1>4, <1>5, <1>6, <1>7, <1>8, <1>9, <1>10, <1>11 DEF ProfilesNext

(* No kill leaves half a profile.                                          *)
THEOREM ProfilesAreWhole == ProfilesSpec => []ProfileWhole
<1>1. ProfilesInv => ProfileWhole BY DEF ProfilesInv
<1> QED BY <1>1, ProfilesInvInit, ProfilesInvNext, PTL DEF ProfilesSpec

(* A settled recommendation was tried, or follows from the baseline.       *)
THEOREM RecommendationsWereTried == ProfilesSpec => []SettledWasTried
<1>1. ProfilesInv => SettledWasTried BY DEF ProfilesInv, Sound, SettledWasTried
<1> QED BY <1>1, ProfilesInvInit, ProfilesInvNext, PTL DEF ProfilesSpec

(* A run on a settled recommendation keeps the headroom, or needs no more  *)
(* than a run that came through.                                           *)
THEOREM HeadroomIsKept == ProfilesSpec => []HeadroomKept
<1>1. ProfilesInv => HeadroomKept
  <2> SUFFICES ASSUME ProfilesInv, NEW p \in Runner, stage[p] = "region", status[p] = "applied"
               PROVE  \/ Peak(p) <= Higher(Target, base)
                      \/ candidates < ProbeBudget /\ Peak(p) <= PeakWith(tried)
    BY DEF HeadroomKept
  <2>1. Suits(granted[p], base, candidates, tried) BY DEF ProfilesInv, Knows
  <2>2. /\ base \in Nat /\ candidates \in Nat /\ tried \in Nat /\ granted[p] \in Nat
    BY ProfilesAssumption DEF ProfilesInv, ProfilesTypeOK
  <2> QED BY <2>1, <2>2 DEF Suits, Peak, PeakWith, Lower
<1> QED BY <1>1, ProfilesInvInit, ProfilesInvNext, PTL DEF ProfilesSpec

------------------------------------------------------------------------------
(* The composition: its behaviours are behaviours of every part, so that   *)
(* what is proved of a part holds there.                                   *)
THEOREM RecordsAreTyped == MCSpec => []RecordsTypeOK
<1>1. MCInit => ProfilesInv /\ JournalInv /\ ScopesInv /\ ProbesInv
  BY ProfilesInvInit, JournalInvInit, ScopesInvInit, ProbesInvInit DEF MCInit
<1>2. /\ ProfilesInv /\ JournalInv /\ ScopesInv /\ ProbesInv
      /\ [MCNext]_<<part, profileVars, journalVars, scopeVars, probeVars>>
      => (ProfilesInv /\ JournalInv /\ ScopesInv /\ ProbesInv)'
  <2> SUFFICES ASSUME ProfilesInv /\ JournalInv /\ ScopesInv /\ ProbesInv,
                      [MCNext]_<<part, profileVars, journalVars, scopeVars, probeVars>>
               PROVE  (ProfilesInv /\ JournalInv /\ ScopesInv /\ ProbesInv)'
    OBVIOUS
  <2>1. /\ [ProfilesNext]_profileVars /\ [JournalNext]_journalVars
        /\ [ScopesNext]_scopeVars /\ [ProbesNext]_probeVars
    BY DEF MCNext
  <2> QED BY <2>1, ProfilesInvNext, JournalInvNext, ScopesInvNext, ProbesInvNext
<1>3. ProfilesInv /\ JournalInv /\ ScopesInv /\ ProbesInv => RecordsTypeOK
  BY DEF ProfilesInv, JournalInv, ScopesInv, ProbesInv, RecordsTypeOK
<1> QED BY <1>1, <1>2, <1>3, PTL DEF MCSpec

=============================================================================
