---------------------------- MODULE MetricsJournal ----------------------------
(***************************************************************************)
(* DynamicOffloadMetricsJournal: partial reports of a run, each published  *)
(* under the name of its step.  Several journals (of one process or of     *)
(* more) may share a directory; a process may be killed at any point, and  *)
(* the disk may refuse a write.                                            *)
(***************************************************************************)
EXTENDS Naturals

CONSTANTS
  Journal,     \* journals on one directory
  Step,        \* names of records: before_denoise and the steps
  MaxRecords   \* bound: calls of record by all journals

ASSUME JournalAssumption == "nobody" \notin Journal /\ Step # {} /\ MaxRecords \in Nat

VARIABLES
  posix,       \* os.name: link and unlink; otherwise rename
  published,   \* step |-> who published it and how much of it is written
  draftFile,   \* journal |-> its temporary file
  journalAt,   \* journal |-> how far its call of record has come
  recording,   \* journal |-> the step it records
  returned,    \* journal |-> steps for which record returned a path
  recordsLeft  \* calls still to come

journalVars == <<posix, published, draftFile, journalAt, recording, returned, recordsLeft>>

NoFile == [of |-> "nobody", whole |-> FALSE]
File   == [of : Journal, whole : BOOLEAN]

JournalTypeOK ==
  /\ posix \in BOOLEAN
  /\ published \in [Step -> File \cup {NoFile}]
  /\ draftFile \in [Journal -> File \cup {NoFile}]
  /\ journalAt \in [Journal -> {"open", "absent", "opened", "synced", "linked", "closed", "killed"}]
  /\ recording \in [Journal -> Step]
  /\ returned \in [Journal -> SUBSET Step]
  /\ recordsLeft \in 0 .. MaxRecords

JournalInit ==
  /\ posix \in BOOLEAN
  /\ published = [s \in Step |-> NoFile]
  /\ draftFile = [j \in Journal |-> NoFile]
  /\ journalAt = [j \in Journal |-> "open"]
  /\ recording = [j \in Journal |-> CHOOSE s \in Step : TRUE]
  /\ returned = [j \in Journal |-> {}]
  /\ recordsLeft = MaxRecords

------------------------------------------------------------------------------
To(j, at) == journalAt' = [journalAt EXCEPT ![j] = at]

(* record looks whether the step was published; a closed journal refuses,  *)
(* and a report that cannot be made ends the call.                         *)
RecordBegin(j, s) ==
  /\ journalAt[j] = "open" /\ recordsLeft > 0
  /\ recordsLeft' = recordsLeft - 1
  /\ \/ published[s] = NoFile /\ To(j, "absent")
     \/ UNCHANGED journalAt
  /\ recording' = [recording EXCEPT ![j] = s]
  /\ UNCHANGED <<posix, published, draftFile, returned>>

OpenDraft(j) ==
  /\ journalAt[j] = "absent" /\ To(j, "opened")
  /\ draftFile' = [draftFile EXCEPT ![j] = [of |-> j, whole |-> FALSE]]
  /\ UNCHANGED <<posix, published, recording, returned, recordsLeft>>

(* The text is written and synchronized with the disk, or the disk is full *)
(* and the temporary file stays.  As a mutant, the draft is not written    *)
(* out before it is published.                                             *)
BufferDraft(j) ==
  /\ journalAt[j] = "opened" /\ To(j, "synced")
  /\ UNCHANGED <<posix, published, draftFile, recording, returned, recordsLeft>>

WriteDraft(j) ==
  /\ journalAt[j] = "opened"
  /\ \/ /\ To(j, "synced")
        /\ draftFile' = [draftFile EXCEPT ![j].whole = TRUE]
     \/ To(j, "open") /\ UNCHANGED draftFile
  /\ UNCHANGED <<posix, published, recording, returned, recordsLeft>>

(* link and rename refuse a name that is taken; the temporary file then    *)
(* stays.  As a mutant, the check at the beginning is trusted.             *)
Overwrites(j) == TRUE
NameFree(j)   == published[recording[j]] = NoFile

PublishRecord(j) ==
  /\ journalAt[j] = "synced"
  /\ \/ /\ NameFree(j)
        /\ published' = [published EXCEPT ![recording[j]] = draftFile[j]]
        /\ IF posix THEN To(j, "linked") /\ UNCHANGED <<draftFile, returned>>
           ELSE /\ To(j, "open")
                /\ draftFile' = [draftFile EXCEPT ![j] = NoFile]
                /\ returned' = [returned EXCEPT ![j] = @ \cup {recording[j]}]
     \/ /\ ~NameFree(j)
        /\ To(j, "open")
        /\ UNCHANGED <<posix, published, draftFile, returned>>
  /\ UNCHANGED <<posix, recording, recordsLeft>>

UnlinkDraft(j) ==
  /\ journalAt[j] = "linked" /\ To(j, "open")
  /\ draftFile' = [draftFile EXCEPT ![j] = NoFile]
  /\ returned' = [returned EXCEPT ![j] = @ \cup {recording[j]}]
  /\ UNCHANGED <<posix, published, recording, recordsLeft>>

(* __exit__; or the process is killed, in the middle of a write too.       *)
CloseJournal(j) ==
  /\ journalAt[j] = "open" /\ To(j, "closed")
  /\ UNCHANGED <<posix, published, draftFile, recording, returned, recordsLeft>>

KillJournal(j) ==
  /\ journalAt[j] \notin {"closed", "killed"} /\ To(j, "killed")
  /\ UNCHANGED <<posix, published, draftFile, recording, returned, recordsLeft>>

JournalNext ==
  \E j \in Journal :
    \/ \E s \in Step : RecordBegin(j, s)
    \/ OpenDraft(j) \/ WriteDraft(j) \/ PublishRecord(j) \/ UnlinkDraft(j)
    \/ CloseJournal(j) \/ KillJournal(j)

JournalSpec == JournalInit /\ [][JournalNext]_journalVars

------------------------------------------------------------------------------
(* Properties *)

(* What a journal was given the path of is its own report, whatever other  *)
(* journals record into the directory meanwhile or later.                  *)
RecordsMine ==
  \A j \in Journal : \A s \in returned[j] : published[s].of = j

(* A kill at any point, and a full disk, leave whole records or none.      *)
RecordsWhole == \A s \in Step : published[s] # NoFile => published[s].whole

==============================================================================
