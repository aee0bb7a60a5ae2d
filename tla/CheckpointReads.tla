---------------------------- MODULE CheckpointReads ----------------------------
(***************************************************************************)
(* Filling one slot of the staging pool from checkpoint files: packing of   *)
(* the tensors of a group, joining of adjacent byte ranges, and the reads,  *)
(* from a mapping of the file or, on Windows, in chunks by the threads of   *)
(* WindowsPinnedFileReader.  Which slot is taken is the subject of          *)
(* StagingRing.                                                             *)
(***************************************************************************)
EXTENDS PackedSizes, SequencesExt

CONSTANTS
  Slices,         \* byte ranges of tensors: [path, offset, size]
  FileBytes,      \* size of every file
  SlotBytes,      \* PinnedStagingPool.size_bytes
  ChunkBytes,     \* WindowsPinnedFileReader.chunk_bytes
  RequestWorkers, \* threads of _requests
  MaxEntries,     \* bound: tensors of a group
  MaxBatches,     \* bound: groups staged
  MaxFaults       \* bound: reads that the file system fails

ASSUME ReadsAssumption ==
  /\ \A s \in Slices : s.offset \in Nat /\ s.size \in Nat
  /\ {SlotBytes, MaxEntries} \subseteq Nat /\ ChunkBytes \in Nat \ {0}

VARIABLES
  overlapped,     \* uses_windows_overlapped_file_io
  cells,          \* cell of the slot |-> path and position of its byte
  staged,         \* the slices of the present batch
  requests,       \* the reads of the present batch, joined
  late,           \* chunks of earlier batches that are still to be read
  staging,        \* where the batch stands
  handles,        \* paths of open handles, or of mappings
  batchesLeft, faultsLeft

readVars == <<overlapped, cells, staged, requests, late, staging, handles, batchesLeft, faultsLeft>>

Junk == <<"nothing", 0>>
Late == <<"late", 0>>    \* written by a chunk of a read that had failed
Cell == 0 .. SlotBytes - 1

(* Tensors are packed without gaps: where one begins is the number of the   *)
(* bytes before it.                                                        *)
Start(entries, k) == SizeOf(entries, 1 .. k - 1)

(* A slice prolongs a run when it is the next of its file after the run's  *)
(* last one.  As a mutant, of any file.                                    *)
JoinsAnyFile(last, e) == last.offset + last.size = e.offset
Joins(last, e)        == last.path = e.path /\ last.offset + last.size = e.offset

(* Where runs begin; the slices of the run that begins at h; the runs, by  *)
(* where they begin.                                                       *)
Heads(entries) == {k \in DOMAIN entries : k = 1 \/ ~Joins(entries[k - 1], entries[k])}
JoinedTo(entries, h) == {k \in DOMAIN entries : k >= h /\ (h + 1 .. k) \cap Heads(entries) = {}}
RunsOf(entries) ==
  [h \in Heads(entries) |->
     [path |-> entries[h].path, offset |-> entries[h].offset,
      size |-> SizeOf(entries, JoinedTo(entries, h)), at |-> Start(entries, h)]]

Chunks(run) ==
  {[path |-> run.path, offset |-> run.offset + done, at |-> run.at + done,
    size |-> IF run.size - done < ChunkBytes THEN run.size - done ELSE ChunkBytes] :
     done \in {d \in {n * ChunkBytes : n \in 0 .. run.size} : d < run.size}}

Covers(run, i)  == i \in run.at .. run.at + run.size - 1
Readable(run)   == run.offset + run.size <= FileBytes
ByteOf(run, i)  == <<run.path, run.offset + i - run.at>>
Filled(run)     == [i \in Cell |-> IF Covers(run, i) THEN ByteOf(run, i) ELSE cells[i]]

(* As a mutant, a group is packed past the end of the slot.                *)
AlwaysFits(entries) == TRUE
FitsIn(entries)     == SizeOf(entries, DOMAIN entries) <= SlotBytes

ReadsTypeOK ==
  /\ overlapped \in BOOLEAN /\ DOMAIN cells = Cell
  /\ staging \in {"idle", "reading", "waiting", "staged", "raised", "closed"}
  /\ handles \subseteq {e.path : e \in Slices}
  /\ \A i \in DOMAIN requests :
       /\ requests[i].state \in {"queued", "reading", "done", "failed"}
       /\ requests[i].run.at + requests[i].run.size <= SlotBytes

ReadsInit ==
  /\ overlapped \in BOOLEAN
  /\ cells = [i \in Cell |-> Junk]
  /\ staged = <<>> /\ requests = <<>> /\ late = {} /\ handles = {}
  /\ staging = "idle"
  /\ batchesLeft = MaxBatches /\ faultsLeft = MaxFaults

------------------------------------------------------------------------------
(* What the threads of the reader have still to do for this batch.         *)
Outstanding ==
  UNION {IF requests[i].state = "queued" THEN Chunks(requests[i].run) ELSE requests[i].left :
           i \in DOMAIN requests}

(* begin_upload and stage_file_slices, or its asynchronous form: a batch   *)
(* that does not fit raises before anything is read.                       *)
Stage(entries) ==
  /\ staging \in {"idle", "staged", "raised"} /\ batchesLeft > 0
  /\ batchesLeft' = batchesLeft - 1
  /\ late' = late \cup Outstanding
  /\ \/ /\ FitsIn(entries)
        /\ staged' = entries
        /\ requests' = [i \in DOMAIN RunsOf(entries) |->
             [run |-> RunsOf(entries)[i], state |-> "queued", left |-> {}, failed |-> {}]]
        /\ staging' \in IF overlapped THEN {"reading", "waiting"} ELSE {"reading"}
     \/ /\ ~FitsIn(entries)
        /\ staged' = <<>> /\ requests' = <<>> /\ staging' = "raised"
  /\ handles' = handles \cup {c.path : c \in late'}
  /\ UNCHANGED <<overlapped, cells, faultsLeft>>

Before(i) == {j \in DOMAIN requests : j < i}
InTurn(i) ==
  /\ requests[i].state = "queued"
  /\ \A j \in Before(i) : requests[j].state = "done"

(* A mapped file is copied run by run; a range beyond its end raises.      *)
ReadMapped(i) ==
  /\ staging = "reading" /\ ~overlapped /\ InTurn(i)
  /\ handles' = handles \cup {requests[i].run.path}
  /\ cells' = IF Readable(requests[i].run) THEN Filled(requests[i].run) ELSE cells
  /\ requests' = [requests EXCEPT ![i].state = IF Readable(requests[i].run) THEN "done" ELSE "failed"]
  /\ UNCHANGED <<overlapped, staged, late, staging, batchesLeft, faultsLeft>>

(* read_at gives all chunks to the I/O threads: one run after the other,   *)
(* or as many at a time as there are request threads.                      *)
StartRead(i) ==
  /\ overlapped
  /\ \/ staging = "reading" /\ InTurn(i)
     \/ /\ staging # "reading" /\ requests[i].state = "queued"
        /\ \A j \in Before(i) : requests[j].state # "queued"
        /\ Cardinality({j \in DOMAIN requests : requests[j].state = "reading"}) < RequestWorkers
  /\ handles' = handles \cup {requests[i].run.path}
  /\ requests' = [requests EXCEPT ![i].state = "reading", ![i].left = Chunks(requests[i].run)]
  /\ UNCHANGED <<overlapped, cells, staged, late, staging, batchesLeft, faultsLeft>>

ReadChunk(i) ==
  \E c \in requests[i].left :
    /\ Readable(c)
    /\ cells' = Filled(c)
    /\ requests' = [requests EXCEPT ![i].left = @ \ {c}]
    /\ UNCHANGED <<overlapped, staged, late, staging, handles, batchesLeft, faultsLeft>>

(* A chunk beyond the end is a short read.                                 *)
ChunkFails(i) ==
  \E c \in requests[i].left :
    /\ \/ ~Readable(c) /\ UNCHANGED faultsLeft
       \/ Readable(c) /\ faultsLeft > 0 /\ faultsLeft' = faultsLeft - 1
    /\ requests' = [requests EXCEPT ![i].left = @ \ {c}, ![i].failed = @ \cup {c}]
    /\ UNCHANGED <<overlapped, cells, staged, late, staging, handles, batchesLeft>>

(* The chunks' futures are asked in order: the first that failed ends the  *)
(* request, whatever the chunks after it do.                               *)
EndRead(i) ==
  /\ requests[i].state = "reading"
  /\ \/ /\ requests[i].left = {} /\ requests[i].failed = {}
        /\ requests' = [requests EXCEPT ![i].state = "done"]
     \/ /\ \E c \in requests[i].failed : \A b \in requests[i].left : b.at > c.at
        /\ requests' = [requests EXCEPT ![i].state = "failed"]
  /\ UNCHANGED <<overlapped, cells, staged, late, staging, handles, batchesLeft, faultsLeft>>

LateChunk ==
  \E c \in late :
    /\ late' = late \ {c}
    /\ cells' = IF Readable(c) THEN [i \in Cell |-> IF Covers(c, i) THEN Late ELSE cells[i]]
                               ELSE cells
    /\ UNCHANGED <<overlapped, staged, requests, staging, handles, batchesLeft, faultsLeft>>

(* The call returns, or the caller has waited for the requests; the first  *)
(* that failed raises, and one call after the other goes no further.       *)
StagingDone ==
  /\ staging \in {"reading", "waiting"}
  /\ \/ /\ \A i \in DOMAIN requests : requests[i].state = "done"
        /\ staging' = "staged" /\ UNCHANGED requests
     \/ \E i \in DOMAIN requests :
          /\ requests[i].state = "failed" /\ \A j \in Before(i) : requests[j].state = "done"
          /\ staging' = "raised"
          /\ requests' = IF staging = "waiting" THEN requests
                           ELSE [j \in Before(i) \cup {i} |-> requests[j]]
  /\ UNCHANGED <<overlapped, cells, staged, late, handles, batchesLeft, faultsLeft>>

(* PinnedStagingPool.close waits for the requests, then for their chunks,  *)
(* then closes the handles.  As a mutant, it does not wait for the chunks. *)
RequestsEnd == \A i \in DOMAIN requests : requests[i].state \in {"done", "failed"}
ReadsEnd    == RequestsEnd /\ late = {} /\ Outstanding = {}

ClosePool ==
  /\ staging \in {"idle", "waiting", "staged", "raised"} /\ ReadsEnd
  /\ staging' = "closed" /\ handles' = {}
  /\ UNCHANGED <<overlapped, cells, staged, requests, late, batchesLeft, faultsLeft>>

ReadsNext ==
  \/ \E entries \in BoundedSeq(Slices, MaxEntries) : Stage(entries)
  \/ \E i \in DOMAIN requests :
       ReadMapped(i) \/ StartRead(i) \/ ReadChunk(i) \/ ChunkFails(i) \/ EndRead(i)
  \/ LateChunk \/ StagingDone \/ ClosePool

ReadsSpec == ReadsInit /\ [][ReadsNext]_readVars

------------------------------------------------------------------------------
(* Properties *)

(* Every tensor of a staged group has its own bytes, however the ranges     *)
(* were joined and the chunks interleaved; only a chunk of an earlier read *)
(* that failed may have written over them since.                           *)
StagedMatches ==
  staging = "staged" =>
    \A k \in DOMAIN staged : \A i \in 0 .. staged[k].size - 1 :
      cells[Start(staged, k) + i] \in {<<staged[k].path, staged[k].offset + i>>, Late}

(* No thread reads through a handle that was closed.                       *)
HandlesOutliveReads ==
  \A c \in late \cup UNION {requests[i].left : i \in DOMAIN requests} : c.path \in handles

==============================================================================
