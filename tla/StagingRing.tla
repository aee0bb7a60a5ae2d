----------------------------- MODULE StagingRing -----------------------------
(***************************************************************************)
(* The pinned host buffers through which weights travel to the GPU, and    *)
(* the CUDA stream that drains them: the ring state of PinnedStagingPool   *)
(* and its operations, as building blocks for the specifications that use  *)
(* the pool.                                                               *)
(*                                                                         *)
(* A stream is a queue.  An event recorded on it is modelled by the number *)
(* of operations that still stand before it: the "ticket" of the event.    *)
(* Each completed operation takes one off every ticket; 0 means complete,  *)
(* and stands for None too: neither makes anybody wait.                    *)
(***************************************************************************)
EXTENDS Integers

CONSTANTS
  Slots,       \* PinnedStagingPool.slots: buffers in the ring
  MaxUploads   \* bound: uploads outstanding on the upload stream

ASSUME RingAssumption == Slots \in Nat \ {0} /\ MaxUploads \in Nat \ {0}

VARIABLES
  nextSlot,    \* _next_slot
  activeSlot,  \* _active_slot, NoSlot for None
  readyEvent,  \* _ready_events: ticket of the event kept for each slot
  slotDma,     \* ticket of the last copy that reads each slot
  uploads      \* operations outstanding on the upload stream

ringVars == <<nextSlot, activeSlot, readyEvent, slotDma, uploads>>

Slot   == 0 .. Slots - 1
NoSlot == -1
Ticket == 0 .. MaxUploads

RingTypeOK ==
  /\ nextSlot   \in Slot
  /\ activeSlot \in Slot \cup {NoSlot}
  /\ readyEvent \in [Slot -> Ticket]
  /\ slotDma    \in [Slot -> Ticket]
  /\ uploads    \in Ticket

RingInit ==
  /\ nextSlot   = 0
  /\ activeSlot = NoSlot
  /\ readyEvent = [s \in Slot |-> 0]
  /\ slotDma    = [s \in Slot |-> 0]
  /\ uploads    = 0

HasActiveUpload == activeSlot # NoSlot

(* The slot after slot s; as a mutant, without the way round.              *)
SlotBeyond(s) == s + 1
SlotAfter(s)  == (s + 1) % Slots

(* begin_upload waits for the event of the slot it takes, whether or not   *)
(* an upload is active already; as a mutant, it does not wait.             *)
NeverBusy == TRUE
SlotFree  == readyEvent[nextSlot] = 0

BeginUpload ==
  /\ SlotFree
  /\ activeSlot' = nextSlot
  /\ nextSlot'   = SlotAfter(nextSlot)
  /\ UNCHANGED <<readyEvent, slotDma, uploads>>

(* The slot that the latest begin_upload took.                             *)
TakenSlot == (nextSlot + Slots - 1) % Slots

(* A copy from slot s, or from other memory when s = NoSlot, joins the     *)
(* upload stream; its ticket counts the copy itself.                       *)
EnqueueCopy(s) ==
  /\ uploads < MaxUploads
  /\ uploads' = uploads + 1
  /\ slotDma' = [r \in Slot |-> IF r = s THEN uploads + 1 ELSE slotDma[r]]
  /\ UNCHANGED <<nextSlot, activeSlot, readyEvent>>

(* mark_upload hands the active slot to its event.                         *)
MarkUpload(event) ==
  /\ HasActiveUpload
  /\ readyEvent' = [readyEvent EXCEPT ![activeSlot] = event]
  /\ activeSlot' = NoSlot
  /\ UNCHANGED <<nextSlot, slotDma, uploads>>

(* One operation of a stream completes: every ticket comes one closer.     *)
Closer(ticket) == IF ticket = 0 THEN 0 ELSE ticket - 1

FinishUpload ==
  /\ uploads > 0
  /\ uploads'    = uploads - 1
  /\ readyEvent' = [s \in Slot |-> Closer(readyEvent[s])]
  /\ slotDma'    = [s \in Slot |-> Closer(slotDma[s])]
  /\ UNCHANGED <<nextSlot, activeSlot>>

==============================================================================
