---------------------------- MODULE VmmWeightStore ----------------------------
(***************************************************************************)
(* The public cache of single weights: slots with stable virtual addresses *)
(* and physical backing within a budget, leased by any number of callers.  *)
(*                                                                         *)
(* Every method runs under the store's lock, so what it does between two   *)
(* waits is one step; a caller in "room", "evict" or "close" holds the     *)
(* lock.  A caller with a lease launches kernels on its own stream.        *)
(*                                                                         *)
(* An event is recorded on a stream; "left" counts the operations of that  *)
(* stream that still stand before it, and 0 stands for None too.           *)
(***************************************************************************)
EXTENDS Integers, SequencesExt

CONSTANTS
  Key,            \* names of weights
  Size,           \* backing of each weight, in granules
  Budget,         \* max_resident_bytes in granules, 0 for no limit
  Caller,         \* threads that use the store
  Stream,         \* CUDA streams
  StreamOf,       \* the current stream of each caller
  Nothing,        \* no key
  MaxQueue,       \* bound: operations outstanding on a stream
  MaxFailures     \* bound: driver calls that fail

ASSUME StoreAssumption ==
  /\ \A k \in Key : Size[k] \in Nat \ {0}
  /\ Budget \in Nat
  /\ Stream # {}
  /\ \A c \in Caller : StreamOf[c] \in Stream
  /\ Nothing \notin Key
  /\ MaxQueue \in Nat \ {0} /\ MaxFailures \in Nat

VARIABLES
  slots,          \* keys of _slots, in the order they were reserved
  addressed,      \* address ranges reserved at the driver
  handle,         \* slots with a handle: is_mapped
  viewed,         \* slots with a storage tensor
  backed,         \* address ranges the driver has memory mapped at
  complete,       \* backings that the copy of the weight has reached
  resident,       \* stats.resident_bytes
  leases,         \* active_leases of each slot
  used,           \* keys by last_used, the latest last
  event,          \* last_event of each slot
  queue,          \* operations outstanding on each stream
  at,             \* where each caller stands
  wants,          \* the key each caller is about
  visited,        \* slots that close has gone through
  failures        \* driver calls that failed so far

backVars  == <<handle, viewed, backed, complete, resident>>
slotVars  == <<slots, addressed, visited>>
leaseVars == <<leases, used>>
vars == <<slotVars, backVars, leaseVars, event, queue, at, wants, failures>>

Event     == [stream : Stream, left : 0 .. MaxQueue]
Operation == [kind : {"copy", "read", "wait"}, key : Key, stream : Stream, left : 0 .. MaxQueue]

TypeOK ==
  /\ slots \in Seq(Key) /\ used \in Seq(Key) /\ IsInjective(used)
  /\ visited \in 0 .. Len(slots)
  /\ addressed \subseteq Key /\ handle \subseteq Key /\ viewed \subseteq handle
  /\ backed \subseteq Key /\ complete \subseteq backed
  /\ resident \in Nat
  /\ leases \in [Key -> Nat]
  /\ event \in [Key -> Event]
  /\ queue \in [Stream -> Seq(Operation)]
  /\ \A s \in Stream : Len(queue[s]) <= MaxQueue
  /\ at \in [Caller -> {"idle", "reserved", "room", "leased", "evict", "close"}]
  /\ wants \in [Caller -> Key \cup {Nothing}]
  /\ failures \in 0 .. MaxFailures

Init ==
  /\ slots = <<>> /\ used = <<>> /\ visited = 0
  /\ addressed = {} /\ handle = {} /\ viewed = {} /\ backed = {} /\ complete = {}
  /\ resident = 0
  /\ leases = [k \in Key |-> 0]
  /\ event \in [Key -> [stream : {CHOOSE s \in Stream : TRUE}, left : {0}]]
  /\ queue = [s \in Stream |-> <<>>]
  /\ at = [c \in Caller |-> "idle"]
  /\ wants = [c \in Caller |-> Nothing]
  /\ failures = 0

------------------------------------------------------------------------------
Holding  == {"room", "evict", "close"}
LockFree == \A c \in Caller : at[c] \notin Holding

Begin(c, label, k) ==
  /\ at'    = [at EXCEPT ![c] = label]
  /\ wants' = [wants EXCEPT ![c] = k]

(* A caller that is through forgets its key.                               *)
GoTo(c, label) ==
  /\ at'    = [at EXCEPT ![c] = label]
  /\ wants' = [wants EXCEPT ![c] = IF label = "idle" THEN Nothing ELSE @]

(* An exception leaves the method; as a mutant, the method tries again.    *)
TryAgain(c)    == GoTo(c, at[c])
Raise(c)       == GoTo(c, "idle")
DriverError    == failures < MaxFailures /\ failures' = failures + 1

Enqueue(s, op) ==
  /\ Len(queue[s]) < MaxQueue
  /\ queue' = [queue EXCEPT ![s] = Append(@, op)]

(* As a mutant, the earlier use of the slot is remembered too.             *)
TouchAgain(k) == used' = Append(used, k)
Touch(k) ==
  \/ ~Contains(used, k) /\ used' = Append(used, k)
  \/ \E i \in DOMAIN used : used[i] = k /\ used' = Append(RemoveAt(used, i), k)

(* acquire first reserves an address range for a new key, in a lock of its *)
(* own.                                                                    *)
Reserve(c, k) ==
  /\ at[c] = "idle" /\ LockFree
  /\ \/ /\ Contains(slots, k)
        /\ Begin(c, "reserved", k)
        /\ UNCHANGED <<slots, addressed, failures>>
     \/ /\ ~Contains(slots, k)
        /\ slots' = Append(slots, k) /\ addressed' = addressed \cup {k}
        /\ Begin(c, "reserved", k)
        /\ UNCHANGED failures
     \/ /\ ~Contains(slots, k) /\ DriverError
        /\ UNCHANGED <<slots, addressed, at, wants>>
  /\ UNCHANGED <<visited, backVars, leaseVars, event, queue>>

Lease(c, k) ==
  /\ leases' = [leases EXCEPT ![k] = @ + 1]
  /\ Touch(k)
  /\ GoTo(c, "leased")

(* With the lock again, the stream waits for the event of the slot's last  *)
(* release; a mapped slot is leased as it is.                              *)
Acquire(c) ==
  LET k == wants[c] s == StreamOf[c] IN
  /\ at[c] = "reserved" /\ LockFree
  /\ IF Contains(slots, k) /\ event[k].left > 0
       THEN Enqueue(s, [kind |-> "wait", key |-> k, stream |-> event[k].stream, left |-> event[k].left])
       ELSE UNCHANGED queue
  /\ \/ Contains(slots, k) /\ k \in viewed /\ Lease(c, k)
     \/ Contains(slots, k) /\ k \notin handle /\ GoTo(c, "room") /\ UNCHANGED leaseVars
     \/ ~Contains(slots, k) /\ Raise(c) /\ UNCHANGED leaseVars
     \/ k \in handle \ viewed /\ Raise(c) /\ UNCHANGED leaseVars
  /\ UNCHANGED <<slotVars, backVars, event, failures>>

(* _unmap, once the host has waited for the event of the last release (as  *)
(* a mutant, at once).  It drops the tensor, unmaps, and releases the      *)
(* handle; a driver call that fails leaves the rest as it was.             *)
NotAwaited(k) == TRUE
Quiet(k)      == event[k].left = 0

Unmap(c, k, then) ==
  /\ Quiet(k)
  /\ viewed' = viewed \ {k}
  /\ \/ /\ k \in backed
        /\ backed' = backed \ {k} /\ complete' = complete \ {k}
        /\ \/ /\ handle' = handle \ {k} /\ resident' = resident - Size[k]
              /\ event' = [event EXCEPT ![k].left = 0]
              /\ GoTo(c, then)
              /\ UNCHANGED failures
           \/ /\ DriverError /\ Raise(c)
              /\ UNCHANGED <<handle, resident, event>>
     \/ /\ DriverError \/ (k \notin backed /\ UNCHANGED failures)
        /\ Raise(c)
        /\ UNCHANGED <<handle, backed, complete, resident, event>>
  /\ UNCHANGED <<slotVars, leaseVars, queue>>

(* _ensure_capacity: while the weight does not fit, the least recently     *)
(* used of the mapped slots without a lease is evicted.  As mutants, the   *)
(* weight itself is forgotten, or the leases.                              *)
RoomNow(k)    == Budget = 0 \/ resident <= Budget
Fits(k)       == Budget = 0 \/ resident + Size[k] <= Budget
AnyMapped(k)  == k \in handle
Candidate(k)  == k \in handle /\ leases[k] = 0
Candidates    == {i \in DOMAIN used : Candidate(used[i])}

MakeRoom(c) ==
  /\ at[c] = "room" /\ ~Fits(wants[c])
  /\ \/ \E i \in Candidates : (\A j \in Candidates : i <= j) /\ Unmap(c, used[i], "room")
     \/ Candidates = {} /\ Raise(c)
        /\ UNCHANGED <<slotVars, backVars, leaseVars, event, queue, failures>>

(* _map, and the copy of the weight on the caller's stream.  The driver    *)
(* maps nothing at an address that is not reserved or mapped already, and  *)
(* may fail to map or, with the memory mapped, to set the access rights.   *)
MapAndCopy(c) ==
  LET k == wants[c] s == StreamOf[c] IN
  /\ at[c] = "room" /\ Fits(k)
  /\ k \in addressed \ backed
  /\ handle' = handle \cup {k} /\ viewed' = viewed \cup {k} /\ backed' = backed \cup {k}
  /\ resident' = resident + Size[k]
  /\ Enqueue(s, [kind |-> "copy", key |-> k, stream |-> s, left |-> 0])
  /\ Lease(c, k)
  /\ UNCHANGED <<slotVars, complete, event, failures>>

MapFails(c) ==
  LET k == wants[c] IN
  /\ at[c] = "room" /\ Fits(k)
  /\ \/ DriverError /\ backed' \in {backed, backed \cup ({k} \cap addressed)}
     \/ k \notin addressed \ backed /\ UNCHANGED <<backed, failures>>
  /\ Raise(c)
  /\ UNCHANGED <<slotVars, handle, viewed, complete, resident, leaseVars, event, queue>>

(* The caller's kernels; one place in the queue is kept for copies.        *)
Launch(c) ==
  /\ at[c] = "leased"
  /\ Len(queue[StreamOf[c]]) < MaxQueue - 1
  /\ Enqueue(StreamOf[c], [kind |-> "read", key |-> wants[c], stream |-> StreamOf[c], left |-> 0])
  /\ UNCHANGED <<slotVars, backVars, leaseVars, event, at, wants, failures>>

(* The last release records an event on the caller's stream.               *)
Release(c) ==
  LET k == wants[c] s == StreamOf[c] IN
  /\ at[c] = "leased" /\ LockFree
  /\ leases' = [leases EXCEPT ![k] = @ - 1]
  /\ Touch(k)
  /\ event' = IF leases[k] = 1
                THEN [event EXCEPT ![k] = [stream |-> s, left |-> Len(queue[s])]] ELSE event
  /\ GoTo(c, "idle")
  /\ UNCHANGED <<slotVars, backVars, queue, failures>>

(* evict declines a slot that is not mapped or is leased.                  *)
BeginEvict(c, k) ==
  /\ at[c] = "idle" /\ LockFree
  /\ k \in handle /\ leases[k] = 0
  /\ Begin(c, "evict", k)
  /\ UNCHANGED <<slotVars, backVars, leaseVars, event, queue, failures>>

Evict(c) == at[c] = "evict" /\ Unmap(c, wants[c], "idle")

(* close unmaps slot after slot and frees its addresses, until it meets a  *)
(* slot that is leased or the driver fails; only at the end are the slots  *)
(* forgotten.                                                              *)
BeginClose(c) ==
  /\ at[c] = "idle" /\ LockFree
  /\ GoTo(c, "close") /\ visited' = 0
  /\ UNCHANGED <<slots, addressed, backVars, leaseVars, event, queue, failures>>

CloseSlot(c) ==
  LET k == slots[visited + 1] IN
  /\ at[c] = "close" /\ visited < Len(slots)
  /\ \/ k \in handle /\ leases[k] = 0 /\ Unmap(c, k, "close")
     \/ /\ k \in handle /\ leases[k] > 0 /\ Raise(c)
        /\ UNCHANGED <<slotVars, backVars, leaseVars, event, queue, failures>>
     \/ /\ k \notin handle
        /\ \/ /\ k \in addressed \ backed
              /\ addressed' = addressed \ {k} /\ visited' = visited + 1
              /\ UNCHANGED <<at, wants, failures>>
           \/ /\ DriverError \/ (k \notin addressed \ backed /\ UNCHANGED failures)
              /\ Raise(c)
              /\ UNCHANGED <<addressed, visited>>
        /\ UNCHANGED <<slots, backVars, leaseVars, event, queue>>

CloseDone(c) ==
  /\ at[c] = "close" /\ visited = Len(slots)
  /\ slots' = <<>> /\ visited' = 0 /\ used' = <<>>
  /\ GoTo(c, "idle")
  /\ UNCHANGED <<addressed, backVars, leases, event, queue, failures>>

(* The oldest operation of a stream completes; the events of the stream    *)
(* come nearer.                                                            *)
Nearer(e, s) == [e EXCEPT !.left = IF e.stream = s /\ @ > 0 THEN @ - 1 ELSE @]

Finish(s) ==
  LET op == Head(queue[s])
      Rest(q) == IF q = s THEN Tail(queue[q]) ELSE queue[q]
  IN
  /\ queue[s] # <<>>
  /\ op.kind = "wait" => op.left = 0
  /\ queue' = [q \in Stream |-> [i \in DOMAIN Rest(q) |-> Nearer(Rest(q)[i], s)]]
  /\ event' = [k \in Key |-> Nearer(event[k], s)]
  /\ complete' = IF op.kind = "copy" THEN complete \cup ({op.key} \cap backed) ELSE complete
  /\ UNCHANGED <<slotVars, handle, viewed, backed, resident, leaseVars, at, wants, failures>>

Inside(c) == MakeRoom(c) \/ MapAndCopy(c) \/ MapFails(c) \/ Evict(c) \/ CloseSlot(c) \/ CloseDone(c)

Next ==
  \/ \E c \in Caller :
       \/ \E k \in Key : Reserve(c, k) \/ BeginEvict(c, k)
       \/ Acquire(c) \/ Launch(c) \/ Release(c) \/ BeginClose(c) \/ Inside(c)
  \/ \E s \in Stream : Finish(s)

(* Who holds the lock runs on, and so do the streams; nobody has to call   *)
(* the store or to give a lease back.                                      *)
Fairness ==
  /\ \A c \in Caller : WF_vars(Inside(c))
  /\ \A s \in Stream : WF_vars(Finish(s))

Spec == Init /\ [][Next]_vars /\ Fairness
------------------------------------------------------------------------------
(* Properties *)

(* A lease is a CUDA-ordered view: when a stream reaches a kernel that     *)
(* reads a weight, the weight's memory is mapped and its copy has landed.  *)
ReadsSeeWeights ==
  \A s \in Stream : queue[s] # <<>> /\ Head(queue[s]).kind = "read" =>
    Head(queue[s]).key \in complete

Granules(K) == UNION {{k} \X (1 .. Size[k]) : k \in K}

(* The accounted bytes are those of the slots with a handle, and within    *)
(* the budget, whatever driver calls fail half way through a change.       *)
ResidentAccounted ==
  /\ resident = Cardinality(Granules(handle))
  /\ Budget > 0 => resident <= Budget

(* A leased weight keeps its backing and its view, for as many callers as  *)
(* hold a lease on it.                                                     *)
LeasedStaysViewable ==
  \A k \in Key :
    /\ leases[k] = Cardinality({c \in Caller : at[c] = "leased" /\ wants[c] = k})
    /\ leases[k] > 0 => k \in viewed \cap backed

(* Every slot of the store has its address range: addresses are stable     *)
(* until the store is closed.                                              *)
AddressesStable ==
  LockFree => \A i \in DOMAIN slots : slots[i] \in addressed

(* The store seen as leasing: weights in place are complete, and a weight  *)
(* with reads on a stream is one whose kernels have not finished.          *)
Residency == INSTANCE WeightResidency WITH
  Groups  <- Key,
  inPlace <- complete,
  held    <- {k \in Key : leases[k] > 0},
  started <- {k \in Key : \E s \in Stream : \E i \in DOMAIN queue[s] :
                queue[s][i].kind = "read" /\ queue[s][i].key = k}

(* The store keeps what leasing promises: kernels start under a lease and  *)
(* find their weights, and weights in use stay.                            *)
ImplementsResidency == Residency!Spec

(* Nobody holds the store's lock for ever: evictions wait for events, not  *)
(* for callers.                                                            *)
LockComesBack == \A c \in Caller : (at[c] \in Holding) ~> (at[c] \notin Holding)

==============================================================================
