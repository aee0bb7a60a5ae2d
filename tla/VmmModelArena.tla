---------------------------- MODULE VmmModelArena ----------------------------
(***************************************************************************)
(* The model arena of the vmm_runtime route: leases on groups of weights,  *)
(* taken under the arena lock by the thread that wants a group on the GPU. *)
(* The operations are building blocks; VmmExecutionGroups says which       *)
(* thread calls which when.                                                *)
(*                                                                         *)
(* The native allocator behind the arena is not in the repository.  It is  *)
(* modelled from how the arena and its tests use it: it backs at most      *)
(* Budget groups, never takes the backing of a leased group or of one      *)
(* whose release event or upload is outstanding, raises when nothing can   *)
(* be taken, and uploads a group that is not loaded once, through the      *)
(* staging ring when the weights come from checkpoint files.               *)
(***************************************************************************)
EXTENDS StagingRing, FiniteSets, Sequences

CONSTANTS
  GroupCount,    \* number of execution groups
  Budget,        \* groups that fit in the resident weight budget
  Threads,       \* threads that schedule groups
  Nobody,        \* holder of the arena lock when it is free
  ReadsFail,     \* whether reading a checkpoint range may fail
  MaxLaunches    \* bound: operations outstanding on the compute stream

ASSUME ArenaAssumption ==
  /\ GroupCount \in Nat \ {0} /\ Budget \in Nat \ {0} /\ MaxLaunches \in Nat \ {0}
  /\ Nobody \notin Threads
  /\ ReadsFail \in BOOLEAN

VARIABLES
  transport,     \* "file": from checkpoint ranges; "direct": from host memory
  arenaLock,     \* holder of VmmModelArena._lock
  leases,        \* active_leases of each group
  resident,      \* groups with physical backing
  loaded,        \* groups whose payload the allocator holds to be uploaded
  fill,          \* ticket of the last copy into each group
  released,      \* ticket, on the compute stream, of each group's release event
  compute,       \* operations outstanding on the compute stream
  at,            \* where each thread stands in scheduling a group
  goal,          \* the group each thread schedules
  retried,       \* whether the thread's acquire is on its second attempt
  stamp          \* ticket of the upload event each thread holds

lockVars   == <<arenaLock, leases, retried>>
backVars   == <<transport, resident, loaded>>
streamVars == <<fill, released, compute>>
arenaVars  == <<lockVars, backVars, streamVars, at, goal, stamp>>

Group == 0 .. GroupCount - 1

Label == {"out", "check", "acquire", "retry", "begin", "stage", "copy",
          "nativeMark", "record", "mark", "publish", "ok", "err"}

(* The compute stream waits for an upload event, or runs a group's kernels. *)
Operation == [kind : {"wait", "run"}, group : Group, ticket : Ticket]

ArenaTypeOK ==
  /\ transport \in {"file", "direct"}
  /\ arenaLock \in Threads \cup {Nobody}
  /\ leases    \in [Group -> Nat]
  /\ resident  \subseteq Group
  /\ loaded    \subseteq resident
  /\ fill      \in [Group -> Ticket]
  /\ released  \in [Group -> 0 .. MaxLaunches]
  /\ compute   \in Seq(Operation)
  /\ Len(compute) <= MaxLaunches
  /\ at        \in [Threads -> Label]
  /\ goal      \in [Threads -> Group]
  /\ retried   \in [Threads -> BOOLEAN]
  /\ stamp     \in [Threads -> Ticket]

ArenaInit ==
  /\ transport \in {"file", "direct"}
  /\ arenaLock = Nobody
  /\ leases    = [g \in Group |-> 0]
  /\ resident  = {} /\ loaded = {}
  /\ fill      = [g \in Group |-> 0]
  /\ released  = [g \in Group |-> 0]
  /\ compute   = <<>>
  /\ at        = [t \in Threads |-> "out"]
  /\ goal      = [t \in Threads |-> 0]
  /\ retried   = [t \in Threads |-> FALSE]
  /\ stamp     = [t \in Threads |-> 0]

------------------------------------------------------------------------------
(* acquire *)

GoTo(t, label) == at' = [at EXCEPT ![t] = label]

(* The native prefetch succeeded: the lease counts, the lock is released.  *)
Grant(t) ==
  /\ leases'    = [leases EXCEPT ![goal[t]] = @ + 1]
  /\ arenaLock' = Nobody
  /\ retried'   = [retried EXCEPT ![t] = FALSE]
  /\ GoTo(t, "record")

(* It raised: the lock is kept for one more attempt, then released; as a   *)
(* mutant, kept.                                                           *)
LockKept(t)    == t
LockRefused(t) == IF retried[t] THEN Nobody ELSE t

Refuse(t) ==
  /\ GoTo(t, IF retried[t] THEN "err" ELSE "retry")
  /\ arenaLock' = LockRefused(t)
  /\ retried'   = [retried EXCEPT ![t] = ~@]
  /\ UNCHANGED <<leases, backVars, streamVars, goal, stamp, ringVars>>

(* Groups whose backing can be taken; as a mutant, without regard to the   *)
(* kernels that may still read it.                                         *)
Unleased  == {g \in resident : leases[g] = 0 /\ fill[g] = 0}
Evictable == {g \in resident : leases[g] = 0 /\ fill[g] = 0 /\ released[g] = 0}

(* The backings that may result from making room for group g.              *)
Placements(g) ==
  IF g \in resident THEN {resident}
  ELSE IF Cardinality(resident) < Budget THEN {resident \cup {g}}
  ELSE {(resident \ {v}) \cup {g} : v \in Evictable}

(* The second attempt begins when all outstanding events are collected; as *)
(* a mutant, at once.                                                      *)
NotCollected == TRUE
Collected    == \A g \in Group : released[g] = 0 /\ fill[g] = 0

Attempting(t) ==
  \/ at[t] = "acquire" /\ arenaLock = Nobody
  \/ at[t] = "retry" /\ Collected

PrefetchLoaded(t) ==
  /\ Attempting(t)
  /\ goal[t] \in loaded
  /\ Grant(t)
  /\ UNCHANGED <<backVars, streamVars, goal, stamp, ringVars>>

PrefetchPlace(t) ==
  /\ Attempting(t)
  /\ goal[t] \notin loaded
  /\ resident'  \in Placements(goal[t])
  /\ loaded'    = loaded \cap resident'
  /\ arenaLock' = t
  /\ GoTo(t, IF transport = "file" THEN "begin" ELSE "copy")
  /\ UNCHANGED <<transport, leases, retried, streamVars, goal, stamp, ringVars>>

PrefetchNoRoom(t) ==
  /\ Attempting(t)
  /\ goal[t] \notin loaded
  /\ Placements(goal[t]) = {}
  /\ Refuse(t)

Begin(t) ==
  /\ at[t] = "begin"
  /\ BeginUpload
  /\ GoTo(t, "stage")
  /\ UNCHANGED <<lockVars, backVars, streamVars, goal, stamp>>

(* stage_file_slices writes checkpoint ranges into the active slot; it     *)
(* raises without one, and when a read fails.                              *)
Stage(t) ==
  /\ at[t] = "stage"
  /\ \/ /\ HasActiveUpload
        /\ GoTo(t, "copy")
        /\ UNCHANGED <<lockVars, backVars, streamVars, goal, stamp, ringVars>>
     \/ /\ ~HasActiveUpload \/ ReadsFail
        /\ Refuse(t)

(* The copy joins the upload stream and an event is recorded behind it.    *)
Copy(t) ==
  /\ at[t] = "copy"
  /\ fill' = [fill EXCEPT ![goal[t]] = uploads + 1]
  /\ \/ /\ transport = "file"
        /\ EnqueueCopy(TakenSlot)
        /\ stamp' = [stamp EXCEPT ![t] = uploads + 1]
        /\ GoTo(t, "nativeMark")
        /\ UNCHANGED <<loaded, lockVars>>
     \/ /\ transport = "direct"
        /\ EnqueueCopy(NoSlot)
        /\ loaded' = loaded \cup {goal[t]}
        /\ Grant(t)
        /\ UNCHANGED stamp
  /\ UNCHANGED <<transport, resident, released, compute, goal>>

NativeMark(t) ==
  /\ at[t] = "nativeMark"
  /\ \/ /\ MarkUpload(stamp[t])
        /\ loaded' = loaded \cup {goal[t]}
        /\ Grant(t)
        /\ UNCHANGED <<transport, resident, streamVars, goal, stamp>>
     \/ /\ ~HasActiveUpload
        /\ Refuse(t)

ArenaAcquire(t) ==
  \/ PrefetchLoaded(t) \/ PrefetchPlace(t) \/ PrefetchNoRoom(t)
  \/ Begin(t) \/ Stage(t) \/ Copy(t) \/ NativeMark(t)

------------------------------------------------------------------------------
(* release: the last lease of a group leaves an event behind what is on    *)
(* the compute stream now.                                                 *)
ReleaseGroup(g) ==
  /\ arenaLock = Nobody
  /\ leases[g] > 0
  /\ leases'   = [leases EXCEPT ![g] = @ - 1]
  /\ released' = IF leases[g] = 1
                   THEN [released EXCEPT ![g] = Len(compute)] ELSE released
  /\ UNCHANGED <<arenaLock, retried, backVars, fill, compute, at, goal, stamp, ringVars>>

(* close refuses while a group is leased, then collects and unmaps.        *)
CloseArena ==
  /\ arenaLock = Nobody
  /\ \A g \in Group : leases[g] = 0
  /\ Collected
  /\ resident' = {} /\ loaded' = {}
  /\ UNCHANGED <<transport, lockVars, streamVars, at, goal, stamp, ringVars>>

------------------------------------------------------------------------------
(* The streams *)

Launch(op) ==
  /\ Len(compute) < MaxLaunches
  /\ compute' = Append(compute, op)
  /\ UNCHANGED <<lockVars, backVars, fill, released, at, goal, stamp, ringVars>>

(* A wait at the head of the compute stream completes once the upload      *)
(* event has.                                                              *)
FinishCompute ==
  /\ compute # <<>>
  /\ Head(compute).ticket = 0
  /\ compute'  = Tail(compute)
  /\ released' = [g \in Group |-> Closer(released[g])]
  /\ UNCHANGED <<lockVars, backVars, fill, at, goal, stamp, ringVars>>

FinishArenaUpload ==
  /\ FinishUpload
  /\ fill'    = [g \in Group |-> Closer(fill[g])]
  /\ stamp'   = [t \in Threads |-> Closer(stamp[t])]
  /\ compute' = [i \in DOMAIN compute |-> [compute[i] EXCEPT !.ticket = Closer(@)]]
  /\ UNCHANGED <<lockVars, backVars, released, at, goal>>

==============================================================================
