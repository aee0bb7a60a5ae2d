---------------------------- MODULE VmmKernels_proofs ----------------------------
(***************************************************************************)
(* For any number of groups, slots and outstanding operations, any budget, *)
(* any number of aborted forwards and skipped groups: every variable keeps *)
(* its type, kernels see loaded weights, and the runtime implements the    *)
(* leasing of WeightResidency.                                             *)
(*                                                                         *)
(* The types alone are not inductive: a thread that uploads a group holds  *)
(* the arena lock, and that a loaded group has its backing depends on it   *)
(* (Locking); the main thread holds the lease of the group it is inside of, *)
(* and that kernels are launched for a group of the model depends on where *)
(* it is (Position).                                                       *)
(*                                                                         *)
(* The kernels: a group that somebody has a claim on is leased (Covered),  *)
(* so its backing stays, and it stays loaded (ClaimsLoaded); the event     *)
(* that goes with a claim stands behind every copy into the group          *)
(* (Stamped, PendingEvents); the compute stream waits for that event       *)
(* before any kernel of the group (ActiveWaited); and until a kernel is    *)
(* through, the lease or the release event keeps the backing               *)
(* (RunsProtected).                                                        *)
(*                                                                         *)
(* The refinement needs no more: a started kernel is one that stands in    *)
(* the compute queue, and RunsProtected says why its group may not leave.  *)
(***************************************************************************)
EXTENDS VmmExecutionGroups, TLAPS, SequenceTheorems

(* The arena lock is held where the procedure says so, and a group that is *)
(* being uploaded has its backing and is not offered to anybody yet.       *)
Placing == {"begin", "stage", "copy", "nativeMark"}

Locking ==
  \A t \in Threads :
    /\ at[t] \in Placing \cup {"retry"} => arenaLock = t
    /\ at[t] \in Placing => goal[t] \in resident \ loaded

(* Inside of a group the main thread holds its lease.                      *)
Position ==
  /\ pc \in {"submit", "ahead", "inside", "leave"} => cur \in active
  /\ pc = "release" => cur \in Group \ active

Basics == TypeOK /\ Locking /\ Position

------------------------------------------------------------------------------
(* Types *)

(* What the ranges of the state contain.                                   *)
LEMMA Ranges ==
  /\ 0 \in Ticket /\ 0 \in Slot /\ 0 \in Group
  /\ \A k \in Ticket : Closer(k) \in Ticket
  /\ \A k \in Ticket : k < MaxUploads => k + 1 \in Ticket
  /\ \A s \in Slot : SlotAfter(s) \in Slot
<1>1. \A s \in Slot : s \in Int /\ (s + 1) % Slots \in 0 .. Slots - 1
  BY RingAssumption, Z3 DEF Slot
<1> QED
  BY <1>1, RingAssumption, ArenaAssumption DEF Ticket, Slot, Group, Closer, SlotAfter

(* A function on 1 .. n is a sequence of length n.                         *)
LEMMA FunctionIsSequence ==
  ASSUME NEW S, NEW n \in Nat, NEW f \in [1 .. n -> S]
  PROVE  f \in Seq(S) /\ Len(f) = n
OBVIOUS

(* The operations of the staging ring keep its types.                      *)
LEMMA RingOperations ==
  ASSUME RingTypeOK
  PROVE  /\ BeginUpload \/ FinishUpload \/ UNCHANGED ringVars => RingTypeOK'
         /\ \A s : EnqueueCopy(s) => RingTypeOK'
         /\ \A event \in Ticket : MarkUpload(event) => RingTypeOK'
<1>1. BeginUpload => RingTypeOK'
  BY Ranges DEF BeginUpload, RingTypeOK
<1>2. FinishUpload => RingTypeOK'
  <2> SUFFICES ASSUME FinishUpload PROVE RingTypeOK'
    OBVIOUS
  <2>1. uploads' \in Ticket
    BY RingAssumption DEF FinishUpload, RingTypeOK, Ticket
  <2> QED
    BY <2>1, Ranges DEF FinishUpload, RingTypeOK
<1>3. UNCHANGED ringVars => RingTypeOK'
  BY DEF ringVars, RingTypeOK
<1>4. ASSUME NEW s, EnqueueCopy(s) PROVE RingTypeOK'
  <2>1. uploads + 1 \in Ticket
    BY <1>4, Ranges DEF EnqueueCopy, RingTypeOK
  <2> QED
    BY <1>4, <2>1 DEF EnqueueCopy, RingTypeOK
<1>5. ASSUME NEW event \in Ticket, MarkUpload(event) PROVE RingTypeOK'
  BY <1>5 DEF MarkUpload, HasActiveUpload, RingTypeOK
<1> QED
  BY <1>1, <1>2, <1>3, <1>4, <1>5

(* Threads that only move between labels keep the arena's types.           *)
LEMMA ThreadsMove ==
  ASSUME ArenaTypeOK,
         at' \in [Threads -> Label], goal' \in [Threads -> Group],
         stamp' \in [Threads -> Ticket], UNCHANGED <<lockVars, backVars, streamVars>>
  PROVE  ArenaTypeOK'
BY DEF ArenaTypeOK, lockVars, backVars, streamVars

(* A granted lease keeps the arena's types.                                *)
LEMMA GrantTypes ==
  ASSUME ArenaTypeOK, NEW t \in Threads, Grant(t), UNCHANGED goal
  PROVE  /\ leases' \in [Group -> Nat] /\ arenaLock' \in Threads \cup {Nobody}
         /\ retried' \in [Threads -> BOOLEAN] /\ at' \in [Threads -> Label]
         /\ goal' \in [Threads -> Group]
<1>1. leases[goal[t]] + 1 \in Nat
  BY DEF ArenaTypeOK
<1>2. at' \in [Threads -> Label]
  BY DEF ArenaTypeOK, Grant, GoTo, Label
<1> QED
  BY <1>1, <1>2 DEF ArenaTypeOK, Grant

(* A refused attempt keeps the arena's types.                              *)
LEMMA RefuseTypes ==
  ASSUME ArenaTypeOK, NEW t \in Threads, Refuse(t)
  PROVE  ArenaTypeOK'
<1>1. at' \in [Threads -> Label]
  BY DEF ArenaTypeOK, Refuse, GoTo, Label
<1>2. arenaLock' \in Threads \cup {Nobody} /\ retried' \in [Threads -> BOOLEAN]
  BY DEF ArenaTypeOK, Refuse, LockRefused
<1> QED
  BY <1>1, <1>2 DEF ArenaTypeOK, Refuse, backVars, streamVars

(* Making room for a group gives it a backing, and the groups that lose    *)
(* theirs were evictable.                                                  *)
LEMMA PlacementsSound ==
  ASSUME NEW g \in Group, NEW R \in Placements(g), resident \subseteq Group
  PROVE  R \subseteq Group /\ g \in R /\ resident \ R \subseteq Evictable
BY DEF Placements, Evictable

(* The scheduling procedure, whoever runs it, keeps the types ...          *)
LEMMA ScheduleTypes ==
  ASSUME Basics, NEW t \in Threads, Schedule(t)
  PROVE  TypeOK'
<1> USE DEF GoTo
<1>a. RingTypeOK /\ ArenaTypeOK /\ GroupsTypeOK
  BY DEF Basics, TypeOK
<1>b. goal[t] \in Group /\ stamp[t] \in Ticket /\ uploads \in Ticket
  BY <1>a DEF ArenaTypeOK, RingTypeOK
<1>c. ASSUME UNCHANGED <<mainVars, workVars>>, UNCHANGED holdVars PROVE GroupsTypeOK'
  BY <1>a, <1>c DEF GroupsTypeOK, mainVars, bounds, workVars, holdVars
<1>d. ASSUME NEW l \in Label, GoTo(t, l) PROVE at' \in [Threads -> Label]
  BY <1>a, <1>d DEF ArenaTypeOK
<1>1. CASE Publish(t)
  <2>1. "ok" \in Label
    BY DEF Label
  <2>2. stamp' \in [Threads -> Ticket]
    BY <1>1, <1>a, Ranges DEF Publish, ArenaTypeOK
  <2>3. ArenaTypeOK'
    BY <1>1, <1>a, <1>d, <2>1, <2>2, ThreadsMove DEF Publish, ArenaTypeOK
  <2>4. RingTypeOK'
    BY <1>1, <1>a, RingOperations DEF Publish
  <2>5. groupEvent' \in [Group -> Ticket] /\ pending' \subseteq Group /\ active' \subseteq Group
    BY <1>1, <1>a, <1>b DEF Publish, GroupsTypeOK
  <2> QED
    BY <1>1, <1>a, <2>3, <2>4, <2>5
    DEF Schedule, TypeOK, GroupsTypeOK, mainVars, bounds, workVars
<1>2. CASE UNCHANGED holdVars /\ (Check(t) \/ MarkFail(t) \/ Record(t) \/ Mark(t) \/ Begin(t))
  <2>1. at' \in [Threads -> Label]
    <3>1. {"ok", "acquire", "err", "mark", "publish", "stage"} \subseteq Label
      BY DEF Label
    <3> QED
      BY <1>2, <1>d, <3>1 DEF Check, MarkFail, Record, Mark, Begin
  <2>2. stamp' \in [Threads -> Ticket] /\ goal' \in [Threads -> Group]
    BY <1>2, <1>a, <1>b DEF Check, MarkFail, Record, Mark, Begin, ArenaTypeOK
  <2>3. UNCHANGED <<lockVars, backVars, streamVars>>
    BY <1>2 DEF Check, MarkFail, Record, Mark, Begin
  <2>4. ArenaTypeOK'
    BY <1>a, <2>1, <2>2, <2>3, ThreadsMove
  <2>5. RingTypeOK'
    BY <1>2, <1>a, <1>b, RingOperations DEF Check, MarkFail, Record, Mark, Begin
  <2> QED
    BY <1>2, <1>c, <2>4, <2>5 DEF Schedule, TypeOK
<1>3. CASE UNCHANGED holdVars /\ PrefetchPlace(t)
  <2>1. {"begin", "copy"} \subseteq Label
    BY DEF Label
  <2>2. at' \in [Threads -> Label]
    BY <1>3, <1>d, <2>1 DEF PrefetchPlace
  <2>3. resident' \subseteq Group
    BY <1>3, <1>a, <1>b, PlacementsSound DEF PrefetchPlace, ArenaTypeOK
  <2>4. ArenaTypeOK'
    BY <1>3, <1>a, <2>2, <2>3 DEF PrefetchPlace, ArenaTypeOK, streamVars
  <2>5. RingTypeOK'
    BY <1>3, <1>a, RingOperations DEF PrefetchPlace
  <2> QED
    BY <1>3, <1>c, <2>4, <2>5 DEF Schedule, TypeOK
<1>4. CASE UNCHANGED holdVars /\ Refuse(t)
  BY <1>4, <1>a, <1>c, RefuseTypes, RingOperations DEF Schedule, TypeOK, Refuse
<1>5. CASE UNCHANGED holdVars /\ PrefetchLoaded(t)
  <2>1. ArenaTypeOK'
    BY <1>5, <1>a, GrantTypes DEF PrefetchLoaded, ArenaTypeOK, backVars, streamVars
  <2> QED
    BY <1>5, <1>a, <1>c, <2>1, RingOperations DEF Schedule, TypeOK, PrefetchLoaded
<1>6. CASE UNCHANGED holdVars /\ Stage(t) /\ GoTo(t, "copy")
              /\ UNCHANGED <<lockVars, backVars, streamVars, goal, stamp, ringVars>>
  <2>1. at' \in [Threads -> Label]
    BY <1>6, <1>d DEF Label
  <2>2. stamp' \in [Threads -> Ticket] /\ goal' \in [Threads -> Group]
    BY <1>6, <1>a DEF ArenaTypeOK
  <2>3. ArenaTypeOK'
    BY <1>6, <1>a, <2>1, <2>2, ThreadsMove
  <2> QED
    BY <1>6, <1>a, <1>c, <2>3, RingOperations DEF Schedule, TypeOK
<1>7. CASE UNCHANGED holdVars /\ Copy(t)
  <2>1. goal[t] \in resident
    BY <1>7 DEF Basics, Locking, Placing, Copy
  <2>2. uploads + 1 \in Ticket
    BY <1>7, <1>a, <1>b, Ranges DEF Copy, EnqueueCopy
  <2>3. fill' \in [Group -> Ticket] /\ stamp' \in [Threads -> Ticket]
    BY <1>7, <1>a, <2>2 DEF Copy, ArenaTypeOK
  <2>4. loaded' \subseteq resident
    BY <1>7, <1>a, <2>1 DEF Copy, ArenaTypeOK
  <2>5. ArenaTypeOK'
    <3>1. CASE Grant(t)
      BY <1>7, <1>a, <2>3, <2>4, <3>1, GrantTypes DEF Copy, ArenaTypeOK
    <3>2. CASE GoTo(t, "nativeMark") /\ UNCHANGED lockVars
      <4>1. at' \in [Threads -> Label]
        BY <1>d, <3>2 DEF Label
      <4> QED
        BY <1>7, <1>a, <2>3, <2>4, <3>2, <4>1 DEF Copy, ArenaTypeOK, lockVars
    <3> QED
      BY <1>7, <3>1, <3>2 DEF Copy
  <2>6. RingTypeOK'
    BY <1>7, <1>a, RingOperations DEF Copy
  <2> QED
    BY <1>7, <1>c, <2>5, <2>6 DEF Schedule, TypeOK
<1>8. CASE UNCHANGED holdVars /\ NativeMark(t) /\ Grant(t)
              /\ MarkUpload(stamp[t]) /\ loaded' = loaded \cup {goal[t]}
              /\ UNCHANGED <<transport, resident, streamVars, goal, stamp>>
  <2>1. goal[t] \in resident
    BY <1>8 DEF Basics, Locking, Placing, NativeMark
  <2>2. ArenaTypeOK'
    BY <1>8, <1>a, <2>1, GrantTypes DEF ArenaTypeOK, streamVars
  <2> QED
    BY <1>8, <1>a, <1>b, <1>c, <2>2, RingOperations DEF Schedule, TypeOK
<1> QED
  BY <1>1, <1>2, <1>3, <1>4, <1>5, <1>6, <1>7, <1>8
  DEF Schedule, ArenaAcquire, PrefetchNoRoom, Stage, NativeMark

(* ... and what the lock protects.                                         *)
LEMMA ScheduleLocking ==
  ASSUME Basics, NEW t \in Threads, Schedule(t)
  PROVE  Locking'
<1> USE DEF GoTo, Locking, Placing
<1>a. ArenaTypeOK /\ Locking /\ goal[t] \in Group /\ Nobody \notin Threads
  BY ArenaAssumption DEF Basics, TypeOK, ArenaTypeOK
<1>1. CASE Publish(t) \/ Check(t) \/ MarkFail(t) \/ Record(t) \/ Mark(t)
  BY <1>1, <1>a DEF Publish, Check, MarkFail, Record, Mark, ArenaTypeOK, lockVars, backVars
<1>2. CASE Begin(t) \/ (Stage(t) /\ ~Refuse(t))
  BY <1>2, <1>a DEF Begin, Stage, ArenaTypeOK, lockVars, backVars
<1>3. CASE PrefetchPlace(t)
  <2>1. \A u \in Threads : u # t => at[u] \notin Placing \cup {"retry"}
    BY <1>3, <1>a DEF PrefetchPlace, Attempting
  <2>2. goal[t] \in resident' \ loaded'
    BY <1>3, <1>a, PlacementsSound DEF PrefetchPlace, ArenaTypeOK
  <2> QED
    BY <1>3, <1>a, <2>1, <2>2 DEF PrefetchPlace, ArenaTypeOK
<1>4. CASE Refuse(t) /\ (PrefetchNoRoom(t) \/ Stage(t) \/ NativeMark(t))
  <2>1. \A u \in Threads : u # t => at[u] \notin Placing \cup {"retry"}
    BY <1>4, <1>a DEF PrefetchNoRoom, Stage, NativeMark, Attempting
  <2>2. at'[t] = (IF retried[t] THEN "err" ELSE "retry") /\ arenaLock' = IF retried[t] THEN Nobody ELSE t
    BY <1>4, <1>a DEF Refuse, LockRefused, ArenaTypeOK
  <2>3. \A u \in Threads : u # t => at'[u] = at[u]
    BY <1>4, <1>a DEF Refuse, ArenaTypeOK
  <2> QED
    BY <2>1, <2>2, <2>3
<1>5. CASE Grant(t) /\ UNCHANGED goal
           /\ (PrefetchLoaded(t) \/ Copy(t) \/ NativeMark(t))
  <2>1. \A u \in Threads : u # t => at[u] \notin Placing \cup {"retry"}
    BY <1>5, <1>a DEF PrefetchLoaded, Copy, NativeMark, Attempting
  <2> QED
    BY <1>5, <1>a, <2>1 DEF Grant, ArenaTypeOK
<1>6. CASE Copy(t) /\ GoTo(t, "nativeMark") /\ UNCHANGED <<loaded, lockVars>>
  BY <1>6, <1>a DEF Copy, ArenaTypeOK, lockVars
<1> QED
  BY <1>1, <1>2, <1>3, <1>4, <1>5, <1>6
  DEF Schedule, ArenaAcquire, PrefetchLoaded, PrefetchNoRoom, Stage, Copy, NativeMark

(* The part of Basics that is about the arena, the ring and the threads    *)
(* that schedule.                                                          *)
GpuOK == RingTypeOK /\ ArenaTypeOK /\ Locking

(* Calls and returns of the procedure.                                     *)
LEMMA CallAndReturn ==
  ASSUME GpuOK, NEW t \in Threads,
         \/ \E g \in Group : CallSchedule(t, g)
         \/ Return(t, "ok") \/ Return(t, "err")
  PROVE  GpuOK'
<1> USE DEF GpuOK, GoTo
<1>1. at' \in [Threads -> Label] /\ goal' \in [Threads -> Group] /\ stamp' \in [Threads -> Ticket]
  BY DEF CallSchedule, Return, ArenaTypeOK, Label
<1>2. UNCHANGED <<lockVars, backVars, streamVars, ringVars>>
  BY DEF CallSchedule, Return
<1>3. Locking'
  BY <1>2 DEF CallSchedule, Return, Locking, Placing, ArenaTypeOK, lockVars, backVars
<1> QED
  BY <1>1, <1>2, <1>3, ThreadsMove, RingOperations

(* Steps on the streams and the release of a lease.                        *)
LEMMA StreamSteps ==
  ASSUME GpuOK,
         \/ \E op \in Operation : Launch(op)
         \/ \E g \in Group : ReleaseGroup(g)
         \/ FinishCompute \/ FinishArenaUpload \/ CloseArena \/ UNCHANGED gpuVars
  PROVE  GpuOK'
<1> USE DEF GpuOK
<1>a. compute \in Seq(Operation) /\ Len(compute) \in Nat /\ MaxLaunches \in Nat
  BY ArenaAssumption DEF ArenaTypeOK
<1>1. CASE \E op \in Operation : Launch(op)
  <2> PICK op \in Operation : Launch(op)
    BY <1>1
  <2>1. compute' \in Seq(Operation) /\ Len(compute') <= MaxLaunches
    BY <1>a DEF Launch
  <2> QED
    BY <2>1, RingOperations
    DEF Launch, ArenaTypeOK, Locking, lockVars, backVars
<1>2. CASE \E g \in Group : ReleaseGroup(g)
  <2> PICK g \in Group : ReleaseGroup(g)
    BY <1>2
  <2>1. leases' \in [Group -> Nat]
    BY DEF ReleaseGroup, ArenaTypeOK
  <2>2. released' \in [Group -> 0 .. MaxLaunches]
    <3>1. Len(compute) \in 0 .. MaxLaunches
      BY <1>a DEF ArenaTypeOK
    <3> QED
      BY <3>1 DEF ReleaseGroup, ArenaTypeOK
  <2> QED
    BY <2>1, <2>2, RingOperations DEF ReleaseGroup, ArenaTypeOK, Locking, backVars
<1>3. CASE FinishCompute
  <2>1. compute' \in Seq(Operation) /\ Len(compute') <= MaxLaunches
    BY <1>3, <1>a, HeadTailProperties DEF FinishCompute, ArenaTypeOK
  <2>2. released' \in [Group -> 0 .. MaxLaunches]
    BY <1>3, <1>a DEF FinishCompute, ArenaTypeOK, Closer
  <2> QED
    BY <1>3, <2>1, <2>2, RingOperations
    DEF FinishCompute, ArenaTypeOK, Locking, lockVars, backVars
<1>4. CASE FinishArenaUpload
  <2>1. compute' \in Seq(Operation) /\ Len(compute') = Len(compute)
    <3>1. DOMAIN compute = 1 .. Len(compute)
      BY <1>a
    <3>2. compute' = [i \in 1 .. Len(compute) |-> [compute[i] EXCEPT !.ticket = Closer(@)]]
      BY <1>4, <3>1, Zenon DEF FinishArenaUpload
    <3>4. \A i \in 1 .. Len(compute) : [compute[i] EXCEPT !.ticket = Closer(@)] \in Operation
      <4>1. \A op \in Operation : [op EXCEPT !.ticket = Closer(@)] \in Operation
        BY Ranges DEF Operation
      <4>2. \A i \in 1 .. Len(compute) : compute[i] \in Operation
        BY <1>a
      <4> QED
        BY <4>1, <4>2
    <3>3. compute' \in [1 .. Len(compute) -> Operation]
      BY <3>2, <3>4, Zenon
    <3> QED
      BY <1>a, <3>3, FunctionIsSequence
  <2>2. fill' \in [Group -> Ticket] /\ stamp' \in [Threads -> Ticket]
    BY <1>4, Ranges DEF FinishArenaUpload, ArenaTypeOK
  <2> QED
    BY <1>4, <2>1, <2>2, RingOperations
    DEF FinishArenaUpload, ArenaTypeOK, Locking, lockVars, backVars
<1>5. CASE CloseArena
  BY <1>5, RingOperations, ArenaAssumption
  DEF CloseArena, ArenaTypeOK, Locking, Placing, lockVars, streamVars
<1>6. CASE UNCHANGED gpuVars
  BY <1>6, RingOperations
  DEF gpuVars, arenaVars, ArenaTypeOK, Locking, lockVars, backVars, streamVars
<1> QED
  BY <1>1, <1>2, <1>3, <1>4, <1>5, <1>6

(* The procedure's steps leave the main thread where it is.                *)
LEMMA NextBasics ==
  ASSUME Basics, [Next]_vars
  PROVE  Basics'
<1> USE DEF Basics, TypeOK
<1>a. GpuOK /\ Threads = {"main", "worker"}
  BY GroupsAssumption DEF GpuOK
<1>b. cur \in 0 .. GroupCount /\ GroupCount \in Nat /\ Group = 0 .. GroupCount - 1
  BY ArenaAssumption DEF GroupsTypeOK, Group
<1>c. NextGroup \in Group => NextGroup \in 0 .. GroupCount
  BY <1>b
<1>1. ASSUME NEW t \in Threads, Schedule(t) PROVE Basics'
  BY <1>1, ScheduleTypes, ScheduleLocking
  DEF Schedule, Publish, Position, mainVars, holdVars
<1>2. CASE WorkerStep
  <2>1. WorkerStart => Head(queue) \in Group /\ queue' \in Seq(Group)
    BY HeadTailProperties DEF GroupsTypeOK, WorkerStart
  <2>2. GpuOK'
    BY <1>2, <1>a, <2>1, CallAndReturn DEF WorkerStep, WorkerStart, WorkerFinish
  <2>3. queue' \in Seq(Group)
    BY <1>2, <2>1 DEF WorkerStep, WorkerFinish, GroupsTypeOK
  <2>4. task' \in [Group -> {"none", "queued", "running", "done", "failed"}]
    BY <1>2, <2>1 DEF WorkerStep, WorkerStart, WorkerFinish, GroupsTypeOK
  <2> QED
    BY <1>2, <2>2, <2>3, <2>4
    DEF GpuOK, WorkerStep, GroupsTypeOK, Position, mainVars, bounds, holdVars
<1>3. CASE HostStep
  BY <1>3, <1>a, StreamSteps
  DEF HostStep, AwaitDone, AwaitRaised, SubmitNothing, EndForward, DetachAwaited, DetachDrained,
      DetachCloseRaised, Move, GpuOK, GroupsTypeOK, MainLabel, Outside, Detaching, Position,
      bounds, workVars, holdVars
<1>4. CASE ArenaStep
  <2>1. GpuOK'
    <3>1. PreForwardDone \/ ScheduleRaised \/ ScheduleDone \/ AheadDone \/ AheadRaised => GpuOK'
      BY <1>a, CallAndReturn
      DEF PreForwardDone, ScheduleRaised, ScheduleDone, AheadDone, AheadRaised
    <3>2. SubmitInline \/ (\E g \in Group : EnterScheduling(g)) => GpuOK'
      BY <1>a, CallAndReturn DEF SubmitInline, EnterScheduling
    <3>3. ASSUME Run PROVE GpuOK'
      <4>1. cur \in Group
        BY <3>3 DEF Run, Move, Position, GroupsTypeOK
      <4>2. [kind |-> "run", group |-> cur, ticket |-> 0] \in Operation
        BY <4>1, Ranges DEF Operation
      <4> QED
        BY <1>a, <3>3, <4>2, StreamSteps DEF Run
    <3>4. Release \/ DetachClose => GpuOK'
      BY <1>a, StreamSteps DEF Release, DetachClose, Position
    <3> QED
      BY <1>4, <3>1, <3>2, <3>3, <3>4 DEF ArenaStep
  <2>2. UNCHANGED <<workVars, holdVars>>
    BY <1>4 DEF ArenaStep
  <2>3. pc' \in MainLabel /\ aborting' \in BOOLEAN
    BY <1>4
    DEF ArenaStep, PreForwardDone, ScheduleRaised, ScheduleDone, EnterScheduling, Reach, SubmitInline,
        AheadDone, AheadRaised, Run, Release, DetachClose, Move, GroupsTypeOK, MainLabel, Outside
  <2>6. aborts' \in 0 .. MaxAborts /\ skips' \in 0 .. MaxSkips
    <3>1. ASSUME NEW g \in Group, EnterScheduling(g) PROVE aborts' = aborts /\ skips' \in 0 .. MaxSkips
      BY <3>1, GroupsAssumption DEF EnterScheduling, Reach, GroupsTypeOK
    <3>2. CASE UNCHANGED bounds
      BY <3>2 DEF bounds, GroupsTypeOK
    <3> QED
      BY <1>4, <3>1, <3>2
      DEF ArenaStep, PreForwardDone, ScheduleRaised, ScheduleDone, SubmitInline,
          AheadDone, AheadRaised, Run, Release, DetachClose, Move, GroupsTypeOK
  <2>4. cur' \in 0 .. GroupCount
    <3>1. Release => cur \in Group
      BY DEF Release, Position
    <3>2. ASSUME NEW g \in Group, EnterScheduling(g) PROVE cur' = g
      BY <3>2 DEF EnterScheduling, Reach
    <3> QED
      BY <1>4, <1>b, <3>1, <3>2
      DEF ArenaStep, PreForwardDone, ScheduleRaised, ScheduleDone, SubmitInline,
          AheadDone, AheadRaised, Run, Release, DetachClose, Move
  <2>5. Position'
    BY <1>4, <2>2
    DEF ArenaStep, PreForwardDone, ScheduleRaised, ScheduleDone, EnterScheduling, Reach, SubmitInline,
        AheadDone, AheadRaised, Run, Release, DetachClose, Move, Position, holdVars
  <2> QED
    BY <2>1, <2>2, <2>3, <2>4, <2>5, <2>6 DEF GpuOK, GroupsTypeOK, workVars, holdVars
<1>5. CASE FuturesStep
  <2>1. GpuOK'
    BY <1>5, <1>a, StreamSteps DEF FuturesStep
  <2>2. GroupsTypeOK' /\ Position'
    BY <1>5
    DEF FuturesStep, DetachCollect, DetachShutdown, DetachAwait, DetachAwaitRaised, Move,
        GroupsTypeOK, MainLabel, Outside, Detaching, Position, bounds, holdVars
  <2> QED
    BY <2>1, <2>2 DEF GpuOK
<1>6. ASSUME NEW g \in Group, EnterAwaiting(g) PROVE Basics'
  <2>1. GpuOK'
    BY <1>6, <1>a, StreamSteps DEF EnterAwaiting
  <2>2. GroupsTypeOK' /\ Position'
    BY <1>6, <1>b, GroupsAssumption
    DEF EnterAwaiting, Reach, GroupsTypeOK, MainLabel, Position, holdVars
  <2> QED
    BY <2>1, <2>2 DEF GpuOK
<1>7. ASSUME NEW g \in Group, DetachDrain(g) PROVE Basics'
  <2>1. GpuOK'
    BY <1>7, <1>a, StreamSteps DEF DetachDrain
  <2>2. GroupsTypeOK' /\ Position'
    BY <1>7 DEF DetachDrain, Move, GroupsTypeOK, Position, bounds, workVars
  <2> QED
    BY <2>1, <2>2 DEF GpuOK
<1>8. CASE Take
  <2>1. [kind |-> "wait", group |-> cur, ticket |-> UploadEventOf(cur)] \in Operation
    BY <1>8 DEF Take, Operation, UploadEventOf, GroupsTypeOK
  <2>2. GpuOK'
    BY <1>8, <1>a, <2>1, StreamSteps DEF Take
  <2>3. GroupsTypeOK' /\ Position'
    BY <1>8, Ranges DEF Take, Move, GroupsTypeOK, MainLabel, Position, bounds, workVars
  <2> QED
    BY <2>2, <2>3 DEF GpuOK
<1>9. CASE SubmitPrefetch
  <2>1. GpuOK'
    BY <1>9, <1>a, StreamSteps DEF SubmitPrefetch
  <2>2. queue' \in Seq(Group)
    BY <1>9 DEF SubmitPrefetch, GroupsTypeOK
  <2>3. GroupsTypeOK' /\ Position'
    BY <1>9, <2>2 DEF SubmitPrefetch, Move, GroupsTypeOK, MainLabel, Position, bounds, holdVars
  <2> QED
    BY <2>1, <2>3 DEF GpuOK
<1>10. CASE Leave \/ GroupRaises \/ EndEarly \/ Detach
  <2>1. GpuOK'
    BY <1>10, <1>a, StreamSteps DEF Leave, GroupRaises, EndEarly, Detach
  <2>2. pc' \in MainLabel /\ aborting' \in BOOLEAN /\ cur' = cur
    BY <1>10 DEF Leave, GroupRaises, EndEarly, Detach, Move, GroupsTypeOK, MainLabel, Outside, Detaching
  <2>5. aborts' \in 0 .. MaxAborts /\ skips' \in 0 .. MaxSkips
    BY <1>10, GroupsAssumption DEF Leave, GroupRaises, EndEarly, Detach, Move, bounds, GroupsTypeOK
  <2>3. UNCHANGED <<workVars, pending, groupEvent>> /\ active' \subseteq active
    BY <1>10 DEF Leave, GroupRaises, EndEarly, Detach, holdVars
  <2>4. Position'
    BY <1>10 DEF Leave, GroupRaises, EndEarly, Detach, Move, Position, GroupsTypeOK, holdVars
  <2> QED
    BY <2>1, <2>2, <2>3, <2>4, <2>5 DEF GpuOK, GroupsTypeOK, workVars
<1>11. CASE StartForward /\ UNCHANGED <<workVars, holdVars>>
  <2>1. GpuOK'
    BY <1>11, <1>a, Ranges, CallAndReturn DEF StartForward
  <2>2. GroupsTypeOK' /\ Position'
    BY <1>11 DEF StartForward, Move, GroupsTypeOK, MainLabel, Position, bounds, workVars, holdVars
  <2> QED
    BY <2>1, <2>2 DEF GpuOK
<1>12. CASE UploadStep \/ ComputeStep
  <2>1. GpuOK'
    BY <1>12, <1>a, StreamSteps DEF UploadStep, ComputeStep
  <2>2. groupEvent' \in [Group -> Ticket]
    BY <1>12, Ranges DEF UploadStep, ComputeStep, GroupsTypeOK, holdVars
  <2>3. UNCHANGED <<mainVars, workVars, pending, active>>
    BY <1>12 DEF UploadStep, ComputeStep, holdVars
  <2> QED
    BY <2>1, <2>2, <2>3 DEF GpuOK, GroupsTypeOK, Position, mainVars, bounds, workVars
<1>13. CASE UNCHANGED vars
  <2>1. GpuOK'
    BY <1>13, <1>a, StreamSteps DEF vars
  <2> QED
    BY <1>13, <2>1 DEF vars, GpuOK, GroupsTypeOK, Position, mainVars, bounds, workVars, holdVars
<1> QED
  BY <1>1, <1>2, <1>3, <1>4, <1>5, <1>6, <1>7, <1>8, <1>9, <1>10, <1>11, <1>12, <1>13
  DEF Next, MainStep, Closed

(* The initial states have the types and an unused lock.                   *)
LEMMA InitBasics == Init => Basics
<1> SUFFICES ASSUME Init PROVE Basics
  OBVIOUS
<1>1. RingTypeOK
  BY Ranges DEF Init, RingInit, RingTypeOK
<1>2. ArenaTypeOK
  BY Ranges, ArenaAssumption DEF Init, ArenaInit, ArenaTypeOK, Label
<1>3. GroupsTypeOK
  BY Ranges, ArenaAssumption, GroupsAssumption
  DEF Init, GroupsTypeOK, MainLabel, Outside
<1>4. Locking /\ Position
  BY DEF Init, ArenaInit, Locking, Placing, Position
<1> QED
  BY <1>1, <1>2, <1>3, <1>4 DEF Basics, TypeOK

(* Every variable keeps its type, whatever the interleaving of the two     *)
(* threads and the two streams.                                            *)
THEOREM TypeCorrect == Spec => []TypeOK
<1>1. Spec => []Basics
  BY InitBasics, NextBasics, PTL DEF Spec
<1>2. Basics => TypeOK
  BY DEF Basics
<1> QED
  BY <1>1, <1>2, PTL

------------------------------------------------------------------------------
(* What the kernels see *)

(* Every claim on a group is backed by a lease of its own (aborted         *)
(* forwards may leave leases that nobody claims).                          *)
Covered == \A g \in Group : leases[g] >= Claims(g)

ClaimsLoaded == \A g \in Group : Claims(g) > 0 => g \in loaded

(* Events stand behind the copies they are waited on for.                  *)
FillsOutstanding == \A g \in Group : fill[g] <= uploads

Stamped ==
  \A t \in Threads : at[t] \in {"mark", "publish"} => fill[goal[t]] <= stamp[t]

PendingEvents == \A g \in pending : fill[g] <= groupEvent[g]

(* Operation i of the compute stream starts after all copies into group g. *)
Waited(g, i) ==
  fill[g] = 0 \/ \E j \in 1 .. Len(compute) : j < i /\ fill[g] <= compute[j].ticket

(* Whatever is launched next starts after them.                            *)
StreamWaits(g) == Waited(g, Len(compute) + 1)

ActiveWaited == \A g \in active : StreamWaits(g)

RunsProtected ==
  \A i \in 1 .. Len(compute) : compute[i].kind = "run" =>
    /\ compute[i].group \in loaded
    /\ leases[compute[i].group] > 0 \/ i <= released[compute[i].group]
    /\ Waited(compute[i].group, i)

Claimed == Covered /\ ClaimsLoaded
Ordered == FillsOutstanding /\ Stamped /\ PendingEvents /\ ActiveWaited /\ RunsProtected

IInv == Basics /\ Claimed /\ Ordered

------------------------------------------------------------------------------
(* What a step may do, as far as the argument is concerned *)

Hand == {"record", "mark", "publish"}

(* Threads come and go, but nobody gains or loses a claim.                 *)
Calm ==
  /\ UNCHANGED <<leases, loaded, fill, uploads, released, compute, stamp>>
  /\ UNCHANGED holdVars
  /\ \A u \in Threads : at[u] \in Hand \/ at'[u] \in Hand => at'[u] = at[u] /\ goal'[u] = goal[u]
  /\ pc = "release" \/ pc' = "release" => pc' = pc /\ cur' = cur

(* Thread t moves on in the procedure, and nobody else does.               *)
Alone(t) ==
  /\ goal' = goal
  /\ \A u \in Threads : u # t => at'[u] = at[u] /\ stamp'[u] = stamp[u]
  /\ UNCHANGED <<released, compute, active, pc, cur>>

(* It gains no claim, and has just recorded an event where it holds one.   *)
Moves(t) ==
  /\ UNCHANGED <<leases, loaded, fill, uploads, pending, groupEvent>>
  /\ at'[t] \in Hand => at[t] \in Hand
  /\ at'[t] \in {"mark", "publish"} =>
       stamp'[t] = uploads \/ (at[t] = "mark" /\ stamp'[t] = stamp[t])

(* It makes room for its group.                                            *)
MakesRoom(t) ==
  /\ UNCHANGED <<leases, fill, uploads, pending, groupEvent>>
  /\ at'[t] \notin Hand
  /\ loaded' = loaded \cap resident' /\ resident \ resident' \subseteq Evictable

(* It copies into a group that nobody has yet.                             *)
Fills(t) ==
  /\ goal[t] \notin loaded
  /\ fill' = [fill EXCEPT ![goal[t]] = uploads + 1] /\ uploads' = uploads + 1

Uploading(t) ==
  /\ Fills(t)
  /\ UNCHANGED <<leases, loaded, pending, groupEvent>>
  /\ at'[t] \notin Hand

(* It is granted a lease on a group that is loaded from now on.            *)
Gains(t) ==
  /\ Fills(t) \/ UNCHANGED <<fill, uploads>>
  /\ leases' = [leases EXCEPT ![goal[t]] = @ + 1]
  /\ loaded' = loaded \cup {goal[t]}
  /\ at'[t] = "record"
  /\ UNCHANGED <<pending, groupEvent>>

(* Every step of the scheduling procedure is of one of these kinds.        *)
LEMMA ScheduleKinds ==
  ASSUME Basics, NEW t \in Threads, Schedule(t)
  PROVE  /\ Alone(t)
         /\ Moves(t) \/ MakesRoom(t) \/ Uploading(t) \/ Gains(t) \/ Publish(t)
<1> USE DEF GoTo, Hand
<1>a. ArenaTypeOK /\ Locking /\ goal[t] \in Group
  BY DEF Basics, TypeOK, ArenaTypeOK
<1>b. UNCHANGED mainVars
  BY DEF Schedule
<1>1. CASE Publish(t)
  BY <1>1, <1>a, <1>b DEF Publish, Alone, ArenaTypeOK, streamVars, mainVars
<1>2. CASE UNCHANGED holdVars /\ (Check(t) \/ MarkFail(t) \/ Record(t) \/ Mark(t) \/ Begin(t))
  BY <1>2, <1>a, <1>b
  DEF Check, MarkFail, Record, Mark, MarkUpload, Begin, BeginUpload, Alone, Moves, ArenaTypeOK,
      lockVars, backVars, streamVars, ringVars, mainVars, holdVars
<1>3. CASE UNCHANGED holdVars /\ PrefetchPlace(t)
  <2>1. resident \ resident' \subseteq Evictable
    BY <1>3, <1>a, PlacementsSound DEF PrefetchPlace, ArenaTypeOK
  <2> QED
    BY <1>3, <1>a, <1>b, <2>1
    DEF PrefetchPlace, Alone, MakesRoom, ArenaTypeOK, streamVars, ringVars, mainVars, holdVars
<1>4. CASE UNCHANGED holdVars /\ Refuse(t)
  BY <1>4, <1>a, <1>b
  DEF Refuse, Alone, Moves, ArenaTypeOK, backVars, streamVars, ringVars, mainVars, holdVars
<1>5. CASE UNCHANGED holdVars /\ PrefetchLoaded(t)
  BY <1>5, <1>a, <1>b
  DEF PrefetchLoaded, Grant, Alone, Gains, ArenaTypeOK, backVars, streamVars, ringVars, mainVars, holdVars
<1>6. CASE UNCHANGED holdVars /\ Stage(t) /\ GoTo(t, "copy")
              /\ UNCHANGED <<lockVars, backVars, streamVars, goal, stamp, ringVars>>
  BY <1>6, <1>a, <1>b
  DEF Alone, Moves, ArenaTypeOK, lockVars, backVars, streamVars, ringVars, mainVars, holdVars
<1>7. CASE UNCHANGED holdVars /\ Copy(t)
  <2>1. goal[t] \notin loaded
    BY <1>7, <1>a DEF Locking, Placing, Copy
  <2> QED
    BY <1>7, <1>a, <1>b, <2>1
    DEF Copy, EnqueueCopy, Grant, Alone, Fills, Uploading, Gains, ArenaTypeOK, lockVars, mainVars, holdVars
<1>8. CASE UNCHANGED holdVars /\ NativeMark(t) /\ Grant(t)
              /\ MarkUpload(stamp[t]) /\ loaded' = loaded \cup {goal[t]}
              /\ UNCHANGED <<transport, resident, streamVars, goal, stamp>>
  BY <1>8, <1>a, <1>b
  DEF Grant, MarkUpload, Alone, Gains, ArenaTypeOK, streamVars, mainVars, holdVars
<1> QED
  BY <1>1, <1>2, <1>3, <1>4, <1>5, <1>6, <1>7, <1>8
  DEF Schedule, ArenaAcquire, PrefetchNoRoom, Stage, NativeMark

(* Every other step is calm, except those listed here.                     *)
LEMMA CalmSteps ==
  ASSUME Basics,
         \/ WorkerStep \/ HostStep \/ FuturesStep
         \/ ArenaStep /\ ~Run /\ ~Release /\ ~DetachClose
         \/ \E g \in Group : EnterAwaiting(g)
         \/ SubmitPrefetch \/ GroupRaises \/ EndEarly \/ Detach
         \/ StartForward /\ UNCHANGED <<workVars, holdVars>>
         \/ UNCHANGED vars
  PROVE  Calm
<1> USE DEF GoTo, Hand
<1>a. ArenaTypeOK /\ {"main", "worker"} \subseteq Threads
  BY GroupsAssumption DEF Basics, TypeOK
<1>1. ASSUME NEW t \in {"main", "worker"},
             (\E g \in Group : CallSchedule(t, g)) \/ Return(t, "ok") \/ Return(t, "err"),
             UNCHANGED holdVars,
             pc = "release" \/ pc' = "release" => pc' = pc /\ cur' = cur
      PROVE  Calm
  BY <1>1, <1>a
  DEF CallSchedule, Return, Calm, ArenaTypeOK, lockVars, backVars, streamVars, ringVars
<1>2. ASSUME UNCHANGED gpuVars, UNCHANGED holdVars,
             pc = "release" \/ pc' = "release" => pc' = pc /\ cur' = cur
      PROVE  Calm
  BY <1>2 DEF gpuVars, arenaVars, Calm, lockVars, backVars, streamVars, ringVars
<1>3. CASE WorkerStep
  <2>1. WorkerStart => Head(queue) \in Group
    BY HeadTailProperties DEF Basics, TypeOK, GroupsTypeOK, WorkerStart
  <2> QED
    BY <1>1, <1>3, <2>1 DEF WorkerStep, WorkerStart, WorkerFinish, mainVars
<1>4. CASE HostStep \/ FuturesStep \/ (\E g \in Group : EnterAwaiting(g)) \/ SubmitPrefetch
             \/ GroupRaises \/ EndEarly \/ Detach \/ UNCHANGED vars
  <2>1. UNCHANGED gpuVars /\ UNCHANGED holdVars
    BY <1>4 DEF HostStep, FuturesStep, EnterAwaiting, SubmitPrefetch, GroupRaises, EndEarly, Detach, vars
  <2>2. pc = "release" \/ pc' = "release" => pc' = pc /\ cur' = cur
    <3>1. CASE HostStep \/ FuturesStep \/ Detach
      BY <3>1
      DEF HostStep, AwaitDone, AwaitRaised, SubmitNothing, EndForward, DetachAwaited, DetachDrained,
          DetachCloseRaised, FuturesStep, DetachCollect, DetachShutdown, DetachAwait, DetachAwaitRaised,
          Detach, Move
    <3>2. CASE (\E g \in Group : EnterAwaiting(g)) \/ SubmitPrefetch \/ GroupRaises \/ EndEarly
      BY <3>2 DEF EnterAwaiting, Reach, SubmitPrefetch, GroupRaises, EndEarly, Move
    <3>3. CASE UNCHANGED vars BY <3>3 DEF vars, mainVars
    <3> QED BY <1>4, <3>1, <3>2, <3>3
  <2> QED BY <1>2, <2>1, <2>2
<1>5. CASE ArenaStep /\ ~Run /\ ~Release /\ ~DetachClose
  BY <1>1, <1>5
  DEF ArenaStep, PreForwardDone, ScheduleRaised, ScheduleDone, EnterScheduling, SubmitInline,
      AheadDone, AheadRaised, Move, Reach
<1>6. CASE StartForward /\ UNCHANGED <<workVars, holdVars>>
  BY <1>1, <1>6, Ranges DEF StartForward, Move
<1> QED
  BY <1>3, <1>4, <1>5, <1>6
------------------------------------------------------------------------------
(* Claims *)

(* The parts of a claim count for one at most.                             *)
Countable ==
  /\ leases \in [Group -> Nat] /\ loaded \subseteq resident
  /\ \A g \in Group : /\ InHand("main", g) \in {0, 1} /\ InHand("worker", g) \in {0, 1}
                     /\ IsPending(g) \in {0, 1} /\ IsInUse(g) \in {0, 1}
                     /\ Claims(g) \in Nat

(* Leases and claims are numbers.                                          *)
LEMMA Claimants ==
  /\ Basics => Countable
  /\ Basics' => Countable'
<1>1. Basics => Countable
  BY DEF Countable, Basics, TypeOK, ArenaTypeOK, InHand, IsPending, IsInUse, Claims
<1>2. Basics' => Countable'
  BY DEF Countable, Basics, TypeOK, ArenaTypeOK, InHand, IsPending, IsInUse, Claims
<1> QED
  BY <1>1, <1>2

(* When nobody's claim on g grows and its lease and payload stay.          *)
LEMMA NoNewClaim ==
  ASSUME Basics, Basics', Claimed, NEW g \in Group,
         Claims(g)' <= Claims(g), leases'[g] >= leases[g],
         g \in loaded /\ Claims(g) > 0 => g \in loaded'
  PROVE  leases'[g] >= Claims(g)' /\ (Claims(g)' > 0 => g \in loaded')
BY Claimants DEF Countable, Claimed, Covered, ClaimsLoaded

(* The scheduling procedure keeps claims leased and loaded.                *)
LEMMA ScheduleClaims ==
  ASSUME Basics, Basics', Claimed, NEW t \in Threads, Schedule(t)
  PROVE  Claimed'
<1> SUFFICES ASSUME NEW g \in Group
             PROVE  leases'[g] >= Claims(g)' /\ (Claims(g)' > 0 => g \in loaded')
  BY DEF Claimed, Covered, ClaimsLoaded
<1>a. /\ Alone(t)
      /\ Moves(t) \/ MakesRoom(t) \/ Uploading(t) \/ Gains(t) \/ Publish(t)
      /\ t = "main" \/ t = "worker"
      /\ goal[t] \in Group
  BY ScheduleKinds, GroupsAssumption DEF Basics, TypeOK, ArenaTypeOK
<1>b. \A u \in Threads : u # t => InHand(u, g)' = InHand(u, g)
  BY <1>a DEF Alone, InHand
<1>c. IsInUse(g)' = IsInUse(g) /\ {"main", "worker"} = Threads
  BY <1>a, GroupsAssumption DEF Alone, IsInUse
<1>1. CASE Moves(t) \/ MakesRoom(t) \/ Uploading(t)
  <2>1. InHand(t, g)' <= InHand(t, g) /\ IsPending(g)' = IsPending(g)
    BY <1>1, <1>a DEF Alone, Moves, MakesRoom, Uploading, InHand, IsPending, Hand
  <2>2. Claims(g)' <= Claims(g)
    BY <1>a, <1>b, <1>c, <2>1, Claimants DEF Countable, Claims
  <2>3. leases'[g] = leases[g]
    BY <1>1 DEF Moves, MakesRoom, Uploading
  <2>4. g \in loaded /\ Claims(g) > 0 => g \in loaded'
    <3>1. Claims(g) > 0 => leases[g] # 0
      BY Claimants DEF Countable, Claimed, Covered
    <3> QED
      BY <1>1, <3>1, Claimants DEF Countable, Moves, MakesRoom, Uploading, Evictable
  <2> QED
    BY <2>2, <2>3, <2>4, NoNewClaim, Claimants DEF Countable
<1>2. CASE Publish(t)
  <2>1. leases' = leases /\ loaded' = loaded
    BY <1>2 DEF Publish, lockVars, backVars
  <2>2. InHand(t, g)' + IsPending(g)' <= InHand(t, g) + IsPending(g)
    BY <1>2, <1>a, SMTT(30) DEF Publish, GoTo, InHand, IsPending, Basics, TypeOK, ArenaTypeOK
  <2>3. Claims(g)' <= Claims(g)
    BY <1>a, <1>b, <1>c, <2>2, Claimants DEF Countable, Claims
  <2> QED
    BY <2>1, <2>3, NoNewClaim, Claimants DEF Countable
<1>3. CASE Gains(t)
  <2>1. IsPending(g)' = IsPending(g)
    BY <1>3 DEF Gains, IsPending
  <2>2. CASE g = goal[t]
    <3>1. leases'[g] = leases[g] + 1 /\ g \in loaded'
      BY <1>3, <2>2, Claimants DEF Countable, Gains
    <3>2. Claims(g)' <= Claims(g) + 1
      BY <1>a, <1>b, <1>c, <2>1, Claimants DEF Countable, Claims
    <3> QED
      BY <3>1, <3>2, Claimants DEF Countable, Claimed, Covered
  <2>3. CASE g # goal[t]
    <3>1. InHand(t, g)' = InHand(t, g)
      BY <1>a, <2>3 DEF Alone, InHand
    <3>2. Claims(g)' = Claims(g)
      BY <1>a, <1>b, <1>c, <2>1, <3>1 DEF Claims
    <3>3. leases'[g] = leases[g] /\ loaded \subseteq loaded'
      BY <1>3, <2>3, Claimants DEF Countable, Gains
    <3> QED
      BY <3>2, <3>3, NoNewClaim, Claimants DEF Countable
  <2> QED
    BY <2>2, <2>3
<1> QED
  BY <1>a, <1>1, <1>2, <1>3

(* So does every step.                                                     *)
LEMMA NextClaims ==
  ASSUME Basics, Basics', Claimed, [Next]_vars
  PROVE  Claimed'
<1>1. ASSUME NEW t \in Threads, Schedule(t) PROVE Claimed'
  BY <1>1, ScheduleClaims
<1> SUFFICES ASSUME NEW g \in Group, \A t \in Threads : ~Schedule(t)
             PROVE  leases'[g] >= Claims(g)' /\ (Claims(g)' > 0 => g \in loaded')
  BY <1>1 DEF Claimed, Covered, ClaimsLoaded
<1>a. \A u \in {"main", "worker"} : u \in Threads
  BY GroupsAssumption
<1>b. pc = "release" => cur \in Group \ active
  BY DEF Basics, Position
<1>2. CASE Calm
  <2>1. InHand("main", g)' <= InHand("main", g) /\ InHand("worker", g)' <= InHand("worker", g)
    BY <1>2, <1>a DEF Calm, InHand, Hand
  <2>2. IsPending(g)' = IsPending(g) /\ IsInUse(g)' <= IsInUse(g)
    BY <1>2 DEF Calm, IsPending, IsInUse, holdVars
  <2>3. Claims(g)' <= Claims(g)
    BY <2>1, <2>2, Claimants DEF Countable, Claims
  <2> QED
    BY <1>2, <2>3, NoNewClaim, Claimants DEF Countable, Calm
<1>3. ASSUME UNCHANGED <<at, goal, loaded>>,
             leases'[g] >= leases[g] - 1, leases'[g] \in Nat,
             IsPending(g)' + IsInUse(g)' <= IsPending(g) + IsInUse(g),
             leases'[g] # leases[g] => IsPending(g)' + IsInUse(g)' < IsPending(g) + IsInUse(g)
      PROVE  leases'[g] >= Claims(g)' /\ (Claims(g)' > 0 => g \in loaded')
  <2>1. InHand("main", g)' = InHand("main", g) /\ InHand("worker", g)' = InHand("worker", g)
    BY <1>3 DEF InHand
  <2> QED
    BY <1>3, <2>1, Claimants DEF Countable, Claims, Claimed, Covered, ClaimsLoaded
<1>4. CASE (Run /\ UNCHANGED <<workVars, holdVars>>) \/ Take \/ Leave
  <2>1. UNCHANGED <<at, goal, loaded, leases>>
    BY <1>4 DEF Run, Take, Leave, Launch, gpuVars, arenaVars, lockVars, backVars
  <2>2. IsPending(g)' + IsInUse(g)' <= IsPending(g) + IsInUse(g)
    <3>1. CASE Run /\ UNCHANGED <<workVars, holdVars>>
      BY <3>1 DEF Run, Move, IsPending, IsInUse, holdVars
    <3>2. CASE Take
      BY <3>2 DEF Take, Move, IsPending, IsInUse
    <3>3. CASE Leave
      BY <3>3 DEF Leave, Move, IsPending, IsInUse, Basics, Position
    <3> QED
      BY <1>4, <3>1, <3>2, <3>3
  <2> QED
    BY <1>3, <2>1, <2>2, Claimants DEF Countable
<1>5. CASE Release /\ UNCHANGED <<workVars, holdVars>>
  <2>1. UNCHANGED <<at, goal, loaded>> /\ leases' = [leases EXCEPT ![cur] = @ - 1]
    BY <1>5 DEF Release, ReleaseGroup, backVars
  <2>2. IsPending(g)' = IsPending(g)
    BY <1>5 DEF IsPending, holdVars
  <2>3. IsInUse(g)' = IF g = cur THEN 0 ELSE IsInUse(g)
    BY <1>5, <1>b DEF Release, IsInUse, holdVars
  <2>4. g = cur => IsInUse(g) = 1
    BY <1>5 DEF Release, IsInUse
  <2> QED
    BY <1>3, <2>1, <2>2, <2>3, <2>4, Claimants DEF Countable
<1>6. ASSUME NEW h \in Group, DetachDrain(h)
      PROVE  leases'[g] >= Claims(g)' /\ (Claims(g)' > 0 => g \in loaded')
  <2>1. UNCHANGED <<at, goal, loaded, pc, cur>> /\ leases' = [leases EXCEPT ![h] = @ - 1]
    BY <1>6 DEF DetachDrain, ReleaseGroup, Move, backVars
  <2>2. g # h => IsPending(g)' = IsPending(g) /\ IsInUse(g)' = IsInUse(g)
    BY <1>6 DEF DetachDrain, Move, IsPending, IsInUse
  <2>3. g = h => IsPending(g)' + IsInUse(g)' < IsPending(g) + IsInUse(g)
    BY <1>6 DEF DetachDrain, Move, IsPending, IsInUse
  <2> QED
    BY <1>3, <2>1, <2>2, <2>3, Claimants DEF Countable
<1>7. CASE DetachClose /\ UNCHANGED <<workVars, holdVars>>
  <2>1. leases[g] = 0 /\ leases' = leases
    BY <1>7 DEF DetachClose, CloseArena, lockVars
  <2>2. UNCHANGED <<at, goal, pending, active>> /\ pc' # "release"
    BY <1>7 DEF DetachClose, CloseArena, Move, holdVars
  <2>3. Claims(g)' <= Claims(g)
    <3>1. InHand("main", g)' = InHand("main", g) /\ InHand("worker", g)' = InHand("worker", g)
      BY <2>2 DEF InHand
    <3>2. IsPending(g)' = IsPending(g) /\ IsInUse(g)' <= IsInUse(g)
      BY <2>2 DEF IsPending, IsInUse
    <3> QED
      BY <3>1, <3>2, Claimants DEF Countable, Claims
  <2> QED
    BY <2>1, <2>3, Claimants DEF Countable, Claimed, Covered
<1>8. CASE UploadStep \/ ComputeStep
  <2>1. UNCHANGED <<at, goal, loaded, leases, pending, active, pc, cur>>
    BY <1>8 DEF UploadStep, ComputeStep, FinishArenaUpload, FinishCompute, lockVars, backVars,
                mainVars, holdVars
  <2>2. IsPending(g)' = IsPending(g) /\ IsInUse(g)' = IsInUse(g)
    BY <2>1 DEF IsPending, IsInUse
  <2> QED
    BY <1>3, <2>1, <2>2, Claimants DEF Countable
<1> QED
  BY <1>2, <1>4, <1>5, <1>6, <1>7, <1>8, CalmSteps DEF Next, MainStep, ArenaStep, Closed
------------------------------------------------------------------------------
(* Events *)

(* The types of what the ordering of events is about.                      *)
LEMMA Timely ==
  ASSUME Basics
  PROVE  /\ fill \in [Group -> Nat] /\ groupEvent \in [Group -> Nat] /\ released \in [Group -> Nat]
         /\ stamp \in [Threads -> Nat] /\ uploads \in Nat /\ goal \in [Threads -> Group]
         /\ at \in [Threads -> Label]
         /\ pending \subseteq Group /\ active \subseteq Group
         /\ Len(compute) \in Nat
         /\ \A i \in 1 .. Len(compute) : compute[i].group \in Group /\ compute[i].ticket \in Nat
<1>1. Ticket \subseteq Nat /\ 0 .. MaxLaunches \subseteq Nat
  BY RingAssumption, ArenaAssumption DEF Ticket
<1>2. \A i \in 1 .. Len(compute) : compute[i] \in Operation
  BY DEF Basics, TypeOK, ArenaTypeOK
<1>3. /\ fill \in [Group -> Nat] /\ groupEvent \in [Group -> Nat] /\ released \in [Group -> Nat]
      /\ stamp \in [Threads -> Nat] /\ uploads \in Nat
  BY <1>1 DEF Basics, TypeOK, RingTypeOK, ArenaTypeOK, GroupsTypeOK
<1>4. \A i \in 1 .. Len(compute) : compute[i].group \in Group /\ compute[i].ticket \in Nat
  BY <1>1, <1>2 DEF Operation
<1>5. Len(compute) \in Nat
  BY DEF Basics, TypeOK, ArenaTypeOK
<1> QED
  BY <1>3, <1>4, <1>5 DEF Basics, TypeOK, ArenaTypeOK, GroupsTypeOK

(* A group somebody claims is loaded.                                      *)
LEMMA ClaimLoads ==
  ASSUME Basics, Claimed
  PROVE  /\ \A t \in Threads : at[t] \in Hand => goal[t] \in loaded
         /\ \A g \in pending \cup active : g \in loaded /\ leases[g] > 0
<1>1. \A g \in Group : Claims(g) > 0 => g \in loaded /\ leases[g] > 0
  BY Claimants DEF Countable, Claimed, Covered, ClaimsLoaded
<1>2. ASSUME NEW t \in Threads, at[t] \in Hand PROVE goal[t] \in loaded
  <2>1. t \in {"main", "worker"} /\ goal[t] \in Group
    BY GroupsAssumption, Timely
  <2>2. InHand(t, goal[t]) = 1
    BY <1>2 DEF InHand, Hand
  <2> QED
    BY <1>1, <2>1, <2>2, Claimants DEF Countable, Claims
<1>3. ASSUME NEW g \in pending \cup active PROVE Claims(g) > 0
  <2>1. g \in Group /\ (IsPending(g) = 1 \/ IsInUse(g) = 1)
    BY Timely DEF IsPending, IsInUse
  <2> QED
    BY <2>1, Claimants DEF Countable, Claims
<1> QED
  BY <1>1, <1>2, <1>3, Timely

(* A calm step leaves the order of events alone.                           *)
LEMMA CalmOrdered ==
  ASSUME Basics, Ordered, Calm
  PROVE  Ordered'
<1>1. FillsOutstanding' /\ PendingEvents' /\ ActiveWaited' /\ RunsProtected'
  BY DEF Ordered, Calm, FillsOutstanding, PendingEvents, ActiveWaited, StreamWaits, RunsProtected, Waited, holdVars
<1>2. Stamped'
  BY DEF Ordered, Calm, Stamped, Hand
<1> QED
  BY <1>1, <1>2 DEF Ordered

(* The scheduling procedure keeps events behind the copies they are        *)
(* waited on for.                                                          *)
LEMMA ScheduleOrdered ==
  ASSUME Basics, Basics', Claimed, Ordered, NEW t \in Threads, Schedule(t)
  PROVE  Ordered'
<1> USE DEF Ordered
<1>a. /\ Alone(t)
      /\ Moves(t) \/ MakesRoom(t) \/ Uploading(t) \/ Gains(t) \/ Publish(t)
  BY ScheduleKinds
(* What stays as it is for the groups that are loaded. *)
<1>b. /\ \A g \in loaded : fill'[g] = fill[g]
      /\ fill' \in [Group -> Nat] /\ uploads' \in Nat /\ uploads' >= uploads
  <2>1. CASE Fills(t)
    BY <2>1, Timely DEF Fills
  <2>2. CASE UNCHANGED <<fill, uploads>>
    BY <2>2, Timely
  <2> QED
    BY <1>a, <2>1, <2>2
    DEF Moves, MakesRoom, Uploading, Gains, Publish, streamVars, ringVars
<1>c. \A g \in Group : leases[g] > 0 => leases'[g] > 0
  <2>1. CASE Gains(t)
    BY <2>1, Claimants DEF Countable, Gains
  <2> QED
    BY <1>a, <2>1 DEF Moves, MakesRoom, Uploading, Publish, lockVars
<1>1. FillsOutstanding'
  <2>1. CASE Fills(t)
    BY <2>1, Timely DEF Fills, FillsOutstanding
  <2>2. CASE UNCHANGED <<fill, uploads>>
    BY <2>2 DEF FillsOutstanding
  <2> QED
    BY <1>a, <2>1, <2>2
    DEF Moves, MakesRoom, Uploading, Gains, Publish, streamVars, ringVars
<1>2. Stamped'
  <2> SUFFICES ASSUME NEW u \in Threads, at'[u] \in {"mark", "publish"}
               PROVE  fill'[goal[u]] <= stamp'[u]
    BY <1>a DEF Stamped, Alone
  <2>1. CASE u # t
    BY <1>a, <1>b, <2>1, ClaimLoads DEF Alone, Stamped, Hand
  <2>2. CASE u = t /\ Moves(t)
    BY <1>b, <2>2, Timely DEF Moves, Stamped, FillsOutstanding
  <2>3. u = t => Moves(t)
    BY <1>a, Timely DEF MakesRoom, Uploading, Gains, Publish, GoTo, Hand
  <2> QED
    BY <2>1, <2>2, <2>3
<1>3. PendingEvents'
  <2>1. CASE Publish(t)
    <3>1. fill' = fill /\ fill[goal[t]] <= stamp[t]
      BY <2>1 DEF Publish, streamVars, Stamped
    <3> QED
      BY <2>1, <3>1, Timely DEF Publish, PendingEvents
  <2>2. CASE UNCHANGED <<pending, groupEvent>>
    BY <1>b, <2>2, ClaimLoads DEF PendingEvents
  <2> QED
    BY <1>a, <2>1, <2>2 DEF Moves, MakesRoom, Uploading, Gains
<1>d. \A g \in loaded : \A i : Waited(g, i) => Waited(g, i)'
  BY <1>a, <1>b DEF Alone, Waited
<1>4. ActiveWaited'
  BY <1>a, <1>d, ClaimLoads DEF Alone, ActiveWaited, StreamWaits
<1>5. RunsProtected'
  <2> SUFFICES ASSUME NEW i \in 1 .. Len(compute), compute[i].kind = "run",
                      NEW g, g = compute[i].group
               PROVE  /\ g \in loaded'
                      /\ leases'[g] > 0 \/ i <= released[g]
                      /\ Waited(g, i)'
    BY <1>a DEF Alone, RunsProtected
  <2>1. g \in loaded /\ g \in Group /\ (leases[g] > 0 \/ i <= released[g]) /\ Waited(g, i)
    BY Timely DEF RunsProtected
  <2>2. g \notin Evictable
    BY <2>1, Timely, Claimants DEF Countable, Evictable
  <2>3. g \in loaded'
    BY <1>a, <2>1, <2>2, Claimants
    DEF Countable, Moves, MakesRoom, Uploading, Gains, Publish, backVars
  <2> QED
    BY <1>c, <1>d, <2>1, <2>3
<1> QED
  BY <1>1, <1>2, <1>3, <1>4, <1>5

(* One more operation at the end of the compute stream.                    *)
LEMMA LaunchWaits ==
  ASSUME Basics, NEW op \in Operation, Launch(op)
  PROVE  /\ UNCHANGED <<leases, loaded, fill, uploads, released, at, goal, stamp>>
         /\ Len(compute') = Len(compute) + 1
         /\ \A i \in 1 .. Len(compute) : compute'[i] = compute[i]
         /\ compute'[Len(compute) + 1] = op
         /\ \A g, i : Waited(g, i) => Waited(g, i)'
         /\ \A g : StreamWaits(g) => StreamWaits(g)'
<1>1. compute \in Seq(Operation)
  BY DEF Basics, TypeOK, ArenaTypeOK
<1>2. /\ UNCHANGED <<leases, loaded, fill, uploads, released, at, goal, stamp>>
      /\ compute' = Append(compute, op)
  BY DEF Launch, lockVars, backVars, ringVars
<1>3. /\ Len(compute') = Len(compute) + 1 /\ Len(compute) \in Nat
      /\ \A i \in 1 .. Len(compute) : compute'[i] = compute[i]
      /\ compute'[Len(compute) + 1] = op
  BY <1>1, <1>2
<1>4. \A g, i : Waited(g, i) => Waited(g, i)'
  BY <1>2, <1>3 DEF Waited
<1>5. \A g : StreamWaits(g) => StreamWaits(g)'
  BY <1>2, <1>3 DEF Waited, StreamWaits
<1> QED
  BY <1>2, <1>3, <1>4, <1>5

(* The kernels launched before stay protected, and so does the new one.    *)
LEMMA LaunchKeepsRuns ==
  ASSUME Basics, RunsProtected, NEW op \in Operation, Launch(op),
         op.kind = "run" => /\ op.group \in loaded /\ leases[op.group] > 0
                            /\ StreamWaits(op.group)
  PROVE  RunsProtected'
<1> SUFFICES ASSUME NEW i \in 1 .. Len(compute'), compute'[i].kind = "run",
                    NEW g, g = compute'[i].group
             PROVE  /\ g \in loaded'
                    /\ leases'[g] > 0 \/ i <= released'[g]
                    /\ Waited(g, i)'
  BY DEF RunsProtected
<1>1. CASE i \in 1 .. Len(compute)
  BY <1>1, LaunchWaits DEF RunsProtected
<1>2. CASE i \notin 1 .. Len(compute)
  <2>1. i = Len(compute) + 1 /\ compute'[i] = op
    BY <1>2, LaunchWaits, Timely
  <2>2. g \in loaded /\ leases[g] > 0 /\ Waited(g, i)
    BY <2>1 DEF StreamWaits
  <2> QED
    BY <2>2, LaunchWaits
<1> QED
  BY <1>1, <1>2

(* A lease given back leaves the release event where it is needed.         *)
LEMMA ReleaseOrdered ==
  ASSUME Basics, Ordered, NEW h \in Group, ReleaseGroup(h),
         active' \subseteq active, pending' \subseteq pending, groupEvent' = groupEvent
  PROVE  Ordered'
<1> USE DEF Ordered
<1>1. UNCHANGED <<loaded, fill, uploads, compute, at, goal, stamp>>
  BY DEF ReleaseGroup, backVars, ringVars
<1>2. FillsOutstanding' /\ Stamped' /\ PendingEvents' /\ ActiveWaited'
  BY <1>1 DEF FillsOutstanding, Stamped, PendingEvents, ActiveWaited, StreamWaits, Waited
<1>3. RunsProtected'
  <2>1. \A g \in Group, i \in 1 .. Len(compute) :
          leases[g] > 0 \/ i <= released[g] => leases'[g] > 0 \/ i <= released'[g]
    BY Timely, Claimants DEF Countable, ReleaseGroup
  <2>2. \A g, i : Waited(g, i) => Waited(g, i)'
    BY <1>1 DEF Waited
  <2> QED
    BY <1>1, <2>1, <2>2, Timely DEF RunsProtected
<1> QED
  BY <1>2, <1>3

(* One upload completes: every event comes closer, and so does every copy. *)
LEMMA UploadOrdered ==
  ASSUME Basics, Ordered, UploadStep
  PROVE  Ordered'
<1> USE DEF Ordered
<1>1. \A a, b \in Nat : a <= b => Closer(a) <= Closer(b)
  BY DEF Closer
<1>2. /\ fill' = [g \in Group |-> Closer(fill[g])]
      /\ stamp' = [t \in Threads |-> Closer(stamp[t])]
      /\ groupEvent' = [g \in Group |-> Closer(groupEvent[g])]
      /\ uploads > 0 /\ uploads' = uploads - 1
      /\ UNCHANGED <<leases, loaded, released, at, goal, pending, active>>
  BY DEF UploadStep, FinishArenaUpload, FinishUpload, lockVars, backVars
<1>3. /\ Len(compute') = Len(compute)
      /\ \A i \in 1 .. Len(compute) : /\ compute'[i].kind = compute[i].kind
                                   /\ compute'[i].group = compute[i].group
                                   /\ compute'[i].ticket = Closer(compute[i].ticket)
  <2>1. \A op \in Operation : LET nearer == [op EXCEPT !.ticket = Closer(@)]
                             IN  /\ nearer.kind = op.kind /\ nearer.group = op.group
                                 /\ nearer.ticket = Closer(op.ticket)
    BY DEF Operation
  <2>2. DOMAIN compute = 1 .. Len(compute) /\ \A i \in 1 .. Len(compute) : compute[i] \in Operation
    BY DEF Basics, TypeOK, ArenaTypeOK
  <2>3. compute' = [i \in 1 .. Len(compute) |-> [compute[i] EXCEPT !.ticket = Closer(@)]]
    BY <2>2, Zenon DEF UploadStep, FinishArenaUpload
  <2>4. Len(compute') = Len(compute)
    BY <2>3, Timely
  <2> QED
    BY <2>1, <2>2, <2>3, <2>4
<1>4. FillsOutstanding'
  BY <1>2, Timely DEF FillsOutstanding, Closer
<1>5. Stamped'
  BY <1>1, <1>2, Timely DEF Stamped
<1>6. PendingEvents'
  BY <1>1, <1>2, Timely DEF PendingEvents
<1>7. ASSUME NEW g \in Group, NEW i, Waited(g, i) PROVE Waited(g, i)'
  <2>1. CASE fill[g] = 0
    BY <1>2, <2>1 DEF Waited, Closer
  <2>2. CASE \E j \in 1 .. Len(compute) : j < i /\ fill[g] <= compute[j].ticket
    BY <1>1, <1>2, <1>3, <2>2, Timely DEF Waited
  <2> QED
    BY <1>7, <2>1, <2>2 DEF Waited
<1>8. ActiveWaited'
  BY <1>2, <1>3, <1>7, Timely DEF ActiveWaited, StreamWaits
<1>9. RunsProtected'
  BY <1>2, <1>3, <1>7, Timely DEF RunsProtected
<1> QED
  BY <1>4, <1>5, <1>6, <1>8, <1>9

(* One operation of the compute stream completes.                          *)
LEMMA ComputeOrdered ==
  ASSUME Basics, Ordered, ComputeStep
  PROVE  Ordered'
<1> USE DEF Ordered
<1>1. /\ compute # <<>> /\ compute[1].ticket = 0
      /\ Len(compute) \in Nat \ {0} /\ Len(compute') = Len(compute) - 1
      /\ \A i \in 1 .. Len(compute') : compute'[i] = compute[i + 1]
  <2>1. compute \in Seq(Operation) /\ compute # <<>> /\ compute' = Tail(compute) /\ Head(compute).ticket = 0
    BY DEF Basics, TypeOK, ArenaTypeOK, ComputeStep, FinishCompute
  <2> QED
    BY <2>1, HeadTailProperties, EmptySeq
<1>2. /\ released' = [g \in Group |-> Closer(released[g])]
      /\ UNCHANGED <<leases, loaded, fill, uploads, at, goal, stamp, pending, groupEvent, active>>
  BY DEF ComputeStep, FinishCompute, lockVars, backVars, ringVars, holdVars
<1>3. FillsOutstanding' /\ Stamped' /\ PendingEvents'
  BY <1>2 DEF FillsOutstanding, Stamped, PendingEvents
<1>4. ASSUME NEW g \in Group, NEW i \in Nat, Waited(g, i + 1) PROVE Waited(g, i)'
  <2>1. CASE fill[g] = 0
    BY <1>2, <2>1 DEF Waited
  <2>2. ASSUME NEW j \in 1 .. Len(compute), j < i + 1, fill[g] <= compute[j].ticket, fill[g] # 0
        PROVE  Waited(g, i)'
    <3>1. j # 1
      BY <1>1, <2>2, Timely
    <3>2. j - 1 \in 1 .. Len(compute') /\ j - 1 < i /\ compute'[j - 1] = compute[j]
      BY <1>1, <2>2, <3>1
    <3> QED
      BY <1>2, <2>2, <3>2 DEF Waited
  <2> QED
    BY <1>4, <2>1, <2>2 DEF Waited
<1>5. ActiveWaited'
  BY <1>1, <1>2, <1>4, Timely DEF ActiveWaited, StreamWaits
<1>6. RunsProtected'
  <2> SUFFICES ASSUME NEW i \in 1 .. Len(compute'), compute'[i].kind = "run",
                      NEW g, g = compute'[i].group
               PROVE  /\ g \in loaded
                      /\ leases[g] > 0 \/ i <= released'[g]
                      /\ Waited(g, i)'
    BY <1>2 DEF RunsProtected
  <2>1. i + 1 \in 1 .. Len(compute) /\ i \in Nat /\ compute[i + 1] = compute'[i]
    BY <1>1
  <2>2. g \in loaded /\ g \in Group /\ (leases[g] > 0 \/ i + 1 <= released[g]) /\ Waited(g, i + 1)
    BY <2>1, Timely DEF RunsProtected
  <2> QED
    BY <1>2, <1>4, <2>1, <2>2, Timely DEF Closer
<1> QED
  BY <1>3, <1>5, <1>6

(* So does every step.                                                     *)
LEMMA NextOrdered ==
  ASSUME Basics, Basics', Claimed, Ordered, [Next]_vars
  PROVE  Ordered'
<1> USE DEF Ordered
<1>1. ASSUME NEW t \in Threads, Schedule(t) PROVE Ordered'
  BY <1>1, ScheduleOrdered
<1>2. CASE Run /\ UNCHANGED <<workVars, holdVars>>
  <2> DEFINE op == [kind |-> "run", group |-> cur, ticket |-> 0]
  <2>1. cur \in active /\ cur \in Group
    BY <1>2, Timely DEF Run, Move, Basics, Position
  <2>2. op \in Operation /\ Launch(op)
    BY <1>2, <2>1, Ranges DEF Run, Operation
  <2>3. cur \in loaded /\ leases[cur] > 0 /\ StreamWaits(cur)
    BY <2>1, ClaimLoads DEF ActiveWaited
  <2>4. UNCHANGED <<pending, groupEvent, active>>
    BY <1>2 DEF holdVars
  <2>5. FillsOutstanding' /\ Stamped' /\ PendingEvents' /\ ActiveWaited'
    BY <2>2, <2>4, LaunchWaits DEF FillsOutstanding, Stamped, PendingEvents, ActiveWaited
  <2>6. RunsProtected'
    BY <2>2, <2>3, LaunchKeepsRuns
  <2> QED
    BY <2>5, <2>6
<1>3. CASE Take
  <2> DEFINE op == [kind |-> "wait", group |-> cur, ticket |-> groupEvent[cur]]
  <2>1. cur \in pending /\ cur \in Group /\ fill[cur] <= groupEvent[cur]
    BY <1>3, Timely DEF Take, PendingEvents
  <2>2. op \in Operation /\ Launch(op)
    BY <1>3, <2>1 DEF Take, Operation, UploadEventOf, Basics, TypeOK, GroupsTypeOK
  <2>3. /\ pending' = pending \ {cur} /\ active' = active \cup {cur}
        /\ groupEvent' = [groupEvent EXCEPT ![cur] = 0]
    BY <1>3 DEF Take
  <2>4. ASSUME NEW g, g = cur PROVE StreamWaits(g)'
    <3>1. /\ Len(compute) + 1 \in 1 .. Len(compute') /\ Len(compute) + 1 < Len(compute') + 1
          /\ compute'[Len(compute) + 1] = op /\ fill' = fill
      BY <2>2, LaunchWaits, Timely
    <3>2. fill'[g] <= compute'[Len(compute) + 1].ticket
      BY <2>1, <2>4, <3>1
    <3> QED
      BY <3>1, <3>2 DEF StreamWaits, Waited
  <2>5. FillsOutstanding' /\ Stamped' /\ PendingEvents'
    BY <2>2, <2>3, LaunchWaits, Timely DEF FillsOutstanding, Stamped, PendingEvents
  <2>6. ActiveWaited'
    BY <1>3, <2>2, <2>3, <2>4, LaunchWaits DEF Take, Move, ActiveWaited
  <2>7. RunsProtected'
    BY <2>2, LaunchKeepsRuns, Timely
  <2> QED
    BY <2>5, <2>6, <2>7
<1>4. CASE Leave
  <2>1. UNCHANGED <<leases, loaded, fill, uploads, released, compute, at, goal, stamp, pending, groupEvent>>
          /\ active' \subseteq active
    BY <1>4 DEF Leave, gpuVars, arenaVars, lockVars, backVars, streamVars, ringVars
  <2> QED
    BY <2>1 DEF FillsOutstanding, Stamped, PendingEvents, ActiveWaited, StreamWaits, RunsProtected, Waited
<1>5. CASE Release /\ UNCHANGED <<workVars, holdVars>>
  BY <1>5, ReleaseOrdered DEF Release, Basics, Position, holdVars
<1>6. ASSUME NEW h \in Group, DetachDrain(h) PROVE Ordered'
  BY <1>6, ReleaseOrdered DEF DetachDrain
<1>7. CASE DetachClose /\ UNCHANGED <<workVars, holdVars>>
  <2>1. /\ \A g \in Group : leases[g] = 0 /\ released[g] = 0
        /\ UNCHANGED <<leases, fill, uploads, released, compute, at, goal, stamp>>
        /\ UNCHANGED <<pending, groupEvent, active>>
    BY <1>7 DEF DetachClose, CloseArena, Collected, lockVars, streamVars, ringVars, holdVars
  <2>2. FillsOutstanding' /\ Stamped' /\ PendingEvents' /\ ActiveWaited'
    BY <2>1 DEF FillsOutstanding, Stamped, PendingEvents, ActiveWaited, StreamWaits, Waited
  <2>3. RunsProtected'
    BY <2>1, Timely DEF RunsProtected
  <2> QED
    BY <2>2, <2>3
<1> QED
  BY <1>1, <1>2, <1>3, <1>4, <1>5, <1>6, <1>7, CalmSteps, CalmOrdered, UploadOrdered, ComputeOrdered
  DEF Next, MainStep, ArenaStep, Closed

(* At first nobody claims a group and the streams are empty.               *)
LEMMA InitClaimedOrdered == Init => Claimed /\ Ordered
<1> SUFFICES ASSUME Init PROVE Claimed /\ Ordered
  OBVIOUS
<1> USE GroupsAssumption DEF Init, RingInit, ArenaInit
<1>1. \A g \in Group : leases[g] = 0 /\ Claims(g) = 0
  BY DEF Claims, InHand, IsPending, IsInUse
<1>2. Claimed
  BY <1>1 DEF Claimed, Covered, ClaimsLoaded
<1>3. Ordered
  BY DEF Ordered, FillsOutstanding, Stamped, PendingEvents, ActiveWaited, StreamWaits, RunsProtected
<1> QED
  BY <1>2, <1>3

(* The conjunction of the argument above is an invariant: claims are       *)
(* leased and loaded, and the streams wait where they have to.             *)
THEOREM InvariantHolds == Spec => []IInv
<1>1. Init => IInv
  BY InitBasics, InitClaimedOrdered DEF IInv
<1>2. IInv /\ [Next]_vars => IInv'
  BY NextBasics, NextClaims, NextOrdered DEF IInv
<1> QED
  BY <1>1, <1>2, PTL DEF Spec

(* The kernels of a group run on weights that are in place and complete,   *)
(* for every interleaving of the hooks, the prefetch worker, the uploads   *)
(* and the kernels, whatever forwards are aborted or leave groups out.     *)
THEOREM KernelsSafe == Spec => []KernelsSeeLoadedWeights
<1>1. IInv => KernelsSeeLoadedWeights
  <2> SUFFICES ASSUME IInv, compute # <<>>, Head(compute).kind = "run"
               PROVE  Head(compute).group \in resident /\ fill[Head(compute).group] = 0
    BY DEF KernelsSeeLoadedWeights
  <2>1. 1 \in 1 .. Len(compute) /\ Head(compute) = compute[1]
    BY EmptySeq DEF IInv, Basics, TypeOK, ArenaTypeOK
  <2>2. compute[1].group \in loaded /\ Waited(compute[1].group, 1)
    BY <2>1 DEF IInv, Ordered, RunsProtected
  <2> QED
    BY <2>1, <2>2 DEF Waited, IInv, Basics, TypeOK, ArenaTypeOK
<1> QED
  BY <1>1, InvariantHolds, PTL

------------------------------------------------------------------------------
(* The runtime implements leasing *)

InPlace == {g \in loaded : fill[g] = 0}
Held    == {g \in Group : leases[g] > 0}
Started == {g \in Group : \E i \in DOMAIN compute :
              compute[i].kind = "run" /\ compute[i].group = g}

(* No two groups wait for the same copy: payloads land one at a time.      *)
FillsApart == \A g, h \in Group : fill[g] = fill[h] /\ fill[g] > 0 => g = h

(* What each kind of step does to leasing.                                 *)
Leasing ==
  \/ \E g \in Group :
       \/ InPlace' = InPlace \cup {g} /\ Held' = Held /\ Started' = Started
       \/ /\ InPlace' \in {InPlace, InPlace \cup {g}}
          /\ Held' = Held \cup {g} /\ Started' = Started
       \/ g \in Held /\ InPlace' = InPlace /\ Held' = Held /\ Started' = Started \cup {g}
       \/ /\ g \in Started \cap InPlace
          /\ InPlace' = InPlace /\ Held' = Held /\ Started' = Started \ {g}
       \/ InPlace' = InPlace /\ Held' = Held \ {g} /\ Started' = Started
  \/ \E G \in SUBSET Group :
       /\ G \cap (Held \cup Started) = {}
       /\ InPlace' = InPlace \ G /\ Held' = Held /\ Started' = Started
  \/ InPlace' = InPlace /\ Held' = Held /\ Started' = Started

LEMMA LeasingSteps ==
  ASSUME Leasing
  PROVE  [Residency!Next]_(Residency!vars)
<1>1. ASSUME NEW g \in Group, InPlace' = InPlace \cup {g}, Held' = Held, Started' = Started
      PROVE  Residency!Arrive(g)
  BY <1>1 DEF Residency!Arrive, InPlace, Held, Started
<1>2. ASSUME NEW g \in Group, InPlace' \in {InPlace, InPlace \cup {g}},
             Held' = Held \cup {g}, Started' = Started
      PROVE  Residency!Hold(g)
  BY <1>2 DEF Residency!Hold, InPlace, Held, Started
<1>3. ASSUME NEW g \in Group, g \in Held,
             InPlace' = InPlace, Held' = Held, Started' = Started \cup {g}
      PROVE  Residency!Start(g)
  BY <1>3 DEF Residency!Start, InPlace, Held, Started
<1>4. ASSUME NEW g \in Group, g \in Started \cap InPlace,
             InPlace' = InPlace, Held' = Held, Started' = Started \ {g}
      PROVE  Residency!Finish(g)
  BY <1>4 DEF Residency!Finish, InPlace, Held, Started
<1>5. ASSUME NEW g \in Group, InPlace' = InPlace, Held' = Held \ {g}, Started' = Started
      PROVE  Residency!Drop(g)
  BY <1>5 DEF Residency!Drop, InPlace, Held, Started
<1>6. ASSUME NEW G \in SUBSET Group, G \cap (Held \cup Started) = {},
             InPlace' = InPlace \ G, Held' = Held, Started' = Started
      PROVE  Residency!Remove(G)
  BY <1>6 DEF Residency!Remove, InPlace, Held, Started
<1>7. ASSUME InPlace' = InPlace, Held' = Held, Started' = Started
      PROVE  UNCHANGED Residency!vars
  BY <1>7 DEF Residency!vars, InPlace, Held, Started
<1> QED BY <1>1, <1>2, <1>3, <1>4, <1>5, <1>6, <1>7 DEF Leasing, Residency!Next

(* What the steps outside of the procedure leave alone.                    *)
LEMMA QuietSteps ==
  ASSUME Basics, [Next]_vars
  PROVE  \/ \E t \in Threads : Schedule(t)
         \/ UNCHANGED <<leases, loaded, fill, uploads, released, compute>>
         \/ Run /\ UNCHANGED <<workVars, holdVars>>
         \/ Take \/ (\E g \in Group : ReleaseGroup(g))
         \/ CloseArena
         \/ UploadStep \/ ComputeStep
<1>1. Calm => UNCHANGED <<leases, loaded, fill, uploads, released, compute>> BY DEF Calm
<1>2. Leave => UNCHANGED <<leases, loaded, fill, uploads, released, compute>>
  BY DEF Leave, gpuVars, arenaVars, lockVars, backVars, streamVars, ringVars
<1>3. Release => \E g \in Group : ReleaseGroup(g) BY DEF Release, Basics, Position
<1>4. \A g \in Group : DetachDrain(g) => ReleaseGroup(g) BY DEF DetachDrain
<1>5. DetachClose => CloseArena BY DEF DetachClose
<1> QED
  BY <1>1, <1>2, <1>3, <1>4, <1>5, CalmSteps DEF Next, MainStep, ArenaStep, Closed

LEMMA FillsStayApart ==
  ASSUME Basics, Ordered, FillsApart, [Next]_vars
  PROVE  FillsApart'
<1>1. ASSUME UNCHANGED fill PROVE FillsApart' BY <1>1 DEF FillsApart
<1>2. ASSUME NEW t \in Threads, Schedule(t) PROVE FillsApart'
  <2>1. CASE Fills(t)
    <3>1. \A g \in Group : fill[g] <= uploads /\ fill[g] \in Nat /\ uploads \in Nat
      BY Timely DEF Ordered, FillsOutstanding
    <3>2. \A g \in Group : fill'[g] = IF g = goal[t] THEN uploads + 1 ELSE fill[g]
      BY <2>1, Timely DEF Fills
    <3> QED BY <3>1, <3>2 DEF FillsApart
  <2> QED
    BY <1>1, <1>2, <2>1, ScheduleKinds
    DEF Moves, MakesRoom, Uploading, Gains, Publish, streamVars
<1>3. CASE UploadStep
  <2>1. \A g \in Group : fill[g] \in Nat /\ fill'[g] = Closer(fill[g])
    BY <1>3, Timely DEF UploadStep, FinishArenaUpload
  <2> QED BY <2>1 DEF FillsApart, Closer
<1> QED
  BY <1>1, <1>2, <1>3, QuietSteps
  DEF Run, Take, Launch, ReleaseGroup, CloseArena, ComputeStep, FinishCompute, streamVars

LEMMA StartedOf ==
  ASSUME Basics
  PROVE  \A g : g \in Started <=>
           g \in Group /\ \E i \in 1 .. Len(compute) : compute[i].kind = "run" /\ compute[i].group = g
<1>1. DOMAIN compute = 1 .. Len(compute) BY DEF Basics, TypeOK, ArenaTypeOK
<1> QED BY <1>1 DEF Started

LEMMA StartedNext ==
  ASSUME Basics'
  PROVE  \A g : g \in Started' <=>
           g \in Group /\ \E i \in 1 .. Len(compute') : compute'[i].kind = "run" /\ compute'[i].group = g
<1>1. DOMAIN compute' = 1 .. Len(compute') BY DEF Basics, TypeOK, ArenaTypeOK
<1> QED BY <1>1 DEF Started

(* A group that can be taken is neither held nor started.                  *)
LEMMA EvictableUnused ==
  ASSUME Basics, Ordered, NEW g \in Group, leases[g] = 0, released[g] = 0
  PROVE  g \notin Held \cup Started
<1>1. g \notin Held BY DEF Held
<1>2. ASSUME NEW i \in 1 .. Len(compute), compute[i].kind = "run", compute[i].group = g
      PROVE  FALSE
  <2>1. leases[g] > 0 \/ i <= released[g] BY <1>2 DEF Ordered, RunsProtected
  <2> QED BY <2>1, Timely
<1>3. g \notin Started BY <1>2, StartedOf
<1> QED BY <1>1, <1>3

LEMMA ScheduleLeases ==
  ASSUME Basics, Ordered, NEW t \in Threads, Schedule(t)
  PROVE  Leasing
<1>a. /\ Alone(t)
      /\ Moves(t) \/ MakesRoom(t) \/ Uploading(t) \/ Gains(t) \/ Publish(t)
      /\ goal[t] \in Group /\ fill \in [Group -> Nat] /\ uploads \in Nat
      /\ leases \in [Group -> Nat] /\ loaded \subseteq resident /\ resident \subseteq Group
  BY ScheduleKinds, Timely DEF Basics, TypeOK, ArenaTypeOK
<1>1. Started' = Started BY <1>a DEF Alone, Started
<1>2. UNCHANGED leases => Held' = Held BY DEF Held
<1>3. Fills(t) => \A g \in loaded : fill'[g] = fill[g] BY <1>a DEF Fills
<1>4. CASE Moves(t) \/ Publish(t)
  <2>1. UNCHANGED <<leases, loaded, fill>> BY <1>4 DEF Moves, Publish, lockVars, backVars, streamVars
  <2> QED BY <1>1, <1>2, <2>1 DEF Leasing, InPlace
<1>5. CASE MakesRoom(t)
  <2>1. UNCHANGED <<leases, fill>> /\ loaded' = loaded \cap resident' /\ resident \ resident' \subseteq Evictable
    BY <1>5 DEF MakesRoom
  <2> DEFINE G == resident \ resident'
  <2>2. InPlace' = InPlace \ G BY <1>a, <2>1 DEF InPlace
  <2>3. G \in SUBSET Group BY <1>a
  <2>4. \A g \in G : g \notin Held \cup Started BY <2>1, <2>3, EvictableUnused DEF Evictable
  <2>5. G \cap (Held \cup Started) = {} BY <2>4
  <2> QED BY <1>1, <1>2, <2>1, <2>2, <2>3, <2>5 DEF Leasing
<1>6. CASE Uploading(t)
  <2>1. InPlace' = InPlace /\ UNCHANGED leases BY <1>3, <1>6 DEF Uploading, InPlace
  <2> QED BY <1>1, <1>2, <2>1 DEF Leasing
<1>7. CASE Gains(t)
  <2>1. PICK g \in Group : g = goal[t] BY <1>a
  <2>2. \A h \in Group : leases'[h] = IF h = g THEN leases[h] + 1 ELSE leases[h]
    BY <1>7, <1>a, <2>1 DEF Gains
  <2>3. Held' = Held \cup {g} BY <1>a, <2>2 DEF Held
  <2>4. InPlace' \in {InPlace, InPlace \cup {g}}
    <3>1. CASE Fills(t)
      <4>1. fill'[g] = uploads + 1 /\ fill'[g] # 0 BY <1>a, <2>1, <3>1 DEF Fills
      <4>2. loaded' = loaded \cup {g} BY <1>7, <2>1 DEF Gains
      <4>3. InPlace' = InPlace BY <1>3, <3>1, <4>1, <4>2 DEF InPlace
      <4> QED BY <4>3
    <3>2. CASE UNCHANGED fill
      <4>1. loaded' = loaded \cup {g} BY <1>7, <2>1 DEF Gains
      <4>2. fill[g] = 0 => InPlace' = InPlace \cup {g} BY <3>2, <4>1 DEF InPlace
      <4>3. fill[g] # 0 => InPlace' = InPlace BY <3>2, <4>1 DEF InPlace
      <4> QED BY <4>2, <4>3
    <3> QED BY <1>7, <3>1, <3>2 DEF Gains
  <2> QED BY <1>1, <2>3, <2>4 DEF Leasing
<1> QED BY <1>a, <1>4, <1>5, <1>6, <1>7

LEMMA LaunchLeases ==
  ASSUME Basics, Basics', NEW op \in Operation, Launch(op),
         op.kind = "run" => leases[op.group] > 0
  PROVE  Leasing
<1>1. InPlace' = InPlace /\ Held' = Held BY LaunchWaits DEF InPlace, Held
<1>2. op.group \in Group BY DEF Operation
<1>3. Len(compute) \in Nat BY Timely
<1>4. ASSUME NEW g \in Group
      PROVE  g \in Started' <=> g \in Started \/ (op.kind = "run" /\ op.group = g)
  <2>1. ASSUME g \in Started PROVE g \in Started'
    <3>1. PICK i \in 1 .. Len(compute) : compute[i].kind = "run" /\ compute[i].group = g
      BY <2>1, StartedOf
    <3>2. i \in 1 .. Len(compute') /\ compute'[i] = compute[i] BY <1>3, LaunchWaits
    <3> QED BY <3>1, <3>2, StartedNext
  <2>2. ASSUME g \in Started' PROVE g \in Started \/ (op.kind = "run" /\ op.group = g)
    <3>1. PICK i \in 1 .. Len(compute') : compute'[i].kind = "run" /\ compute'[i].group = g
      BY <2>2, StartedNext
    <3>2. CASE i = Len(compute) + 1 BY <3>1, <3>2, LaunchWaits
    <3>3. CASE i # Len(compute) + 1
      <4>1. i \in 1 .. Len(compute) /\ compute'[i] = compute[i] BY <1>3, <3>3, LaunchWaits
      <4> QED BY <3>1, <4>1, StartedOf
    <3> QED BY <3>2, <3>3
  <2>3. ASSUME op.kind = "run", op.group = g PROVE g \in Started'
    <3>1. Len(compute) + 1 \in 1 .. Len(compute') /\ compute'[Len(compute) + 1] = op
      BY <1>3, LaunchWaits
    <3> QED BY <2>3, <3>1, StartedNext
  <2> QED BY <2>1, <2>2, <2>3
<1>5. Started \subseteq Group /\ Started' \subseteq Group BY DEF Started
<1>6. CASE op.kind = "run"
  <2>1. Started' = Started \cup {op.group} BY <1>2, <1>4, <1>5, <1>6
  <2>2. op.group \in Held BY <1>2, <1>6 DEF Held
  <2> QED BY <1>1, <1>2, <2>1, <2>2 DEF Leasing
<1>7. CASE op.kind # "run"
  <2>1. Started' = Started BY <1>4, <1>5, <1>7
  <2> QED BY <1>1, <2>1 DEF Leasing
<1> QED BY <1>6, <1>7

LEMMA ReleaseLeases ==
  ASSUME Basics, NEW g \in Group, ReleaseGroup(g)
  PROVE  Leasing
<1>1. InPlace' = InPlace /\ Started' = Started
  BY DEF ReleaseGroup, backVars, InPlace, Started
<1>2. leases \in [Group -> Nat] /\ leases[g] > 0 BY DEF Basics, TypeOK, ArenaTypeOK, ReleaseGroup
<1>3. \A h \in Group : leases'[h] = IF h = g THEN leases[h] - 1 ELSE leases[h]
  BY <1>2 DEF ReleaseGroup
<1>4. CASE leases[g] = 1
  <2>1. Held' = Held \ {g} BY <1>2, <1>3, <1>4 DEF Held
  <2> QED BY <1>1, <2>1 DEF Leasing
<1>5. CASE leases[g] # 1
  <2>1. leases'[g] > 0 BY <1>2, <1>3, <1>5
  <2>2. Held' = Held BY <1>2, <1>3, <2>1 DEF Held
  <2> QED BY <1>1, <2>2 DEF Leasing
<1> QED BY <1>4, <1>5

LEMMA CloseLeases ==
  ASSUME Basics, Ordered, CloseArena
  PROVE  Leasing
<1>1. /\ \A g \in Group : leases[g] = 0 /\ released[g] = 0
      /\ UNCHANGED <<leases, fill, compute>> /\ loaded' = {}
  BY DEF CloseArena, Collected, lockVars, streamVars
<1>2. Held' = Held /\ Started' = Started BY <1>1 DEF Held, Started
<1>3. InPlace' = InPlace \ Group
  BY <1>1 DEF InPlace, Basics, TypeOK, ArenaTypeOK
<1>4. Group \cap (Held \cup Started) = {} BY <1>1, EvictableUnused
<1> QED BY <1>2, <1>3, <1>4 DEF Leasing

LEMMA UploadLeases ==
  ASSUME Basics, Basics', FillsApart, UploadStep
  PROVE  Leasing
<1>1. /\ fill' = [g \in Group |-> Closer(fill[g])] /\ UNCHANGED <<leases, loaded>>
      /\ fill \in [Group -> Nat] /\ loaded \subseteq Group
  BY Timely DEF UploadStep, FinishArenaUpload, lockVars, backVars, Basics, TypeOK, ArenaTypeOK
<1>2. Held' = Held BY <1>1 DEF Held
<1>3. Started' = Started
  <2>1. DOMAIN compute = 1 .. Len(compute) /\ \A i \in 1 .. Len(compute) : compute[i] \in Operation
    BY DEF Basics, TypeOK, ArenaTypeOK
  <2>2. compute' = [i \in 1 .. Len(compute) |-> [compute[i] EXCEPT !.ticket = Closer(@)]]
    BY <2>1, Zenon DEF UploadStep, FinishArenaUpload
  <2>3. \A op \in Operation : LET nearer == [op EXCEPT !.ticket = Closer(@)]
                             IN  nearer.kind = op.kind /\ nearer.group = op.group
    BY DEF Operation
  <2>4. \A i \in 1 .. Len(compute) : compute'[i].kind = compute[i].kind
                                   /\ compute'[i].group = compute[i].group
    BY <2>1, <2>2, <2>3
  <2>5. DOMAIN compute' = 1 .. Len(compute) BY <2>2
  <2> QED BY <2>1, <2>4, <2>5 DEF Started
<1>4. CASE \E g \in loaded : fill[g] = 1
  <2>1. PICK g \in loaded : fill[g] = 1 BY <1>4
  <2>2. InPlace' = InPlace \cup {g} BY <1>1, <2>1 DEF InPlace, FillsApart, Closer
  <2> QED BY <1>1, <1>2, <1>3, <2>1, <2>2 DEF Leasing
<1>5. CASE ~ \E g \in loaded : fill[g] = 1
  <2>1. InPlace' = InPlace BY <1>1, <1>5 DEF InPlace, Closer
  <2> QED BY <1>2, <1>3, <2>1 DEF Leasing
<1> QED BY <1>4, <1>5

LEMMA ComputeLeases ==
  ASSUME Basics, Basics', Ordered, ComputeStep
  PROVE  Leasing
<1>1. /\ compute # <<>> /\ Len(compute) \in Nat \ {0} /\ Len(compute') = Len(compute) - 1
      /\ \A i \in 1 .. Len(compute') : compute'[i] = compute[i + 1]
      /\ compute[1] \in Operation
  <2>1. compute \in Seq(Operation) /\ compute # <<>> /\ compute' = Tail(compute)
    BY DEF Basics, TypeOK, ArenaTypeOK, ComputeStep, FinishCompute
  <2> QED BY <2>1, HeadTailProperties, EmptySeq
<1>2. UNCHANGED <<leases, loaded, fill>>
  BY DEF ComputeStep, FinishCompute, lockVars, backVars
<1>3. InPlace' = InPlace /\ Held' = Held BY <1>2 DEF InPlace, Held
<1>4. PICK op \in Operation : op = compute[1] BY <1>1
<1>5. ASSUME NEW g \in Group
      PROVE  g \in Started <=> g \in Started' \/ (op.kind = "run" /\ op.group = g)
  <2>1. ASSUME g \in Started' PROVE g \in Started
    <3>1. PICK i \in 1 .. Len(compute') : compute'[i].kind = "run" /\ compute'[i].group = g
      BY <2>1, StartedNext
    <3>2. i + 1 \in 1 .. Len(compute) /\ compute'[i] = compute[i + 1] BY <1>1
    <3> QED BY <3>1, <3>2, StartedOf
  <2>2. ASSUME g \in Started PROVE g \in Started' \/ (op.kind = "run" /\ op.group = g)
    <3>1. PICK i \in 1 .. Len(compute) : compute[i].kind = "run" /\ compute[i].group = g
      BY <2>2, StartedOf
    <3>2. CASE i = 1 BY <1>4, <3>1, <3>2
    <3>3. CASE i # 1
      <4>1. i - 1 \in 1 .. Len(compute') /\ (i - 1) + 1 = i BY <1>1, <3>3
      <4>2. compute'[i - 1] = compute[i] BY <1>1, <4>1
      <4> QED BY <3>1, <4>1, <4>2, StartedNext
    <3> QED BY <3>2, <3>3
  <2>3. 1 \in 1 .. Len(compute) BY <1>1
  <2>4. op.kind = "run" /\ op.group = g => g \in Started BY <1>4, <2>3, StartedOf
  <2> QED BY <2>1, <2>2, <2>4
<1>6. Started \subseteq Group /\ Started' \subseteq Group BY DEF Started
<1>7. CASE op.kind = "run"
  <2>1. op.group \in Group BY DEF Operation
  <2>2. op.group \in InPlace
    <3>1. 1 \in 1 .. Len(compute) BY <1>1
    <3>2. op.group \in loaded /\ Waited(op.group, 1) BY <1>4, <1>7, <3>1 DEF Ordered, RunsProtected
    <3> QED BY <3>2 DEF Waited, InPlace
  <2>3. Started' = Started \/ Started' = Started \ {op.group} BY <1>5, <1>6, <2>1
  <2>4. op.group \in Started BY <1>5, <1>7, <2>1
  <2> QED BY <1>3, <2>1, <2>2, <2>3, <2>4 DEF Leasing
<1>8. CASE op.kind # "run"
  <2>1. Started' = Started BY <1>5, <1>6, <1>8
  <2> QED BY <1>3, <2>1 DEF Leasing
<1> QED BY <1>7, <1>8

LEMMA StepLeases ==
  ASSUME Basics, Basics', Claimed, Ordered, FillsApart, [Next]_vars
  PROVE  Leasing
<1>1. UNCHANGED <<leases, loaded, fill, compute>> => Leasing
  BY DEF Leasing, InPlace, Held, Started
<1>2. CASE Run /\ UNCHANGED <<workVars, holdVars>>
  <2> DEFINE op == [kind |-> "run", group |-> cur, ticket |-> 0]
  <2>1. cur \in active /\ cur \in Group BY <1>2, Timely DEF Run, Move, Basics, Position
  <2>2. op \in Operation /\ Launch(op) BY <1>2, <2>1, Ranges DEF Run, Operation
  <2>3. leases[op.group] > 0 BY <2>1, ClaimLoads
  <2> QED BY <2>2, <2>3, LaunchLeases
<1>3. CASE Take
  <2> DEFINE op == [kind |-> "wait", group |-> cur, ticket |-> groupEvent[cur]]
  <2>1. cur \in Group BY <1>3, Timely DEF Take
  <2>2. op \in Operation /\ Launch(op)
    BY <1>3, <2>1 DEF Take, Operation, UploadEventOf, Basics, TypeOK, GroupsTypeOK
  <2> QED BY <2>2, LaunchLeases
<1> QED
  BY <1>1, <1>2, <1>3, QuietSteps, ScheduleLeases, ReleaseLeases, CloseLeases, UploadLeases, ComputeLeases

(* Hooks, worker, arena and streams together are leasing, seen through the *)
(* groups that are in place, leased and running: kernels start under a     *)
(* lease and find their weights, and what is in use is never taken, for    *)
(* every interleaving, and for forwards that raise or leave groups out.    *)
THEOREM LeasingImplemented == Spec => ImplementsResidency
<1>1. Init => Residency!Init
  <2> SUFFICES ASSUME Init PROVE Residency!Init OBVIOUS
  <2>1. Basics BY InitBasics
  <2>2. InPlace = {} /\ Held = {} BY DEF Init, ArenaInit, InPlace, Held
  <2>3. Len(compute) = 0 BY EmptySeq DEF Init, ArenaInit
  <2>4. Started = {}
    <3>1. \A g : g \notin Started BY <2>1, <2>3, StartedOf
    <3> QED BY <3>1
  <2> QED BY <2>2, <2>4 DEF Residency!Init, InPlace, Held, Started
<1>2. Init => FillsApart BY DEF Init, ArenaInit, FillsApart
<1>3. IInv /\ FillsApart /\ [Next]_vars => FillsApart' BY FillsStayApart DEF IInv
<1>4. IInv /\ IInv' /\ FillsApart /\ [Next]_vars => [Residency!Next]_(Residency!vars)
  BY StepLeases, LeasingSteps DEF IInv
<1> QED
  BY <1>1, <1>2, <1>3, <1>4, InvariantHolds, PTL DEF Spec, ImplementsResidency, Residency!Spec

==============================================================================
