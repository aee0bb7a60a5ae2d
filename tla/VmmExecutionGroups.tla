-------------------------- MODULE VmmExecutionGroups --------------------------
(***************************************************************************)
(* The vmm_runtime route: the weights of a model's execution groups (the   *)
(* blocks of its main ModuleList) are leased in the model arena just       *)
(* before the group runs and given back just after, while one worker       *)
(* thread reads and uploads the next group.                                *)
(*                                                                         *)
(* Two threads run the same scheduling procedure: "main", from the hooks   *)
(* that PyTorch calls around the model and around each group, and          *)
(* "worker", the one thread of the prefetch executor.  The upload and the  *)
(* compute stream advance on their own.                                    *)
(*                                                                         *)
(* The environment is the pipeline: it calls the model again and again,    *)
(* may drop the exception of a forward and call again, may leave groups    *)
(* out, and may detach the hook between two calls.                         *)
(*                                                                         *)
(* What an action leaves alone is said where the actions are put together, *)
(* in Schedule, WorkerStep and Next.                                       *)
(***************************************************************************)
EXTENDS VmmModelArena

CONSTANTS
  MaxAborts,   \* bound: forwards that an exception of the model itself ends
  MaxSkips     \* bound: times a forward leaves groups out

ASSUME GroupsAssumption ==
  Threads = {"main", "worker"} /\ MaxAborts \in Nat /\ MaxSkips \in Nat

VARIABLES
  pc,          \* where the main thread stands outside of scheduling
  cur,         \* the group the main thread is at, GroupCount past the last
  aborting,    \* the forward is unwinding an exception
  aborts,      \* forwards ended by the model's own exceptions so far
  skips,       \* times groups were left out so far
  executor,    \* _vmm_prefetch_executor is not None
  futures,     \* groups with an entry in _vmm_prefetch_futures
  task,        \* state of the latest prefetch submitted for each group
  queue,       \* prefetches that wait for the worker
  awaited,     \* futures that detach has still to wait for
  pending,     \* _vmm_pending_group_leases
  groupEvent,  \* _vmm_pending_group_events: ticket of the event of each group
  active       \* _vmm_active_group_leases

gpuVars    == <<arenaVars, ringVars>>
bounds     == <<aborts, skips>>
mainVars   == <<pc, cur, aborting, bounds>>
workVars   == <<executor, futures, task, queue, awaited>>
holdVars   == <<pending, groupEvent, active>>
vars       == <<gpuVars, mainVars, workVars, holdVars>>

Outside   == {"idle", "broken", "closed"}
Detaching == {"collect", "awaitAll", "shutdown", "drain", "close"}
MainLabel == Outside \cup Detaching \cup
  {"preForward", "forward", "await", "schedule", "take", "submit", "ahead",
   "inside", "leave", "release"}

GroupsTypeOK ==
  /\ pc         \in MainLabel
  /\ cur        \in 0 .. GroupCount
  /\ aborting   \in BOOLEAN
  /\ aborts     \in 0 .. MaxAborts
  /\ skips      \in 0 .. MaxSkips
  /\ executor   \in BOOLEAN
  /\ futures    \subseteq Group
  /\ task       \in [Group -> {"none", "queued", "running", "done", "failed"}]
  /\ queue      \in Seq(Group)
  /\ awaited    \subseteq Group
  /\ pending    \subseteq Group
  /\ groupEvent \in [Group -> Ticket]
  /\ active     \subseteq Group

TypeOK == RingTypeOK /\ ArenaTypeOK /\ GroupsTypeOK

Init ==
  /\ RingInit
  /\ ArenaInit
  /\ pc = "idle" /\ cur = 0 /\ aborting = FALSE /\ aborts = 0 /\ skips = 0
  /\ executor = (transport = "file")
  /\ futures = {} /\ queue = <<>> /\ awaited = {}
  /\ task = [g \in Group |-> "none"]
  /\ pending = {} /\ active = {}
  /\ groupEvent = [g \in Group |-> 0]

------------------------------------------------------------------------------
(* _schedule_vmm_execution_group, run by thread t *)

CallSchedule(t, g) ==
  /\ at[t] = "out"
  /\ GoTo(t, "check")
  /\ goal' = [goal EXCEPT ![t] = g]
  /\ UNCHANGED <<lockVars, backVars, streamVars, stamp, ringVars>>

Return(t, result) ==
  /\ at[t] = result
  /\ GoTo(t, "out")
  /\ UNCHANGED <<lockVars, backVars, streamVars, goal, stamp, ringVars>>

(* Nothing to do for a group that is held already; as a mutant, the        *)
(* pending leases are forgotten.                                           *)
HeldActive(g)  == g \in active
AlreadyHeld(g) == g \in pending \cup active

Check(t) ==
  /\ at[t] = "check"
  /\ GoTo(t, IF AlreadyHeld(goal[t]) THEN "ok" ELSE "acquire")
  /\ UNCHANGED <<lockVars, backVars, streamVars, goal, stamp, ringVars>>

(* mark_upload, without the arena lock: an event is recorded behind all    *)
(* uploads so far, the pool is asked whether an upload is active, and, in  *)
(* a step of its own, the active slot is retired.                          *)
Record(t) ==
  /\ at[t] = "record"
  /\ stamp' = [stamp EXCEPT ![t] = uploads]
  /\ GoTo(t, IF HasActiveUpload THEN "mark" ELSE "publish")
  /\ UNCHANGED <<lockVars, backVars, streamVars, goal, ringVars>>

Mark(t) ==
  /\ at[t] = "mark"
  /\ MarkUpload(stamp[t])
  /\ GoTo(t, "publish")
  /\ UNCHANGED <<lockVars, backVars, streamVars, goal, stamp>>

(* The active slot was retired meanwhile: the exception leaves the         *)
(* procedure after the lease was taken and before anybody keeps it.        *)
MarkFail(t) ==
  /\ at[t] = "mark"
  /\ ~HasActiveUpload
  /\ GoTo(t, "err")
  /\ UNCHANGED <<lockVars, backVars, streamVars, goal, stamp, ringVars>>

Publish(t) ==
  /\ at[t] = "publish"
  /\ pending'    = pending \cup {goal[t]}
  /\ groupEvent' = [groupEvent EXCEPT ![goal[t]] = stamp[t]]
  /\ stamp'      = [stamp EXCEPT ![t] = 0]
  /\ GoTo(t, "ok")
  /\ UNCHANGED <<lockVars, backVars, streamVars, goal, active, ringVars>>

Schedule(t) ==
  /\ \/ Publish(t)
     \/ /\ Check(t) \/ ArenaAcquire(t) \/ Record(t) \/ Mark(t) \/ MarkFail(t)
        /\ UNCHANGED holdVars
  /\ UNCHANGED <<mainVars, workVars>>

------------------------------------------------------------------------------
(* The prefetch worker takes a submitted group and schedules it. *)

WorkerStart ==
  /\ queue # <<>>
  /\ CallSchedule("worker", Head(queue))
  /\ queue' = Tail(queue)
  /\ task'  = [task EXCEPT ![Head(queue)] = "running"]

WorkerFinish(result, outcome) ==
  /\ Return("worker", result)
  /\ task' = [task EXCEPT ![goal["worker"]] = outcome]
  /\ UNCHANGED queue

WorkerStep ==
  /\ WorkerStart \/ WorkerFinish("ok", "done") \/ WorkerFinish("err", "failed")
  /\ UNCHANGED <<mainVars, executor, futures, awaited, holdVars>>

------------------------------------------------------------------------------
(* The main thread in a forward *)

Move(from, to) == pc = from /\ pc' = to /\ UNCHANGED <<cur, aborting, bounds>>

(* pre_forward of the hook schedules the first group.                      *)
StartForward == Move("idle", "preForward") /\ CallSchedule("main", 0)

PreForwardDone ==
  /\ pc = "preForward" /\ pc' = "forward"
  /\ Return("main", "ok")
  /\ cur' = 0
  /\ UNCHANGED <<aborting, bounds>>

(* What a scheduling call raises ends the forward.                         *)
ScheduleRaised ==
  /\ Move("preForward", "idle") \/ Move("schedule", "idle")
  /\ Return("main", "err")

(* The forward comes to group g, maybe leaving out the ones before it.     *)
Reach(g) ==
  /\ pc = "forward"
  /\ \/ g = cur /\ UNCHANGED skips
     \/ g > cur /\ skips < MaxSkips /\ skips' = skips + 1
  /\ cur' = g
  /\ UNCHANGED <<aborting, aborts>>

(* _enter_vmm_execution_group takes the future of the group, if there is   *)
(* one (as a mutant, never), or schedules the group itself.                *)
IgnoresFuture(g) == FALSE
HasFuture(g)     == g \in futures

EnterAwaiting(g) ==
  /\ Reach(g)
  /\ HasFuture(g)
  /\ pc' = "await"
  /\ futures' = futures \ {g}
  /\ UNCHANGED <<executor, task, queue, awaited, gpuVars, holdVars>>

EnterScheduling(g) ==
  /\ Reach(g)
  /\ ~HasFuture(g)
  /\ pc' = "schedule"
  /\ CallSchedule("main", g)

(* The result of a future: a value, or what the prefetch raised; as a      *)
(* mutant, nobody looks.                                                   *)
Finished(g)  == task[g] \in {"done", "failed"}
Succeeded(g) == task[g] = "done"

AwaitDone    == Move("await", "take") /\ Succeeded(cur)
AwaitRaised  == Move("await", "idle") /\ task[cur] = "failed"
ScheduleDone == Move("schedule", "take") /\ Return("main", "ok")

(* The pending lease becomes the active one, and the compute stream waits  *)
(* for the group's upload event (as a mutant, for nothing).                *)
NoEvent(g)       == 0
UploadEventOf(g) == groupEvent[g]

Take ==
  /\ Move("take", "submit")
  /\ cur \in pending \ active
  /\ Launch([kind |-> "wait", group |-> cur, ticket |-> UploadEventOf(cur)])
  /\ pending'    = pending \ {cur}
  /\ groupEvent' = [groupEvent EXCEPT ![cur] = 0]
  /\ active'     = active \cup {cur}
  /\ UNCHANGED workVars

(* _submit_vmm_file_prefetch: the next group is given to the worker if     *)
(* there is an executor and nobody has the group yet; without an executor  *)
(* the main thread schedules it.  As mutants, a group is skipped, or the   *)
(* first group follows the last.                                           *)
NextGroupSkipping == cur + 2
NextGroupAround   == (cur + 1) % GroupCount
NextGroup         == cur + 1

SubmitPrefetch ==
  /\ Move("submit", "inside")
  /\ executor /\ NextGroup \in Group
  /\ IF NextGroup \in futures \cup pending \cup active
       THEN UNCHANGED <<futures, task, queue>>
       ELSE /\ futures' = futures \cup {NextGroup}
            /\ task'    = [task EXCEPT ![NextGroup] = "queued"]
            /\ queue'   = Append(queue, NextGroup)
  /\ UNCHANGED <<executor, awaited, gpuVars, holdVars>>

SubmitInline ==
  /\ Move("submit", "ahead")
  /\ ~executor /\ NextGroup \in Group
  /\ CallSchedule("main", NextGroup)

SubmitNothing == Move("submit", "inside") /\ NextGroup \notin Group

AheadDone == Move("ahead", "inside") /\ Return("main", "ok")

(* What the pre hook raises still lets PyTorch call the post hook.         *)
AheadRaised ==
  /\ pc = "ahead" /\ pc' = "leave"
  /\ Return("main", "err")
  /\ aborting' = TRUE
  /\ UNCHANGED <<cur, bounds>>

(* The group's linears look their weights up under the arena lock and      *)
(* launch their kernels.                                                   *)
Run ==
  /\ Move("inside", "leave")
  /\ arenaLock = Nobody
  /\ Launch([kind |-> "run", group |-> cur, ticket |-> 0])

(* The group's own forward raises, before or after its kernels.            *)
GroupRaises ==
  /\ pc = "inside" \/ (pc = "leave" /\ ~aborting)
  /\ aborts < MaxAborts
  /\ pc' = "leave" /\ aborting' = TRUE /\ aborts' = aborts + 1
  /\ UNCHANGED <<cur, skips, gpuVars, workVars, holdVars>>

(* _leave_vmm_execution_group forgets the lease, then gives it back.       *)
Leave ==
  /\ Move("leave", "release")
  /\ active' = active \ {cur}
  /\ UNCHANGED <<gpuVars, workVars, pending, groupEvent>>

Release ==
  /\ pc = "release"
  /\ ReleaseGroup(cur)
  /\ \/ aborting /\ pc' = "idle" /\ cur' = cur
     \/ ~aborting /\ pc' = "forward" /\ cur' = cur + 1
  /\ aborting' = FALSE
  /\ UNCHANGED bounds

EndForward == Move("forward", "idle") /\ cur = GroupCount

(* An exception between two groups ends the forward, or it leaves out the  *)
(* groups that remain.                                                     *)
EndEarly ==
  /\ pc = "forward" /\ cur < GroupCount
  /\ \/ aborts < MaxAborts /\ aborts' = aborts + 1 /\ UNCHANGED skips
     \/ skips < MaxSkips /\ skips' = skips + 1 /\ UNCHANGED aborts
  /\ pc' = "idle"
  /\ UNCHANGED <<cur, aborting, gpuVars, workVars, holdVars>>

------------------------------------------------------------------------------
(* The main thread detaching the hook *)

(* The group hooks are removed.  A detach that raised may be called again. *)
Detach ==
  /\ \E from \in {"idle", "broken"} :
       Move(from, IF executor THEN "collect" ELSE "drain")
  /\ UNCHANGED <<gpuVars, workVars, holdVars>>

DetachCollect ==
  /\ Move("collect", "awaitAll")
  /\ awaited' = futures /\ futures' = {}
  /\ UNCHANGED executor

DetachAwait(g) ==
  /\ Move("awaitAll", "awaitAll")
  /\ g \in awaited /\ Succeeded(g)
  /\ awaited' = awaited \ {g}
  /\ UNCHANGED <<executor, futures>>

(* A prefetch that failed raises out of detach.                            *)
DetachAwaitRaised(g) ==
  /\ Move("awaitAll", "broken")
  /\ g \in awaited /\ task[g] = "failed"
  /\ awaited' = {}
  /\ UNCHANGED <<executor, futures>>

DetachAwaited == Move("awaitAll", "shutdown") /\ awaited = {}

(* executor.shutdown(wait=True)                                            *)
DetachShutdown ==
  /\ Move("shutdown", "drain")
  /\ queue = <<>> /\ at["worker"] = "out"
  /\ executor' = FALSE
  /\ UNCHANGED <<futures, awaited>>

(* Active leases are given back, then the pending ones, each once its      *)
(* upload is complete; as a mutant, only the active ones.                  *)
UndrainedActive == active
Undrained       == active \cup pending

DetachDrain(g) ==
  /\ Move("drain", "drain")
  /\ \/ g \in active
     \/ active = {} /\ g \in pending /\ groupEvent[g] = 0
  /\ ReleaseGroup(g)
  /\ active'  = active \ {g}
  /\ pending' = IF g \in active THEN pending ELSE pending \ {g}
  /\ UNCHANGED <<groupEvent, workVars>>

DetachDrained == Move("drain", "close") /\ Undrained = {}

DetachClose == Move("close", "closed") /\ CloseArena

(* VmmModelArena.close raises when a group still has a lease.              *)
DetachCloseRaised == Move("close", "broken") /\ \E g \in Group : leases[g] > 0

(* A closed runtime stays closed.                                          *)
Closed == pc = "closed" /\ UNCHANGED vars

------------------------------------------------------------------------------
(* The steps of the main thread, by what they leave alone: hooks that only *)
(* decide, hooks that also touch the arena, and the collection of futures. *)

HostStep ==
  /\ \/ AwaitDone \/ AwaitRaised \/ SubmitNothing \/ EndForward
     \/ DetachAwaited \/ DetachDrained \/ DetachCloseRaised
  /\ UNCHANGED <<gpuVars, workVars, holdVars>>

ArenaStep ==
  /\ \/ PreForwardDone \/ ScheduleRaised \/ ScheduleDone
     \/ \E g \in Group : EnterScheduling(g)
     \/ SubmitInline \/ AheadDone \/ AheadRaised \/ Run \/ Release \/ DetachClose
  /\ UNCHANGED <<workVars, holdVars>>

FuturesStep ==
  /\ \/ DetachCollect \/ DetachShutdown
     \/ \E g \in Group : DetachAwait(g) \/ DetachAwaitRaised(g)
  /\ UNCHANGED <<task, queue, gpuVars, holdVars>>

MainStep ==
  \/ HostStep \/ ArenaStep \/ FuturesStep
  \/ \E g \in Group : EnterAwaiting(g) \/ DetachDrain(g)
  \/ Take \/ SubmitPrefetch \/ Leave

(* The GPU *)

UploadStep ==
  /\ FinishArenaUpload
  /\ groupEvent' = [g \in Group |-> Closer(groupEvent[g])]
  /\ UNCHANGED <<mainVars, workVars, pending, active>>

ComputeStep == FinishCompute /\ UNCHANGED <<mainVars, workVars, holdVars>>

Next ==
  \/ \E t \in Threads : Schedule(t)
  \/ WorkerStep \/ MainStep
  \/ StartForward /\ UNCHANGED <<workVars, holdVars>>
  \/ GroupRaises \/ EndEarly \/ Detach
  \/ UploadStep \/ ComputeStep
  \/ Closed

(* Python threads and CUDA streams run on; nobody has to start a forward,  *)
(* to abort one, or to detach.                                             *)
Fairness ==
  /\ \A t \in Threads : WF_vars(Schedule(t))
  /\ WF_vars(WorkerStep) /\ WF_vars(MainStep)
  /\ WF_vars(UploadStep) /\ WF_vars(ComputeStep)

Spec == Init /\ [][Next]_vars /\ Fairness
------------------------------------------------------------------------------
(* Properties *)

(* When the compute stream reaches the kernels of a group, the group still *)
(* has its backing and every copy into it has landed: the wait on the      *)
(* upload event and the release event do their work even when the other    *)
(* thread is scheduling at the same time.                                  *)
KernelsSeeLoadedWeights ==
  compute # <<>> /\ Head(compute).kind = "run" =>
    Head(compute).group \in resident /\ fill[Head(compute).group] = 0

(* A thread that writes checkpoint bytes into a staging slot never writes  *)
(* under a copy that is still reading the slot.                            *)
SlotNotInFlight ==
  \A t \in Threads :
    at[t] = "stage" /\ HasActiveUpload => slotDma[activeSlot] = 0

(* The slot a thread took with begin_upload stays the active one until     *)
(* that thread's upload is marked by the allocator, and mark_upload still  *)
(* finds the slot that it asked about.  (A slot left active by a failed    *)
(* read is retired by whoever schedules next.)                             *)
FilledSlotStays ==
  \A t \in Threads :
    /\ at[t] \in {"stage", "nativeMark"} \/ (at[t] = "copy" /\ transport = "file") =>
         HasActiveUpload /\ activeSlot = TakenSlot
    /\ at[t] = "mark" => HasActiveUpload

(* Every lease the arena counts belongs to somebody who will give it back: *)
(* a thread on its way to publish it, the pending or the active leases, or *)
(* the main thread on its way to release it.                               *)
InHand(t, g) ==
  IF goal[t] = g /\ at[t] \in {"record", "mark", "publish"} THEN 1 ELSE 0
IsPending(g) == IF g \in pending THEN 1 ELSE 0
IsInUse(g)   == IF g \in active \/ (pc = "release" /\ cur = g) THEN 1 ELSE 0

Claims(g) == InHand("main", g) + InHand("worker", g) + IsPending(g) + IsInUse(g)

LeasesAccounted == \A g \in Group : leases[g] = Claims(g)

(* When the main thread is to make a group the active one, the group is    *)
(* pending and not active: it meets neither a KeyError nor the "entered    *)
(* while still active" error.                                              *)
TakesPendingGroup == pc = "take" => cur \in pending \ active

(* A budget that fits two groups is enough: no acquire gives up because    *)
(* the groups that are leased leave no room.                               *)
BudgetSuffices ==
  \A t \in Threads :
    Attempting(t) /\ retried[t] /\ goal[t] \notin loaded => Placements(goal[t]) # {}

(* The runtime never looks further ahead than the group after the current  *)
(* one.                                                                    *)
LooksOneAhead ==
  pc \in {"inside", "leave", "release"} =>
    \A g \in Group : leases[g] > 0 => g \in {cur, cur + 1}

(* Between two forwards of a runtime that is not detached nothing is       *)
(* outstanding: no lease is held and no prefetch is under way.             *)
RestsEmpty ==
  pc = "idle" => futures = {} /\ pending = {} /\ \A g \in Group : leases[g] = 0

(* The runtime seen as leasing: a group is in place once its payload has   *)
(* landed, and started while kernels of it are on the compute stream.      *)
Residency == INSTANCE WeightResidency WITH
  Groups  <- Group,
  inPlace <- {g \in loaded : fill[g] = 0},
  held    <- {g \in Group : leases[g] > 0},
  started <- {g \in Group : \E i \in DOMAIN compute :
                compute[i].kind = "run" /\ compute[i].group = g}

(* The two threads, the arena and the streams together keep what leasing   *)
(* promises.                                                               *)
ImplementsResidency == Residency!Spec

(* The threads never wait on each other for ever: whatever the main thread *)
(* does in a forward or in a detach, it gets back to its caller.           *)
MainReturns == (pc \notin Outside) ~> (pc \in Outside)

(* A detach, the first or a repeated one, ends with the runtime closed and *)
(* everything let go that forwards left behind, whatever groups they left  *)
(* out and wherever they were aborted: the worker is idle and no lease is  *)
(* held.  What may keep it from closing is a prefetch it waits for that    *)
(* failed, or a lease lost when marking its upload raised.                 *)
LetGo ==
  /\ pc = "closed"
  /\ queue = <<>> /\ at["worker"] = "out"
  /\ pending \cup active = {} /\ \A g \in Group : leases[g] = 0

PrefetchLost == pc = "awaitAll" /\ \E g \in awaited : task[g] = "failed"
LeaseLost    == \E g \in Group : leases[g] > Claims(g)

DetachLetsGo == (pc \in Detaching) ~> (LetGo \/ PrefetchLost \/ LeaseLost)

==============================================================================
