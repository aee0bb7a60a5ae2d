------------------------- MODULE VmmSchedule_proofs -------------------------
(***************************************************************************)
(* Who has which group: the prefetches of the worker and the steps of the  *)
(* main thread, for any number of groups and slots and any budget.         *)
(*                                                                         *)
(* Taken: the main thread finds the group it makes active among the        *)
(* pending ones, whatever forwards were aborted or left groups out.  A     *)
(* prefetch is owed to a future, or to the main thread that awaits it, as  *)
(* long as the worker has anything to do with it (Owing), and a prefetch   *)
(* that is done has left its group pending (Delivered).                    *)
(*                                                                         *)
(* Orderly: in forwards that run their groups in order, or fail on a read, *)
(* where the main thread stands says what each thread has (Phases).  From  *)
(* this the leases are exactly those claimed, one thread schedules at a    *)
(* time, so that nobody takes the active slot away from it (Marking), and  *)
(* the event of a slot is not behind any copy from it but the one about to *)
(* be marked (Covering).                                                   *)
(***************************************************************************)
EXTENDS VmmKernels_proofs, FiniteSetTheorems

(* The hook is attached and no detach has been tried.                      *)
Attached == pc \notin Detaching \cup {"broken", "closed"}

(* Groups whose prefetch somebody will look at.                            *)
Owed == futures \cup (IF pc = "await" THEN {cur} ELSE {})

(* What the worker has or will have is owed, once.                         *)
Owing ==
  /\ \A i, j \in 1 .. Len(queue) : queue[i] = queue[j] => i = j
  /\ \A i \in 1 .. Len(queue) : queue[i] \in Owed /\ task[queue[i]] = "queued"
  /\ at["worker"] # "out" => goal["worker"] \in Owed /\ task[goal["worker"]] = "running"

(* A prefetch that is done, or about to be, has left its group pending.    *)
Delivered ==
  /\ \A g \in Owed : task[g] = "done" => g \in pending
  /\ at["worker"] = "ok" => goal["worker"] \in pending

(* The main thread is inside of one group at most, and that is not owed.   *)
Inside1 == {"submit", "ahead", "inside", "leave"}

OneActive ==
  /\ active \subseteq {cur} /\ (active # {} => pc \in Inside1)
  /\ Owed \cap active = {}

(* It schedules the group it is at, or has found it.                       *)
Taking ==
  /\ pc = "await" => cur \in Group \ futures
  /\ pc \in {"schedule", "take"} => cur \notin futures
  /\ pc = "schedule" => goal["main"] = cur /\ (at["main"] = "ok" => cur \in pending)
  /\ pc = "take" => cur \in pending

Taken == Attached => Owing /\ Delivered /\ OneActive /\ Taking

------------------------------------------------------------------------------
(* What the scheduling procedure does to the leases that are published.    *)
LEMMA ScheduleDelivers ==
  ASSUME Basics, NEW t \in Threads, Schedule(t)
  PROVE  /\ UNCHANGED <<mainVars, workVars, goal, active>>
         /\ at[t] # "out" /\ \A u \in Threads : u # t => at'[u] = at[u]
         /\ pending \subseteq pending' /\ pending' \subseteq pending \cup {goal[t]}
         /\ at'[t] = "ok" => goal[t] \in pending' \cup active
<1>a. /\ Alone(t)
      /\ Moves(t) \/ MakesRoom(t) \/ Uploading(t) \/ Gains(t) \/ Publish(t)
      /\ at \in [Threads -> Label]
  BY ScheduleKinds, Timely
<1>1. UNCHANGED <<mainVars, workVars>> BY DEF Schedule
<1>2. at[t] # "out"
  BY DEF Schedule, Publish, Check, ArenaAcquire, Record, Mark, MarkFail, PrefetchLoaded, PrefetchPlace,
         PrefetchNoRoom, Begin, Stage, Copy, NativeMark, Attempting
<1>3. at'[t] = "ok" => Publish(t) \/ (Check(t) /\ AlreadyHeld(goal[t]) /\ UNCHANGED holdVars)
  BY <1>a
  DEF Schedule, Publish, Check, ArenaAcquire, Record, Mark, MarkFail, PrefetchLoaded, PrefetchPlace,
      PrefetchNoRoom, Begin, Stage, Copy, NativeMark, Grant, Refuse, GoTo
<1>4. pending \subseteq pending' /\ pending' \subseteq pending \cup {goal[t]}
  BY DEF Schedule, Publish, holdVars
<1>5. at'[t] = "ok" => goal[t] \in pending' \cup active
  BY <1>3 DEF Publish, AlreadyHeld, holdVars
<1> QED BY <1>a, <1>1, <1>2, <1>4, <1>5 DEF Alone

LEMMA ScheduleTaken ==
  ASSUME Basics, Taken, NEW t \in Threads, Schedule(t)
  PROVE  Taken'
<1> SUFFICES ASSUME Attached' PROVE Owing' /\ Delivered' /\ OneActive' /\ Taking'
  BY DEF Taken
<1>a. /\ UNCHANGED <<pc, cur, futures, task, queue, goal, active>>
      /\ at[t] # "out" /\ \A u \in Threads : u # t => at'[u] = at[u]
      /\ pending \subseteq pending' /\ (at'[t] = "ok" => goal[t] \in pending' \cup active)
      /\ Threads = {"main", "worker"}
  BY ScheduleDelivers, GroupsAssumption DEF mainVars, workVars
<1>b. Owing /\ Delivered /\ OneActive /\ Taking /\ Attached
  BY <1>a DEF Taken, Attached
<1>1. Owing' BY <1>a, <1>b DEF Owing, Owed
<1>2. Delivered' BY <1>a, <1>b DEF Delivered, Owing, OneActive, Owed
<1>3. OneActive' BY <1>a, <1>b DEF OneActive, Owed
<1>4. Taking' BY <1>a, <1>b DEF Taking, OneActive, Inside1
<1> QED BY <1>1, <1>2, <1>3, <1>4

LEMMA WorkerTaken ==
  ASSUME Basics, Taken, WorkerStep
  PROVE  Taken'
<1> SUFFICES ASSUME Attached' PROVE Owing' /\ Delivered' /\ OneActive' /\ Taking'
  BY DEF Taken
<1>a. /\ UNCHANGED <<pc, cur, futures, pending, active>>
      /\ "main" \in Threads /\ "worker" \in Threads
  BY GroupsAssumption DEF WorkerStep, mainVars, holdVars
<1>b. Owing /\ Delivered /\ OneActive /\ Taking /\ Attached
  BY <1>a DEF Taken, Attached
<1>c. /\ at \in [Threads -> Label] /\ goal \in [Threads -> Group] /\ queue \in Seq(Group)
      /\ task \in [Group -> {"none", "queued", "running", "done", "failed"}]
      /\ Len(queue) \in Nat
  BY DEF Basics, TypeOK, ArenaTypeOK, GroupsTypeOK
<1>1. at'["main"] = at["main"] /\ goal'["main"] = goal["main"]
  BY <1>a, <1>c DEF WorkerStep, WorkerStart, WorkerFinish, CallSchedule, Return, GoTo
<1>2. OneActive' /\ Taking' BY <1>a, <1>b, <1>1 DEF OneActive, Taking, Owed
<1>3. CASE WorkerStart
  <2>1. /\ queue # <<>> /\ at["worker"] = "out"
        /\ at'["worker"] = "check" /\ goal'["worker"] = queue[1]
        /\ task' = [task EXCEPT ![queue[1]] = "running"]
        /\ Len(queue) > 0 /\ Len(queue') = Len(queue) - 1
        /\ \A i \in 1 .. Len(queue') : queue'[i] = queue[i + 1]
        /\ queue[1] \in Group
    BY <1>3, <1>a, <1>c, HeadTailProperties, EmptySeq DEF WorkerStart, CallSchedule, GoTo
  <2>2. queue[1] \in Owed BY <1>b, <1>c, <2>1 DEF Owing
  <2>3. \A i \in 1 .. Len(queue') :
          i + 1 \in 1 .. Len(queue) /\ queue'[i] = queue[i + 1] /\ queue'[i] # queue[1]
          /\ queue'[i] \in Group
    BY <1>b, <1>c, <2>1 DEF Owing
  <2>4. \A i, j \in 1 .. Len(queue') : queue'[i] = queue'[j] => i = j
    <3> SUFFICES ASSUME NEW i \in 1 .. Len(queue'), NEW j \in 1 .. Len(queue'), queue'[i] = queue'[j]
                 PROVE  i = j
      OBVIOUS
    <3>1. queue[i + 1] = queue[j + 1] /\ i + 1 \in 1 .. Len(queue) /\ j + 1 \in 1 .. Len(queue)
      BY <2>3
    <3>2. i + 1 = j + 1 BY <1>b, <3>1 DEF Owing
    <3> QED BY <3>2
  <2>5. \A i \in 1 .. Len(queue') : queue'[i] \in Owed /\ task'[queue'[i]] = "queued"
    BY <1>b, <1>c, <2>1, <2>3 DEF Owing
  <2>6. Owing' BY <1>a, <1>c, <2>1, <2>2, <2>4, <2>5 DEF Owing, Owed
  <2>7. Delivered' BY <1>a, <1>b, <1>c, <2>1 DEF Delivered, Owed
  <2> QED BY <1>2, <2>6, <2>7
<1>4. ASSUME NEW outcome \in {"done", "failed"}, NEW result \in {"ok", "err"},
             outcome = "done" => result = "ok", WorkerFinish(result, outcome)
      PROVE  Owing' /\ Delivered' /\ OneActive' /\ Taking'
  <2>1. /\ at["worker"] = result /\ at'["worker"] = "out" /\ queue' = queue
        /\ task' = [task EXCEPT ![goal["worker"]] = outcome]
        /\ goal["worker"] \in Group
    BY <1>4, <1>a, <1>c DEF WorkerFinish, Return, GoTo
  <2>2. task[goal["worker"]] = "running" BY <1>b, <2>1 DEF Owing
  <2>3. \A i \in 1 .. Len(queue) : queue[i] \in Group BY <1>c
  <2>4. Owing' BY <1>a, <1>b, <1>c, <2>1, <2>2, <2>3 DEF Owing, Owed
  <2>5. Owed \subseteq Group
    BY <1>b DEF Basics, TypeOK, GroupsTypeOK, Owed, Taking
  <2>6. Delivered' BY <1>a, <1>b, <1>c, <1>4, <2>1 DEF Delivered, Owed
  <2> QED BY <1>2, <2>4, <2>6
<1> QED BY <1>3, <1>4 DEF WorkerStep

(* Steps that leave futures, tasks and leases where they are, and change   *)
(* neither what the main thread awaits nor what it takes.                  *)
Drifts ==
  /\ UNCHANGED <<futures, task, queue, pending, active>>
  /\ at'["worker"] = at["worker"] /\ goal'["worker"] = goal["worker"]
  /\ pc # "await" /\ pc' \notin {"await", "schedule", "take"}
  /\ pc \in Inside1 => pc' \in Inside1 /\ cur' = cur
  /\ Attached

LEMMA DriftsTaken ==
  ASSUME Taken, Drifts
  PROVE  Taken'
BY DEF Taken, Drifts, Owing, Delivered, OneActive, Taking, Owed

(* Every other step, as far as the argument is concerned.                  *)
LEMMA MainSteps ==
  ASSUME Basics, [Next]_vars
  PROVE  \/ (\E t \in Threads : Schedule(t)) \/ WorkerStep \/ Drifts
         \/ UNCHANGED <<pc, cur, at, goal, futures, task, queue, pending, active>>
         \/ ~Attached'
         \/ AwaitDone /\ UNCHANGED <<gpuVars, workVars, holdVars>>
         \/ AwaitRaised /\ UNCHANGED <<gpuVars, workVars, holdVars>>
         \/ ScheduleDone /\ UNCHANGED <<workVars, holdVars>>
         \/ \E g \in Group : EnterAwaiting(g)
         \/ \E g \in Group : EnterScheduling(g) /\ UNCHANGED <<workVars, holdVars>>
         \/ Take \/ SubmitPrefetch \/ Leave
<1>a. "main" \in Threads /\ "worker" \in Threads /\ at \in [Threads -> Label]
      /\ goal \in [Threads -> Group]
  BY GroupsAssumption, Timely
<1>1. UploadStep \/ ComputeStep \/ UNCHANGED vars =>
        UNCHANGED <<pc, cur, at, goal, futures, task, queue, pending, active>>
  BY DEF UploadStep, ComputeStep, FinishArenaUpload, FinishCompute, mainVars, workVars, holdVars, vars,
         gpuVars, arenaVars
<1>2. ASSUME SubmitNothing \/ EndForward, UNCHANGED <<gpuVars, workVars, holdVars>> PROVE Drifts
  BY <1>2 DEF SubmitNothing, EndForward, Move, Drifts, Attached, Detaching, Inside1, gpuVars, arenaVars,
             workVars, holdVars
<1>3. ASSUME DetachAwaited \/ DetachDrained \/ DetachCloseRaised \/ FuturesStep \/ Detach \/ DetachClose
             \/ (\E g \in Group : DetachDrain(g))
      PROVE  ~Attached'
  BY <1>3 DEF DetachAwaited, DetachDrained, DetachCloseRaised, FuturesStep, DetachCollect, DetachShutdown,
             DetachAwait, DetachAwaitRaised, Detach, DetachClose, DetachDrain, Move, Attached, Detaching
<1>4. ASSUME PreForwardDone \/ ScheduleRaised \/ SubmitInline \/ AheadDone \/ AheadRaised \/ Run \/ Release,
             UNCHANGED <<workVars, holdVars>>
      PROVE  Drifts
  <2>1. at'["worker"] = at["worker"] /\ goal'["worker"] = goal["worker"]
    BY <1>4, <1>a DEF PreForwardDone, ScheduleRaised, SubmitInline, AheadDone, AheadRaised, Run, Release,
       CallSchedule, Return, GoTo, Launch, ReleaseGroup
  <2> QED
    BY <1>4, <2>1 DEF PreForwardDone, ScheduleRaised, SubmitInline, AheadDone, AheadRaised, Run, Release,
       Move, Drifts, Attached, Detaching, Inside1, workVars, holdVars
<1>5. ASSUME StartForward, UNCHANGED <<workVars, holdVars>> PROVE Drifts
  <2>1. at'["worker"] = at["worker"] /\ goal'["worker"] = goal["worker"]
    BY <1>5, <1>a DEF StartForward, CallSchedule, GoTo
  <2> QED
    BY <1>5, <2>1 DEF StartForward, Move, Drifts, Attached, Detaching, Inside1, workVars, holdVars
<1>6. ASSUME GroupRaises \/ EndEarly PROVE Drifts
  BY <1>6 DEF GroupRaises, EndEarly, Drifts, Attached, Detaching, Inside1, gpuVars, arenaVars,
             workVars, holdVars
<1> QED
  BY <1>1, <1>2, <1>3, <1>4, <1>5, <1>6 DEF Next, MainStep, HostStep, ArenaStep, Closed

LEMMA NextTaken ==
  ASSUME Basics, Taken, [Next]_vars
  PROVE  Taken'
<1>a. "main" \in Threads /\ "worker" \in Threads /\ at \in [Threads -> Label]
      /\ goal \in [Threads -> Group] /\ queue \in Seq(Group) /\ Len(queue) \in Nat
      /\ futures \subseteq Group /\ cur \in 0 .. GroupCount
      /\ task \in [Group -> {"none", "queued", "running", "done", "failed"}]
  BY GroupsAssumption, Timely, SMTT(30) DEF Basics, TypeOK, GroupsTypeOK
<1>b. Taken /\ Attached => Owing /\ Delivered /\ OneActive /\ Taking BY DEF Taken
<1>1. CASE UNCHANGED <<pc, cur, at, goal, futures, task, queue, pending, active>>
  BY <1>1 DEF Taken, Attached, Owing, Delivered, OneActive, Taking, Owed
<1>2. CASE ~Attached' BY <1>2 DEF Taken
<1>3. CASE (AwaitDone \/ AwaitRaised) /\ UNCHANGED <<gpuVars, workVars, holdVars>>
  <2>1. /\ pc = "await" /\ pc' \in {"take", "idle"} /\ cur' = cur
        /\ task[cur] \in {"done", "failed"} /\ (pc' = "take" => task[cur] = "done")
        /\ UNCHANGED <<at, goal, futures, task, queue, pending, active>>
    BY <1>3 DEF AwaitDone, AwaitRaised, Succeeded, Move, gpuVars, arenaVars, workVars, holdVars
  <2>2. Owing /\ Delivered /\ OneActive /\ Taking
    BY <1>b, <2>1 DEF Attached, Detaching
  <2>3. Owed' = futures /\ Owed = futures \cup {cur} BY <2>1 DEF Owed
  <2>4. Owing' BY <2>1, <2>2, <2>3 DEF Owing
  <2>5. Delivered' /\ OneActive' BY <2>1, <2>2, <2>3 DEF Delivered, OneActive, Inside1
  <2>6. Taking' BY <2>1, <2>2, <2>3 DEF Taking, Delivered
  <2> QED BY <2>4, <2>5, <2>6 DEF Taken
<1>4. CASE ScheduleDone /\ UNCHANGED <<workVars, holdVars>>
  <2>1. /\ pc = "schedule" /\ pc' = "take" /\ cur' = cur /\ at["main"] = "ok"
        /\ at'["worker"] = at["worker"] /\ goal' = goal
        /\ UNCHANGED <<futures, task, queue, pending, active>>
    BY <1>4, <1>a DEF ScheduleDone, Move, Return, GoTo, workVars, holdVars
  <2>2. Owing /\ Delivered /\ OneActive /\ Taking
    BY <1>b, <2>1 DEF Attached, Detaching
  <2> QED BY <2>1, <2>2 DEF Taken, Owing, Delivered, OneActive, Taking, Owed, Inside1
<1>5. ASSUME NEW g \in Group, EnterAwaiting(g) PROVE Taken'
  <2>1. /\ pc = "forward" /\ pc' = "await" /\ cur' = g /\ g \in futures /\ futures' = futures \ {g}
        /\ UNCHANGED <<at, goal, task, queue, pending, active>>
    BY <1>5 DEF EnterAwaiting, Reach, HasFuture, gpuVars, arenaVars, holdVars
  <2>2. Owing /\ Delivered /\ OneActive /\ Taking
    BY <1>b, <2>1 DEF Attached, Detaching
  <2>3. Owed' = Owed BY <2>1 DEF Owed
  <2>4. Owing' /\ Delivered' BY <2>1, <2>2, <2>3 DEF Owing, Delivered
  <2>5. OneActive' /\ Taking' BY <2>1, <2>2, <2>3 DEF OneActive, Taking, Inside1
  <2> QED BY <2>4, <2>5 DEF Taken
<1>6. ASSUME NEW g \in Group, EnterScheduling(g), UNCHANGED <<workVars, holdVars>> PROVE Taken'
  <2>1. /\ pc = "forward" /\ pc' = "schedule" /\ cur' = g /\ g \notin futures
        /\ at'["worker"] = at["worker"] /\ goal'["worker"] = goal["worker"]
        /\ at'["main"] = "check" /\ goal'["main"] = g
        /\ UNCHANGED <<futures, task, queue, pending, active>>
    BY <1>6, <1>a DEF EnterScheduling, Reach, HasFuture, CallSchedule, GoTo, workVars, holdVars
  <2>2. Owing /\ Delivered /\ OneActive /\ Taking
    BY <1>b, <2>1 DEF Attached, Detaching
  <2>3. Owed' = futures /\ Owed = futures BY <2>1 DEF Owed
  <2>4. Owing' /\ Delivered' BY <2>1, <2>2, <2>3 DEF Owing, Delivered
  <2>5. OneActive' /\ Taking' BY <2>1, <2>2, <2>3 DEF OneActive, Taking, Inside1
  <2> QED BY <2>4, <2>5 DEF Taken
<1>7. CASE Take
  <2>1. /\ pc = "take" /\ pc' = "submit" /\ cur' = cur
        /\ pending' = pending \ {cur} /\ active' = active \cup {cur}
        /\ UNCHANGED <<at, goal, futures, task, queue>>
    BY <1>7 DEF Take, Move, Launch, workVars
  <2>2. Owing /\ Delivered /\ OneActive /\ Taking
    BY <1>b, <2>1 DEF Attached, Detaching
  <2>3. Owed' = futures /\ Owed = futures /\ cur \notin futures BY <2>1, <2>2 DEF Owed, Taking
  <2>4. Owing' BY <2>1, <2>2, <2>3 DEF Owing
  <2>5. Delivered' BY <2>1, <2>2, <2>3 DEF Delivered, Owing
  <2>6. OneActive' /\ Taking' BY <2>1, <2>2, <2>3 DEF OneActive, Taking, Inside1
  <2> QED BY <2>4, <2>5, <2>6 DEF Taken
<1>8. CASE SubmitPrefetch
  <2>1. /\ pc = "submit" /\ pc' = "inside" /\ cur' = cur
        /\ UNCHANGED <<at, goal, pending, active>>
    BY <1>8 DEF SubmitPrefetch, Move, gpuVars, arenaVars, holdVars
  <2>2. Owing /\ Delivered /\ OneActive /\ Taking
    BY <1>b, <2>1 DEF Attached, Detaching
  <2>3. CASE UNCHANGED <<futures, task, queue>>
    BY <2>1, <2>2, <2>3 DEF Taken, Owing, Delivered, OneActive, Taking, Owed, Inside1
  <2>4. ASSUME NEW n \in Group, n \notin futures \cup pending \cup active,
               futures' = futures \cup {n}, task' = [task EXCEPT ![n] = "queued"], queue' = Append(queue, n)
        PROVE  Taken'
    <3>1. Owed' = Owed \cup {n} /\ n \notin Owed BY <2>1, <2>4 DEF Owed
    <3>2. /\ Len(queue') = Len(queue) + 1 /\ queue'[Len(queue) + 1] = n
          /\ \A i \in 1 .. Len(queue) : queue'[i] = queue[i] /\ queue[i] # n /\ queue[i] \in Group
      BY <1>a, <2>2, <2>4, <3>1 DEF Owing
    <3>3. \A g \in Group : task'[g] = IF g = n THEN "queued" ELSE task[g] BY <1>a, <2>4
    <3>4. \A i, j \in 1 .. Len(queue') : queue'[i] = queue'[j] => i = j
      <4> SUFFICES ASSUME NEW i \in 1 .. Len(queue'), NEW j \in 1 .. Len(queue'), queue'[i] = queue'[j]
                   PROVE  i = j
        OBVIOUS
      <4>1. CASE i \in 1 .. Len(queue) /\ j \in 1 .. Len(queue)
        <5>1. queue[i] = queue[j] BY <3>2, <4>1
        <5> QED BY <2>2, <4>1, <5>1 DEF Owing
      <4>2. CASE i = Len(queue) + 1 \/ j = Len(queue) + 1 BY <1>a, <3>2, <4>2
      <4> QED BY <1>a, <3>2, <4>1, <4>2
    <3>5. \A i \in 1 .. Len(queue') : queue'[i] \in Owed' /\ task'[queue'[i]] = "queued"
      <4> SUFFICES ASSUME NEW i \in 1 .. Len(queue')
                   PROVE  queue'[i] \in Owed' /\ task'[queue'[i]] = "queued"
        OBVIOUS
      <4>1. CASE i = Len(queue) + 1 BY <3>1, <3>2, <3>3, <4>1
      <4>2. CASE i # Len(queue) + 1
        <5>1. i \in 1 .. Len(queue) BY <1>a, <3>2, <4>2
        <5> QED BY <2>2, <3>1, <3>2, <3>3, <5>1 DEF Owing
      <4> QED BY <4>1, <4>2
    <3>6. Owing' BY <1>a, <2>1, <2>2, <3>1, <3>3, <3>4, <3>5 DEF Owing
    <3>7. Owed \subseteq Group BY <1>a, <2>1 DEF Owed
    <3>8. Delivered' BY <1>a, <2>1, <2>2, <3>1, <3>3, <3>7 DEF Delivered
    <3>9. OneActive' /\ Taking' BY <2>1, <2>2, <2>4, <3>1 DEF OneActive, Taking, Inside1
    <3> QED BY <3>6, <3>8, <3>9 DEF Taken
  <2> QED BY <1>8, <2>3, <2>4 DEF SubmitPrefetch
<1>9. CASE Leave
  <2>1. /\ pc = "leave" /\ pc' = "release" /\ cur' = cur /\ active' = active \ {cur}
        /\ UNCHANGED <<at, goal, futures, task, queue, pending>>
    BY <1>9 DEF Leave, Move, gpuVars, arenaVars, workVars
  <2>2. Owing /\ Delivered /\ OneActive /\ Taking
    BY <1>b, <2>1 DEF Attached, Detaching
  <2>3. active' = {} BY <2>1, <2>2 DEF OneActive
  <2> QED BY <2>1, <2>2, <2>3 DEF Taken, Owing, Delivered, OneActive, Taking, Owed
<1> QED
  BY <1>1, <1>2, <1>3, <1>4, <1>5, <1>6, <1>7, <1>8, <1>9, MainSteps, ScheduleTaken, WorkerTaken,
     DriftsTaken

LEMMA InitTaken == Init => Taken
<1> SUFFICES ASSUME Init PROVE Taken OBVIOUS
<1>1. Len(queue) = 0 BY EmptySeq DEF Init
<1>2. at["worker"] = "out" /\ pc = "idle" BY GroupsAssumption DEF Init, ArenaInit
<1> QED BY <1>1, <1>2 DEF Init, Taken, Owing, Delivered, OneActive, Taking, Owed

(* When the main thread makes a group the active one, the group's lease is *)
(* pending and not active, whatever forwards raised or left groups out     *)
(* before: neither the KeyError nor the "still active" error is reached.   *)
THEOREM GroupsAreTaken == Spec => []TakesPendingGroup
<1>1. Basics /\ Taken /\ [Next]_vars => Taken' BY NextTaken
<1>2. Taken => TakesPendingGroup
  BY DEF Taken, Taking, OneActive, TakesPendingGroup, Attached, Detaching, Inside1
<1>3. Basics /\ [Next]_vars => Basics' BY NextBasics
<1> QED BY InitBasics, InitTaken, <1>1, <1>2, <1>3, PTL DEF Spec

------------------------------------------------------------------------------
(* Forwards that run to their end, or fail on a read, and leave no group   *)
(* out.                                                                    *)
RegularForwards == MaxAborts = 0 /\ MaxSkips = 0

WorkerFree == at["worker"] = "out" /\ queue = <<>>
NobodyHas  == futures = {} /\ pending = {} /\ WorkerFree

(* How far the prefetch of group u is.                                     *)
PrefetchOf(u) ==
  /\ pending \in {{}, {u}}
  /\ \/ task[u] = "queued" /\ queue = <<u>> /\ at["worker"] = "out" /\ pending = {}
     \/ /\ task[u] = "running" /\ queue = <<>> /\ at["worker"] # "out" /\ goal["worker"] = u
        /\ pending = {u} <=> at["worker"] = "ok"
     \/ task[u] = "done" /\ WorkerFree /\ pending = {u}
     \/ task[u] = "failed" /\ WorkerFree /\ pending = {}

(* Group u is the next one: its prefetch is under way, or it is pending    *)
(* already; past the last group there is none.                             *)
Line(u) ==
  \/ u = GroupCount /\ NobodyHas
  \/ u \in Group /\ futures = {u} /\ PrefetchOf(u)
  \/ u \in Group /\ futures = {} /\ pending = {u} /\ WorkerFree

(* Who has what, by where the main thread stands.                          *)
Phases ==
  /\ pc \in Outside \cup Detaching => NobodyHas /\ active = {}
  /\ pc = "preForward" =>
       /\ futures = {} /\ active = {} /\ WorkerFree /\ goal["main"] = 0
       /\ pending = IF at["main"] = "ok" THEN {0} ELSE {}
  /\ pc = "forward" => Line(cur) /\ active = {}
  /\ pc = "await" => cur \in Group /\ futures = {} /\ PrefetchOf(cur) /\ active = {}
  /\ pc \in {"schedule", "take"} =>
       cur \in Group /\ futures = {} /\ pending = {cur} /\ WorkerFree /\ active = {}
  /\ pc = "schedule" => goal["main"] = cur /\ at["main"] \in {"check", "ok"}
  /\ pc = "submit" => NobodyHas /\ active = {cur} /\ cur \in Group
  /\ pc = "ahead" =>
       /\ futures = {} /\ active = {cur} /\ cur \in Group /\ WorkerFree
       /\ goal["main"] = cur + 1
       /\ pending = IF at["main"] = "ok" THEN {cur + 1} ELSE {}
  /\ pc \in {"inside", "leave", "release"} =>
       /\ cur \in Group /\ active = IF pc = "release" THEN {} ELSE {cur}
       /\ IF aborting THEN pc # "inside" /\ NobodyHas ELSE Line(cur + 1)
  /\ pc \notin {"preForward", "schedule", "ahead"} => at["main"] = "out"
  /\ aborting => pc \in {"leave", "release"}
  /\ awaited = {}

(* The upload that mark_upload retires is still active, and a second       *)
(* attempt is on its way.                                                  *)
Marking ==
  \A t \in Threads :
    /\ at[t] = "mark" => HasActiveUpload
    /\ retried[t] => at[t] \in Placing \cup {"retry"}

(* Every copy from a slot is covered by the slot's event, except the one   *)
(* that a thread is about to mark.                                         *)
Covering ==
  /\ HasActiveUpload => activeSlot = TakenSlot
  /\ \A t \in Threads :
       /\ at[t] = "nativeMark" => HasActiveUpload /\ slotDma[activeSlot] <= stamp[t]
       /\ at[t] = "stage" \/ (at[t] = "copy" /\ transport = "file") => HasActiveUpload
  /\ HasActiveUpload /\ (\A t \in Threads : at[t] # "nativeMark") => slotDma[activeSlot] = 0
  /\ \A s \in Slot : s # activeSlot => slotDma[s] <= readyEvent[s]

Orderly == Phases /\ LeasesAccounted /\ Marking /\ Covering

------------------------------------------------------------------------------
(* Phases *)

(* What a step of the scheduling procedure publishes, and when.            *)
LEMMA SchedulePublishes ==
  ASSUME Basics, NEW t \in Threads, Schedule(t)
  PROVE  /\ at[t] \notin {"out", "ok", "err"} /\ at'[t] # "out"
         /\ \/ at'[t] # "ok" /\ pending' = pending
            \/ at'[t] = "ok" /\ at[t] = "check" /\ goal[t] \in pending \cup active /\ pending' = pending
            \/ at'[t] = "ok" /\ at[t] = "publish" /\ pending' = pending \cup {goal[t]}
         /\ at[t] = "check" /\ goal[t] \in pending => at'[t] = "ok" /\ pending' = pending
         /\ at'[t] \notin {"check", "out"}
<1>a. at \in [Threads -> Label] BY Timely
<1>1. CASE Publish(t) BY <1>1, <1>a DEF Publish, GoTo
<1>2. CASE Check(t) /\ UNCHANGED holdVars BY <1>2, <1>a DEF Check, GoTo, AlreadyHeld, holdVars
<1>3. CASE (ArenaAcquire(t) \/ Record(t) \/ Mark(t) \/ MarkFail(t)) /\ UNCHANGED holdVars
  BY <1>3, <1>a
  DEF ArenaAcquire, Record, Mark, MarkFail, PrefetchLoaded, PrefetchPlace, PrefetchNoRoom, Begin, Stage,
      Copy, NativeMark, Grant, Refuse, GoTo, Attempting, holdVars
<1> QED BY <1>1, <1>2, <1>3 DEF Schedule

(* Where the worker has nothing, it takes no step.                         *)
LEMMA WorkerFreeRests ==
  ASSUME Basics, WorkerFree
  PROVE  ~Schedule("worker") /\ ~WorkerStep
<1>1. "worker" \in Threads BY GroupsAssumption
<1> QED
  BY <1>1, SchedulePublishes DEF WorkerFree, WorkerStep, WorkerStart, WorkerFinish, Return

(* The worker's steps bring the prefetch of group u further.               *)
LEMMA PrefetchProceeds ==
  ASSUME Basics, NEW u \in Group, PrefetchOf(u), u \notin active, Schedule("worker") \/ WorkerStep
  PROVE  PrefetchOf(u)'
<1>a. /\ "worker" \in Threads /\ at \in [Threads -> Label] /\ goal \in [Threads -> Group]
      /\ task \in [Group -> {"none", "queued", "running", "done", "failed"}] /\ queue \in Seq(Group)
  BY GroupsAssumption, Timely DEF Basics, TypeOK, GroupsTypeOK
<1>1. CASE Schedule("worker")
  <2>1. /\ at["worker"] \notin {"out", "ok", "err"} /\ at'["worker"] # "out"
        /\ UNCHANGED <<task, queue, goal>>
    BY <1>1, <1>a, SchedulePublishes, ScheduleDelivers DEF workVars
  <2>2. task[u] = "running" /\ queue = <<>> /\ goal["worker"] = u /\ pending = {}
    BY <2>1 DEF PrefetchOf, WorkerFree
  <2>3. pending' = IF at'["worker"] = "ok" THEN {u} ELSE {}
    BY <1>1, <1>a, <2>2, SchedulePublishes
  <2> QED BY <2>1, <2>2, <2>3 DEF PrefetchOf
<1>2. CASE WorkerStep /\ WorkerStart
  <2>1. /\ queue # <<>> /\ at["worker"] = "out" /\ at'["worker"] = "check"
        /\ goal'["worker"] = Head(queue) /\ queue' = Tail(queue)
        /\ task' = [task EXCEPT ![Head(queue)] = "running"] /\ pending' = pending
    BY <1>2, <1>a DEF WorkerStep, WorkerStart, CallSchedule, GoTo, holdVars
  <2>2. queue = <<u>> /\ pending = {} BY <2>1 DEF PrefetchOf, WorkerFree
  <2>3. Head(queue) = u /\ Tail(queue) = <<>> BY <2>2
  <2> QED BY <1>a, <2>1, <2>2, <2>3 DEF PrefetchOf
<1>3. ASSUME NEW outcome \in {"done", "failed"}, NEW result \in {"ok", "err"},
             outcome = "done" <=> result = "ok", WorkerFinish(result, outcome), WorkerStep
      PROVE  PrefetchOf(u)'
  <2>1. /\ at["worker"] = result /\ at'["worker"] = "out" /\ UNCHANGED <<queue, pending>>
        /\ task' = [task EXCEPT ![goal["worker"]] = outcome]
    BY <1>3, <1>a DEF WorkerFinish, Return, GoTo, WorkerStep, holdVars
  <2>2. /\ queue = <<>> /\ goal["worker"] = u
        /\ pending = IF result = "ok" THEN {u} ELSE {}
    BY <1>3, <2>1 DEF PrefetchOf, WorkerFree
  <2> QED BY <1>a, <1>3, <2>1, <2>2 DEF PrefetchOf, WorkerFree
<1> QED BY <1>1, <1>2, <1>3 DEF WorkerStep

(* So they keep the phases.                                                *)
LEMMA WorkerPhases ==
  ASSUME Basics, Phases, Schedule("worker") \/ WorkerStep
  PROVE  Phases'
<1>a. /\ "worker" \in Threads /\ "main" \in Threads /\ cur \in 0 .. GroupCount
      /\ GroupCount \in Nat /\ Group = 0 .. GroupCount - 1
      /\ at \in [Threads -> Label] /\ goal \in [Threads -> Group]
  BY GroupsAssumption, ArenaAssumption, Timely DEF Basics, TypeOK, GroupsTypeOK, Group
<1>1. UNCHANGED <<pc, cur, futures, active, aborting, awaited>>
  BY <1>a, ScheduleDelivers DEF mainVars, workVars, WorkerStep, holdVars
<1>2. at'["main"] = at["main"] /\ goal'["main"] = goal["main"]
  <2>1. CASE Schedule("worker") BY <1>a, <2>1, ScheduleDelivers
  <2>2. CASE WorkerStep
    BY <1>a, <2>2 DEF WorkerStep, WorkerStart, WorkerFinish, CallSchedule, Return, GoTo
  <2> QED BY <2>1, <2>2
<1>3. ~WorkerFree BY WorkerFreeRests
<1>4. \A u \in Group : PrefetchOf(u) /\ u \notin active => PrefetchOf(u)' BY PrefetchProceeds
<1>5. ASSUME NEW u, Line(u), u \notin active PROVE Line(u)'
  BY <1>1, <1>3, <1>4, <1>5 DEF Line, NobodyHas
<1>6. CASE pc = "forward"
  <2>1. cur \notin active BY <1>6 DEF Phases
  <2> QED BY <1>1, <1>2, <1>5, <1>6, <2>1 DEF Phases, Outside, Detaching
<1>7. CASE pc = "await"
  BY <1>1, <1>2, <1>4, <1>7 DEF Phases, Outside, Detaching
<1>8. CASE pc \in {"inside", "leave", "release"}
  <2>1. ~aborting /\ Line(cur + 1) /\ active \subseteq {cur} /\ cur \in Group
    BY <1>3, <1>8 DEF Phases, NobodyHas
  <2>2. Line(cur + 1)' BY <1>1, <1>a, <1>5, <2>1
  <2>3. ASSUME NEW u, u = cur + 1, Line(u)' PROVE Line(cur + 1)' BY <1>1, <2>3
  <2> QED BY <1>1, <1>2, <1>8, <2>1, <2>2 DEF Phases, Outside, Detaching
<1>9. CASE pc \notin {"forward", "await", "inside", "leave", "release"}
  <2>1. pc \in Outside \cup Detaching \cup {"preForward", "schedule", "take", "submit", "ahead"}
    BY <1>9 DEF Basics, TypeOK, GroupsTypeOK, MainLabel
  <2> QED BY <1>3, <2>1 DEF Phases, NobodyHas
<1> QED BY <1>6, <1>7, <1>8, <1>9

LEMMA MainSchedulePhases ==
  ASSUME Basics, Phases, Schedule("main")
  PROVE  Phases'
<1>a. "worker" \in Threads /\ "main" \in Threads BY GroupsAssumption
<1>1. /\ UNCHANGED <<pc, cur, futures, active, aborting, awaited, task, queue, goal>>
      /\ at'["worker"] = at["worker"]
  BY <1>a, ScheduleDelivers DEF mainVars, workVars
<1>2. /\ at["main"] \notin {"out", "ok", "err"}
      /\ \/ at'["main"] # "ok" /\ pending' = pending
         \/ at'["main"] = "ok" /\ at["main"] = "check" /\ goal["main"] \in pending \cup active /\ pending' = pending
         \/ at'["main"] = "ok" /\ at["main"] = "publish" /\ pending' = pending \cup {goal["main"]}
      /\ at["main"] = "check" /\ goal["main"] \in pending => at'["main"] = "ok" /\ pending' = pending
  BY <1>a, SchedulePublishes
<1>3. pc \in {"preForward", "schedule", "ahead"} BY <1>2 DEF Phases
<1>4. CASE pc = "preForward"
  BY <1>1, <1>2, <1>4 DEF Phases, Outside, Detaching, WorkerFree
<1>5. CASE pc = "schedule"
  <2>1. at'["main"] = "ok" /\ pending' = pending BY <1>2, <1>5 DEF Phases
  <2> QED BY <1>1, <1>5, <2>1 DEF Phases, Outside, Detaching, WorkerFree
<1>6. CASE pc = "ahead"
  <2>1. /\ pending = {} /\ active = {cur} /\ goal["main"] = cur + 1 /\ cur \in Group
    BY <1>2, <1>6 DEF Phases
  <2>2. cur # cur + 1 BY <2>1, ArenaAssumption DEF Group
  <2>3. pending' = IF at'["main"] = "ok" THEN {cur + 1} ELSE {} BY <1>2, <2>1, <2>2
  <2> QED BY <1>1, <1>6, <2>1, <2>3 DEF Phases, Outside, Detaching, WorkerFree
<1> QED BY <1>3, <1>4, <1>5, <1>6

(* The steps of the main thread take the phases one after the other.       *)
LEMMA ForwardPhases ==
  ASSUME RegularForwards, Basics, Phases,
         \/ \E g \in Group : EnterAwaiting(g)
         \/ \E g \in Group : EnterScheduling(g) /\ UNCHANGED <<workVars, holdVars>>
         \/ (StartForward \/ PreForwardDone \/ ScheduleRaised \/ ScheduleDone) /\ UNCHANGED <<workVars, holdVars>>
         \/ (AwaitDone \/ AwaitRaised \/ EndForward) /\ UNCHANGED <<gpuVars, workVars, holdVars>>
  PROVE  Phases'
<1> USE DEF Outside, Detaching
<1>a. /\ "worker" \in Threads /\ "main" \in Threads /\ 0 \in Group
      /\ at \in [Threads -> Label] /\ goal \in [Threads -> Group]
  BY GroupsAssumption, Timely, Ranges
<1>1. ASSUME NEW g \in Group, EnterAwaiting(g) PROVE Phases'
  <2>1. /\ pc = "forward" /\ pc' = "await" /\ cur' = g /\ cur = g /\ g \in futures /\ futures' = futures \ {g}
        /\ UNCHANGED <<at, goal, task, queue, pending, active, awaited, aborting>>
    BY <1>1 DEF EnterAwaiting, Reach, HasFuture, gpuVars, arenaVars, holdVars, RegularForwards,
               Basics, TypeOK, GroupsTypeOK
  <2>2. futures = {g} /\ PrefetchOf(g) /\ active = {} BY <2>1 DEF Phases, Line, NobodyHas
  <2>3. PrefetchOf(g)' BY <2>1, <2>2 DEF PrefetchOf, WorkerFree
  <2>4. PrefetchOf(cur)' BY <2>1, <2>3 DEF PrefetchOf, WorkerFree
  <2> QED BY <2>1, <2>2, <2>4 DEF Phases
<1>2. ASSUME NEW g \in Group, EnterScheduling(g), UNCHANGED <<workVars, holdVars>> PROVE Phases'
  <2>1. /\ pc = "forward" /\ pc' = "schedule" /\ cur' = g /\ cur = g /\ g \notin futures
        /\ at'["worker"] = at["worker"] /\ at'["main"] = "check" /\ goal'["main"] = g
        /\ UNCHANGED <<futures, task, queue, pending, active, awaited, aborting>>
    BY <1>2, <1>a
    DEF EnterScheduling, Reach, HasFuture, CallSchedule, GoTo, workVars, holdVars, RegularForwards,
        Basics, TypeOK, GroupsTypeOK
  <2>2. futures = {} /\ pending = {g} /\ WorkerFree /\ active = {}
    BY <2>1, ArenaAssumption DEF Phases, Line, NobodyHas, Group
  <2> QED BY <2>1, <2>2 DEF Phases, WorkerFree
<1>3. CASE StartForward /\ UNCHANGED <<workVars, holdVars>>
  <2>1. /\ pc = "idle" /\ pc' = "preForward" /\ cur' = cur /\ aborting' = aborting
        /\ at'["worker"] = at["worker"] /\ at'["main"] = "check" /\ goal'["main"] = 0
        /\ UNCHANGED <<futures, task, queue, pending, active, awaited>>
    BY <1>3, <1>a DEF StartForward, Move, CallSchedule, GoTo, workVars, holdVars
  <2> QED BY <2>1 DEF Phases, NobodyHas, WorkerFree
<1>4. CASE PreForwardDone /\ UNCHANGED <<workVars, holdVars>>
  <2>1. /\ pc = "preForward" /\ pc' = "forward" /\ cur' = 0 /\ aborting' = aborting
        /\ at["main"] = "ok" /\ at'["worker"] = at["worker"] /\ at'["main"] = "out"
        /\ UNCHANGED <<futures, task, queue, pending, active, awaited>>
    BY <1>4, <1>a DEF PreForwardDone, Return, GoTo, workVars, holdVars
  <2>2. futures = {} /\ pending = {0} /\ WorkerFree BY <2>1 DEF Phases
  <2>3. Line(cur)' BY <1>a, <2>1, <2>2 DEF Line, WorkerFree
  <2> QED BY <2>1, <2>3 DEF Phases
<1>5. CASE (ScheduleRaised \/ ScheduleDone) /\ UNCHANGED <<workVars, holdVars>>
  <2>1. /\ pc \in {"preForward", "schedule"} /\ cur' = cur /\ aborting' = aborting
        /\ pc' = IF at["main"] = "ok" THEN "take" ELSE "idle"
        /\ at["main"] = "ok" => pc = "schedule"
        /\ at["main"] \in {"ok", "err"}
        /\ at'["worker"] = at["worker"] /\ at'["main"] = "out"
        /\ UNCHANGED <<futures, task, queue, pending, active, awaited>>
    BY <1>5, <1>a DEF ScheduleRaised, ScheduleDone, Move, Return, GoTo, workVars, holdVars
  <2> QED BY <2>1 DEF Phases, WorkerFree, NobodyHas
<1>6. CASE (AwaitDone \/ AwaitRaised) /\ UNCHANGED <<gpuVars, workVars, holdVars>>
  <2>1. /\ pc = "await" /\ cur' = cur /\ aborting' = aborting
        /\ \/ pc' = "take" /\ task[cur] = "done"
           \/ pc' = "idle" /\ task[cur] = "failed"
        /\ UNCHANGED <<at, goal, futures, task, queue, pending, active, awaited>>
    BY <1>6 DEF AwaitDone, AwaitRaised, Succeeded, Move, gpuVars, arenaVars, workVars, holdVars
  <2>2. cur \in Group /\ futures = {} /\ PrefetchOf(cur) /\ active = {} BY <2>1 DEF Phases
  <2>3. at["main"] = "out" /\ ~aborting BY <2>1 DEF Phases
  <2>4. WorkerFree /\ pending = IF pc' = "take" THEN {cur} ELSE {} BY <2>1, <2>2 DEF PrefetchOf
  <2> QED BY <2>1, <2>2, <2>3, <2>4 DEF Phases, WorkerFree, NobodyHas
<1>7. CASE EndForward /\ UNCHANGED <<gpuVars, workVars, holdVars>>
  <2>1. /\ pc = "forward" /\ pc' = "idle" /\ cur = GroupCount /\ cur' = cur /\ aborting' = aborting
        /\ UNCHANGED <<at, goal, futures, task, queue, pending, active, awaited>>
    BY <1>7 DEF EndForward, Move, gpuVars, arenaVars, workVars, holdVars
  <2>2. NobodyHas BY <2>1, ArenaAssumption DEF Phases, Line, Group
  <2> QED BY <2>1, <2>2 DEF Phases, WorkerFree, NobodyHas
<1> QED BY <1>1, <1>2, <1>3, <1>4, <1>5, <1>6, <1>7

LEMMA InsidePhases ==
  ASSUME Basics, Phases,
         \/ Take \/ SubmitPrefetch \/ Leave
         \/ SubmitNothing /\ UNCHANGED <<gpuVars, workVars, holdVars>>
         \/ (SubmitInline \/ AheadDone \/ AheadRaised \/ Run \/ Release) /\ UNCHANGED <<workVars, holdVars>>
  PROVE  Phases'
<1> USE DEF Outside, Detaching
<1>a. /\ "worker" \in Threads /\ "main" \in Threads /\ cur \in 0 .. GroupCount
      /\ GroupCount \in Nat \ {0} /\ Group = 0 .. GroupCount - 1
      /\ at \in [Threads -> Label] /\ goal \in [Threads -> Group]
      /\ task \in [Group -> {"none", "queued", "running", "done", "failed"}]
  BY GroupsAssumption, ArenaAssumption, Timely DEF Basics, TypeOK, GroupsTypeOK, Group
<1>b. ASSUME NEW u, u = cur + 1, Line(u)', cur' = cur PROVE Line(cur + 1)'
  BY <1>b
<1>1. CASE Take
  <2>1. /\ pc = "take" /\ pc' = "submit" /\ cur' = cur /\ aborting' = aborting
        /\ pending' = pending \ {cur} /\ active' = active \cup {cur}
        /\ UNCHANGED <<at, goal, futures, task, queue, awaited>>
    BY <1>1 DEF Take, Move, Launch, workVars
  <2> QED BY <2>1 DEF Phases, WorkerFree, NobodyHas
<1>2. CASE SubmitPrefetch
  <2>1. /\ pc = "submit" /\ pc' = "inside" /\ cur' = cur /\ aborting' = aborting
        /\ UNCHANGED <<at, goal, pending, active, awaited>>
    BY <1>2 DEF SubmitPrefetch, Move, gpuVars, arenaVars, holdVars
  <2>2. /\ NobodyHas /\ active = {cur} /\ cur \in Group /\ ~aborting /\ at["main"] = "out"
        /\ awaited = {}
    BY <2>1 DEF Phases
  <2>3. PICK u \in Group : u = cur + 1 BY <1>2 DEF SubmitPrefetch, NextGroup
  <2>4. futures' = {u} /\ task'[u] = "queued" /\ queue' = <<u>>
    BY <1>2, <1>a, <2>2, <2>3 DEF SubmitPrefetch, NextGroup, NobodyHas, WorkerFree
  <2>5. Line(u)' BY <2>1, <2>2, <2>3, <2>4 DEF Line, PrefetchOf, NobodyHas, WorkerFree
  <2> QED BY <1>b, <2>1, <2>2, <2>3, <2>5 DEF Phases
<1>3. CASE SubmitNothing /\ UNCHANGED <<gpuVars, workVars, holdVars>>
  <2>1. /\ pc = "submit" /\ pc' = "inside" /\ cur' = cur /\ aborting' = aborting
        /\ UNCHANGED <<at, goal, futures, task, queue, pending, active, awaited>>
    BY <1>3 DEF SubmitNothing, Move, gpuVars, arenaVars, holdVars, workVars
  <2>2. /\ NobodyHas /\ active = {cur} /\ cur \in Group /\ ~aborting /\ at["main"] = "out"
        /\ awaited = {}
    BY <2>1 DEF Phases
  <2>3. cur + 1 = GroupCount BY <1>3, <1>a, <2>2 DEF SubmitNothing, NextGroup
  <2>4. Line(GroupCount)' BY <2>1, <2>2 DEF Line, NobodyHas, WorkerFree
  <2> QED BY <1>b, <2>1, <2>2, <2>3, <2>4 DEF Phases
<1>4. CASE SubmitInline /\ UNCHANGED <<workVars, holdVars>>
  <2>1. /\ pc = "submit" /\ pc' = "ahead" /\ cur' = cur /\ aborting' = aborting
        /\ at'["worker"] = at["worker"] /\ at'["main"] = "check" /\ goal'["main"] = cur + 1
        /\ UNCHANGED <<futures, task, queue, pending, active, awaited>>
    BY <1>4, <1>a DEF SubmitInline, NextGroup, Move, CallSchedule, GoTo, workVars, holdVars
  <2> QED BY <2>1 DEF Phases, NobodyHas, WorkerFree
<1>5. CASE (AheadDone \/ AheadRaised) /\ UNCHANGED <<workVars, holdVars>>
  <2>1. /\ pc = "ahead" /\ cur' = cur /\ at'["worker"] = at["worker"] /\ at'["main"] = "out"
        /\ \/ at["main"] = "ok" /\ pc' = "inside" /\ aborting' = aborting
           \/ at["main"] = "err" /\ pc' = "leave" /\ aborting' = TRUE
        /\ UNCHANGED <<futures, task, queue, pending, active, awaited>>
    BY <1>5, <1>a DEF AheadDone, AheadRaised, Move, Return, GoTo, workVars, holdVars
  <2>2. /\ futures = {} /\ active = {cur} /\ cur \in Group /\ WorkerFree
        /\ goal["main"] = cur + 1 /\ ~aborting /\ awaited = {}
        /\ pending = IF at["main"] = "ok" THEN {cur + 1} ELSE {}
    BY <2>1 DEF Phases
  <2>3. PICK u \in Group : u = cur + 1 BY <1>a, <2>2
  <2>4. CASE at["main"] = "ok"
    <3>1. Line(u)' BY <2>1, <2>2, <2>3, <2>4 DEF Line, WorkerFree
    <3> QED BY <1>b, <2>1, <2>2, <2>3, <2>4, <3>1 DEF Phases
  <2>5. CASE at["main"] = "err"
    BY <2>1, <2>2, <2>5 DEF Phases, WorkerFree, NobodyHas
  <2> QED BY <2>1, <2>4, <2>5
<1>6. CASE Leave \/ (Run /\ UNCHANGED <<workVars, holdVars>>)
  <2>1. /\ \/ pc = "inside" /\ pc' = "leave" /\ active' = active
           \/ pc = "leave" /\ pc' = "release" /\ active' = active \ {cur}
        /\ cur' = cur /\ aborting' = aborting
        /\ UNCHANGED <<at, goal, futures, task, queue, pending, awaited>>
    BY <1>6 DEF Leave, Run, Launch, Move, gpuVars, arenaVars, holdVars, workVars
  <2>2. /\ cur \in Group /\ active = {cur} /\ at["main"] = "out" /\ awaited = {}
        /\ IF aborting THEN pc # "inside" /\ NobodyHas ELSE Line(cur + 1)
    BY <2>1 DEF Phases
  <2>3. ~aborting => Line(cur + 1)'
    BY <2>1, <2>2 DEF Line, PrefetchOf, NobodyHas, WorkerFree
  <2>4. aborting => NobodyHas' BY <2>1, <2>2 DEF NobodyHas, WorkerFree
  <2> QED BY <2>1, <2>2, <2>3, <2>4 DEF Phases
<1>7. CASE Release /\ UNCHANGED <<workVars, holdVars>>
  <2>1. /\ pc = "release" /\ aborting' = FALSE
        /\ \/ aborting /\ pc' = "idle"
           \/ ~aborting /\ pc' = "forward" /\ cur' = cur + 1
        /\ UNCHANGED <<at, goal, futures, task, queue, pending, active, awaited>>
    BY <1>7 DEF Release, ReleaseGroup, holdVars, workVars
  <2>2. /\ cur \in Group /\ active = {} /\ at["main"] = "out" /\ awaited = {}
        /\ IF aborting THEN NobodyHas ELSE Line(cur + 1)
    BY <2>1 DEF Phases
  <2>3. CASE aborting
    <3>1. NobodyHas' BY <2>1, <2>2, <2>3 DEF NobodyHas, WorkerFree
    <3> QED BY <2>1, <2>2, <2>3, <3>1 DEF Phases
  <2>4. CASE ~aborting
    <3>1. PICK u : u = cur + 1 OBVIOUS
    <3>2. Line(u)' BY <2>1, <2>2, <2>4, <3>1 DEF Line, PrefetchOf, NobodyHas, WorkerFree
    <3>3. Line(cur)' BY <2>1, <2>4, <3>1, <3>2
    <3> QED BY <2>1, <2>2, <2>4, <3>3 DEF Phases
  <2> QED BY <2>3, <2>4
<1> QED BY <1>1, <1>2, <1>3, <1>4, <1>5, <1>6, <1>7

LEMMA DetachPhases ==
  ASSUME Basics, Phases,
         \/ Detach \/ FuturesStep
         \/ (DetachAwaited \/ DetachDrained \/ DetachCloseRaised) /\ UNCHANGED <<gpuVars, workVars, holdVars>>
         \/ DetachClose /\ UNCHANGED <<workVars, holdVars>>
         \/ \E g \in Group : DetachDrain(g)
  PROVE  Phases'
<1> USE DEF Outside, Detaching
<1>1. /\ pc \in Outside \cup Detaching /\ pc' \in Outside \cup Detaching /\ UNCHANGED aborting
  BY DEF Detach, FuturesStep, DetachAwaited, DetachDrained, DetachCloseRaised, DetachClose, DetachDrain,
         DetachCollect, DetachAwait, DetachAwaitRaised, DetachShutdown, Move
<1>2. NobodyHas /\ active = {} /\ at["main"] = "out" /\ awaited = {} /\ ~aborting
  BY <1>1 DEF Phases
<1>3. /\ UNCHANGED <<at, queue, pending, active>> /\ futures' = {} /\ awaited' = {}
  BY <1>2 DEF Detach, FuturesStep, DetachAwaited, DetachDrained, DetachCloseRaised, DetachClose, DetachDrain,
         DetachCollect, DetachAwait, DetachAwaitRaised, DetachShutdown, Move, CloseArena, NobodyHas,
         gpuVars, arenaVars, workVars, holdVars
<1>4. NobodyHas' BY <1>2, <1>3 DEF NobodyHas, WorkerFree
<1> QED BY <1>1, <1>2, <1>3, <1>4 DEF Phases

LEMMA NextPhases ==
  ASSUME RegularForwards, Basics, Phases, [Next]_vars
  PROVE  Phases'
<1>1. ASSUME UploadStep \/ ComputeStep \/ UNCHANGED vars PROVE Phases'
  <2>1. UNCHANGED <<pc, cur, aborting, at, goal, futures, task, queue, pending, active, awaited>>
    BY <1>1 DEF UploadStep, ComputeStep, FinishArenaUpload, FinishCompute, mainVars, workVars, holdVars,
         vars, gpuVars, arenaVars
  <2>2. PrefetchOf(cur) => PrefetchOf(cur)' BY <2>1 DEF PrefetchOf, WorkerFree
  <2>3. Line(cur) => Line(cur)' BY <2>1 DEF Line, PrefetchOf, NobodyHas, WorkerFree
  <2>4. Line(cur + 1) => Line(cur + 1)' BY <2>1 DEF Line, PrefetchOf, NobodyHas, WorkerFree
  <2>5. (NobodyHas => NobodyHas') /\ (WorkerFree => WorkerFree') BY <2>1 DEF NobodyHas, WorkerFree
  <2> QED BY <2>1, <2>2, <2>3, <2>4, <2>5 DEF Phases
<1>2. ~GroupRaises /\ ~EndEarly
  BY DEF RegularForwards, GroupRaises, EndEarly, Basics, TypeOK, GroupsTypeOK
<1>3. Threads = {"main", "worker"} BY GroupsAssumption
<1> QED
  BY <1>1, <1>2, <1>3, WorkerPhases, MainSchedulePhases, ForwardPhases, InsidePhases, DetachPhases
  DEF Next, MainStep, HostStep, ArenaStep, Closed

LEMMA InitPhases == Init => Phases
<1> SUFFICES ASSUME Init PROVE Phases OBVIOUS
<1>1. at = [t \in Threads |-> "out"] /\ "main" \in Threads /\ "worker" \in Threads
  BY GroupsAssumption DEF Init, ArenaInit
<1> QED BY <1>1 DEF Init, Phases, NobodyHas, WorkerFree, Outside

------------------------------------------------------------------------------
(* Leases and slots *)

(* The two threads never schedule at the same time, nothing is published   *)
(* twice, and while a lease is being asked for nothing is pending.         *)
LEMMA OneSchedules ==
  ASSUME Basics, Phases
  PROVE  /\ \A t, u \in Threads : at[t] # "out" /\ at[u] # "out" => t = u
         /\ \A t \in Threads : at[t] \notin {"out", "check", "ok"} => pending = {}
         /\ active \subseteq {cur}
<1> USE DEF Outside, Detaching
<1>a. Threads = {"main", "worker"} BY GroupsAssumption
<1>1. at["main"] # "out" =>
        /\ at["worker"] = "out"
        /\ at["main"] \notin {"check", "ok"} => pending = {}
  BY DEF Phases, WorkerFree
<1>2. at["worker"] # "out" => \E u : PrefetchOf(u)
  BY DEF Phases, WorkerFree, NobodyHas, Line, Basics, TypeOK, GroupsTypeOK, MainLabel
<1>3. at["worker"] \notin {"out", "check", "ok"} => pending = {}
  BY <1>2 DEF PrefetchOf, WorkerFree
<1>4. active \subseteq {cur}
  BY DEF Phases, Basics, TypeOK, GroupsTypeOK, MainLabel
<1> QED BY <1>a, <1>1, <1>3, <1>4

(* The scheduling procedure accounts for the leases it takes.              *)
LEMMA ScheduleAccounts ==
  ASSUME Basics, Basics', LeasesAccounted, NEW t \in Threads, Schedule(t), ~MarkFail(t),
         at[t] = "publish" => pending = {}
  PROVE  LeasesAccounted'
<1> SUFFICES ASSUME NEW g \in Group PROVE leases'[g] = Claims(g)' BY DEF LeasesAccounted
<1>a. /\ Alone(t)
      /\ Moves(t) \/ MakesRoom(t) \/ Uploading(t) \/ Gains(t) \/ Publish(t)
      /\ t = "main" \/ t = "worker"
      /\ goal[t] \in Group /\ at \in [Threads -> Label]
      /\ leases[g] = Claims(g) /\ leases \in [Group -> Nat]
  BY ScheduleKinds, GroupsAssumption DEF LeasesAccounted, Basics, TypeOK, ArenaTypeOK
<1>b. \A u \in Threads : u # t => InHand(u, g)' = InHand(u, g)
  BY <1>a DEF Alone, InHand
<1>c. IsInUse(g)' = IsInUse(g) /\ {"main", "worker"} = Threads
  BY <1>a, GroupsAssumption DEF Alone, IsInUse
<1>d. ASSUME InHand(t, g)' + IsPending(g)' - (InHand(t, g) + IsPending(g)) = leases'[g] - leases[g],
             leases'[g] \in Nat
      PROVE  leases'[g] = Claims(g)'
  <2>1. /\ InHand("main", g) \in Nat /\ InHand("worker", g) \in Nat
        /\ IsPending(g) \in Nat /\ IsInUse(g) \in Nat
        /\ InHand("main", g)' \in Nat /\ InHand("worker", g)' \in Nat
        /\ IsPending(g)' \in Nat /\ IsInUse(g)' \in Nat
    BY Claimants DEF Countable
  <2>2. t = "main" => InHand("worker", g)' = InHand("worker", g) BY <1>b, <1>c
  <2>3. t = "worker" => InHand("main", g)' = InHand("main", g) BY <1>b, <1>c
  <2>4. leases[g] \in Nat BY <1>a
  <2>5. CASE t = "main"
    BY <1>a, <1>c, <1>d, <2>1, <2>2, <2>4, <2>5 DEF Claims
  <2>6. CASE t = "worker"
    BY <1>a, <1>c, <1>d, <2>1, <2>3, <2>4, <2>6 DEF Claims
  <2> QED BY <1>a, <2>5, <2>6
<1>1. CASE at[t] \in Hand /\ ~Publish(t)
  <2>1. (Record(t) \/ Mark(t)) /\ UNCHANGED holdVars
    BY <1>1, <1>a
    DEF Schedule, Hand, Check, ArenaAcquire, PrefetchLoaded, PrefetchPlace, PrefetchNoRoom, Attempting,
        Begin, Stage, Copy, NativeMark
  <2>2. leases' = leases /\ at'[t] \in Hand /\ goal' = goal /\ pending' = pending
    BY <1>a, <2>1 DEF Record, Mark, GoTo, Hand, lockVars, holdVars
  <2>3. InHand(t, g)' = InHand(t, g) /\ IsPending(g)' = IsPending(g)
    BY <1>1, <2>2 DEF InHand, IsPending, Hand
  <2> QED BY <1>a, <1>d, <2>2, <2>3, Claimants DEF Countable
<1>2. CASE at[t] \notin Hand /\ (Moves(t) \/ MakesRoom(t) \/ Uploading(t))
  <2>1. leases' = leases /\ at'[t] \notin Hand /\ goal' = goal /\ pending' = pending
    BY <1>2, <1>a DEF Moves, MakesRoom, Uploading, Alone
  <2>2. InHand(t, g)' = InHand(t, g) /\ IsPending(g)' = IsPending(g)
    BY <1>2, <2>1 DEF InHand, IsPending, Hand
  <2> QED BY <1>a, <1>d, <2>1, <2>2, Claimants DEF Countable
<1>3. CASE at[t] \notin Hand /\ Gains(t)
  <2>1. /\ leases'[g] = IF g = goal[t] THEN leases[g] + 1 ELSE leases[g]
        /\ at'[t] = "record" /\ goal' = goal /\ pending' = pending
    BY <1>3, <1>a DEF Gains, Alone
  <2>2. /\ InHand(t, g) = 0 /\ InHand(t, g)' = IF goal[t] = g THEN 1 ELSE 0
        /\ IsPending(g)' = IsPending(g)
    BY <1>3, <2>1 DEF InHand, IsPending, Hand
  <2> QED BY <1>a, <1>d, <2>1, <2>2, Claimants DEF Countable
<1>4. CASE Publish(t)
  <2>1. /\ at[t] = "publish" /\ at'[t] = "ok" /\ goal' = goal /\ leases' = leases
        /\ pending = {} /\ pending' = {goal[t]}
    BY <1>4, <1>a DEF Publish, GoTo, Alone, lockVars
  <2>2. /\ InHand(t, g)' = 0 /\ InHand(t, g) = IF goal[t] = g THEN 1 ELSE 0
        /\ IsPending(g) = 0 /\ IsPending(g)' = IF goal[t] = g THEN 1 ELSE 0
    BY <2>1 DEF InHand, IsPending
  <2> QED BY <1>a, <1>d, <2>1, <2>2, Claimants DEF Countable
<1> QED BY <1>a, <1>1, <1>2, <1>3, <1>4

(* So does every step where nobody's mark_upload fails and detach finds    *)
(* no lease.                                                               *)
LEMMA NextAccounts ==
  ASSUME Basics, Basics', Phases, LeasesAccounted, [Next]_vars,
         \A t \in Threads : ~MarkFail(t)
  PROVE  LeasesAccounted'
<1>1. ASSUME NEW t \in Threads, Schedule(t) PROVE LeasesAccounted'
  BY <1>1, ScheduleAccounts, OneSchedules
<1> SUFFICES ASSUME NEW g \in Group, \A t \in Threads : ~Schedule(t) PROVE leases'[g] = Claims(g)'
  BY <1>1 DEF LeasesAccounted
<1>a. \A u \in {"main", "worker"} : u \in Threads
  BY GroupsAssumption
<1>b. leases[g] = Claims(g) /\ leases \in [Group -> Nat]
  BY Claimants DEF LeasesAccounted, Countable
<1>c. pc = "release" => cur \in Group \ active
  BY DEF Basics, Position
<1>2. CASE Calm
  <2>1. InHand("main", g)' = InHand("main", g) /\ InHand("worker", g)' = InHand("worker", g)
    BY <1>2, <1>a DEF Calm, InHand, Hand
  <2>2. IsPending(g)' = IsPending(g) /\ IsInUse(g)' = IsInUse(g) /\ leases' = leases
    BY <1>2 DEF Calm, IsPending, IsInUse, holdVars
  <2> QED BY <1>b, <2>1, <2>2 DEF Claims
<1>3. ASSUME UNCHANGED <<at, goal>>, leases'[g] \in Nat,
             IsPending(g)' + IsInUse(g)' - (IsPending(g) + IsInUse(g)) = leases'[g] - leases[g]
      PROVE  leases'[g] = Claims(g)'
  <2>1. InHand("main", g)' = InHand("main", g) /\ InHand("worker", g)' = InHand("worker", g)
    BY <1>3 DEF InHand
  <2> QED BY <1>b, <1>3, <2>1, Claimants DEF Countable, Claims
<1>4. CASE (Run /\ UNCHANGED <<workVars, holdVars>>) \/ Take \/ Leave
  <2>1. UNCHANGED <<at, goal, leases>>
    BY <1>4 DEF Run, Take, Leave, Launch, gpuVars, arenaVars, lockVars
  <2>2. IsPending(g)' + IsInUse(g)' = IsPending(g) + IsInUse(g)
    <3>1. CASE Run /\ UNCHANGED <<workVars, holdVars>>
      BY <3>1 DEF Run, Move, IsPending, IsInUse, holdVars
    <3>2. CASE Take
      BY <3>2 DEF Take, Move, IsPending, IsInUse
    <3>3. CASE Leave
      BY <3>3 DEF Leave, Move, IsPending, IsInUse, Basics, Position
    <3> QED
      BY <1>4, <3>1, <3>2, <3>3
  <2> QED
    BY <1>3, <2>1, <2>2, Claimants DEF Countable
<1>5. CASE Release /\ UNCHANGED <<workVars, holdVars>>
  <2>1. /\ UNCHANGED <<at, goal>> /\ leases' = [leases EXCEPT ![cur] = @ - 1]
        /\ cur \in Group /\ leases[cur] > 0
    BY <1>5, <1>c DEF Release, ReleaseGroup
  <2>2. IsPending(g)' = IsPending(g)
    BY <1>5 DEF IsPending, holdVars
  <2>3. IsInUse(g)' = IF g = cur THEN 0 ELSE IsInUse(g)
    BY <1>5, <1>c DEF Release, IsInUse, holdVars
  <2>4. g = cur => IsInUse(g) = 1
    BY <1>5 DEF Release, IsInUse
  <2> QED
    BY <1>3, <1>b, <2>1, <2>2, <2>3, <2>4, Claimants DEF Countable
<1>6. \A h \in Group : ~DetachDrain(h)
  BY DEF DetachDrain, Move, Phases, NobodyHas, Detaching
<1>7. CASE DetachClose /\ UNCHANGED <<workVars, holdVars>>
  <2>1. /\ UNCHANGED <<at, goal, pending, active, leases>> /\ pc # "release" /\ pc' # "release"
    BY <1>7 DEF DetachClose, CloseArena, Move, holdVars, lockVars
  <2>2. IsPending(g)' = IsPending(g) /\ IsInUse(g)' = IsInUse(g)
    BY <2>1 DEF IsPending, IsInUse
  <2> QED BY <1>3, <1>b, <2>1, <2>2, Claimants DEF Countable
<1>8. CASE UploadStep \/ ComputeStep
  <2>1. UNCHANGED <<at, goal, leases, pending, active, pc, cur>>
    BY <1>8 DEF UploadStep, ComputeStep, FinishArenaUpload, FinishCompute, lockVars,
                mainVars, holdVars
  <2>2. IsPending(g)' = IsPending(g) /\ IsInUse(g)' = IsInUse(g)
    BY <2>1 DEF IsPending, IsInUse
  <2> QED
    BY <1>3, <1>b, <2>1, <2>2, Claimants DEF Countable
<1> QED
  BY <1>2, <1>4, <1>5, <1>6, <1>7, <1>8, CalmSteps DEF Next, MainStep, ArenaStep, Closed

(* What the steps outside of the scheduling procedure leave alone.         *)
LEMMA SlotsQuiet ==
  ASSUME Basics, [Next]_vars, \A t \in Threads : ~Schedule(t)
  PROVE  /\ UNCHANGED <<retried, transport>>
         /\ \A u \in Threads : at'[u] = at[u] \/ at'[u] \in {"out", "check"}
         /\ \A u \in Threads : at'[u] = at[u] \/ at[u] \in {"out", "ok", "err"}
         /\ UNCHANGED <<ringVars, stamp>> \/ (UploadStep /\ at' = at)
<1>a. Threads = {"main", "worker"} /\ at \in [Threads -> Label] BY GroupsAssumption, Timely
<1> USE DEF GoTo
<1>1. ASSUME NEW t \in Threads, (\E g : CallSchedule(t, g)) \/ Return(t, "ok") \/ Return(t, "err")
      PROVE  /\ UNCHANGED <<retried, transport, ringVars, stamp>>
             /\ \A u \in Threads : at'[u] = at[u] \/ at'[u] \in {"out", "check"}
             /\ \A u \in Threads : at'[u] = at[u] \/ at[u] \in {"out", "ok", "err"}
  BY <1>1, <1>a DEF CallSchedule, Return, lockVars, backVars
<1>2. ASSUME UNCHANGED <<retried, transport, ringVars, stamp, at>>
      PROVE  /\ UNCHANGED <<retried, transport>>
             /\ \A u \in Threads : at'[u] = at[u] \/ at'[u] \in {"out", "check"}
             /\ \A u \in Threads : at'[u] = at[u] \/ at[u] \in {"out", "ok", "err"}
             /\ UNCHANGED <<ringVars, stamp>>
  BY <1>2
<1>3. ASSUME HostStep \/ FuturesStep \/ (\E g \in Group : EnterAwaiting(g)) \/ SubmitPrefetch
             \/ GroupRaises \/ EndEarly \/ Detach \/ UNCHANGED vars \/ Leave
      PROVE  UNCHANGED <<retried, transport, ringVars, stamp, at>>
  BY <1>3
  DEF HostStep, FuturesStep, EnterAwaiting, SubmitPrefetch, GroupRaises, EndEarly, Detach, Leave, vars,
      gpuVars, arenaVars, lockVars, backVars
<1>4. ASSUME Run \/ Take \/ Release \/ DetachClose \/ ComputeStep \/ (\E g \in Group : DetachDrain(g))
      PROVE  UNCHANGED <<retried, transport, ringVars, stamp, at>>
  BY <1>4
  DEF Run, Take, Launch, Release, ReleaseGroup, DetachClose, CloseArena, ComputeStep, FinishCompute,
      DetachDrain, lockVars, backVars
<1>5. ASSUME WorkerStep PROVE \E t \in Threads :
        (\E g : CallSchedule(t, g)) \/ Return(t, "ok") \/ Return(t, "err")
  BY <1>5, <1>a DEF WorkerStep, WorkerStart, WorkerFinish
<1>6. ASSUME StartForward \/ PreForwardDone \/ ScheduleRaised \/ ScheduleDone
             \/ (\E g \in Group : EnterScheduling(g)) \/ SubmitInline \/ AheadDone \/ AheadRaised
      PROVE \E t \in Threads :
        (\E g : CallSchedule(t, g)) \/ Return(t, "ok") \/ Return(t, "err")
  BY <1>6, <1>a DEF StartForward, PreForwardDone, ScheduleRaised, ScheduleDone, EnterScheduling,
               SubmitInline, AheadDone, AheadRaised
<1>7. ASSUME UploadStep PROVE UNCHANGED <<retried, transport, at>>
  BY <1>7 DEF UploadStep, FinishArenaUpload, lockVars, backVars
<1>8. \/ UNCHANGED <<retried, transport, ringVars, stamp, at>>
      \/ \E t \in Threads : (\E g : CallSchedule(t, g)) \/ Return(t, "ok") \/ Return(t, "err")
      \/ UploadStep
  BY <1>3, <1>4, <1>5, <1>6 DEF Next, MainStep, ArenaStep, Closed
<1>9. CASE UploadStep BY <1>7, <1>9
<1>10. CASE UNCHANGED <<retried, transport, ringVars, stamp, at>> BY <1>2, <1>10
<1>11. CASE \E t \in Threads : (\E g : CallSchedule(t, g)) \/ Return(t, "ok") \/ Return(t, "err")
  <2>1. PICK t \in Threads : (\E g : CallSchedule(t, g)) \/ Return(t, "ok") \/ Return(t, "err")
    BY <1>11
  <2> QED BY <1>1, <2>1
<1> QED BY <1>8, <1>9, <1>10, <1>11

(* A thread that marks an upload finds it active.                          *)
LEMMA NextMarking ==
  ASSUME Basics, Phases, Marking, [Next]_vars
  PROVE  Marking'
<1> USE DEF GoTo, Placing
<1>a. at \in [Threads -> Label] /\ retried \in [Threads -> BOOLEAN]
  BY Timely DEF Basics, TypeOK, ArenaTypeOK
<1>1. CASE \A t \in Threads : ~Schedule(t)
  <2>1. HasActiveUpload' = HasActiveUpload
    BY <1>1, SlotsQuiet DEF HasActiveUpload, ringVars, UploadStep, FinishArenaUpload, FinishUpload
  <2> QED BY <1>1, <2>1, SlotsQuiet DEF Marking
<1>2. ASSUME NEW t \in Threads, Schedule(t) PROVE Marking'
  <2>1. \A u \in Threads : u # t => at'[u] = "out" /\ at[u] = "out"
    BY <1>2, OneSchedules, ScheduleDelivers
  <2>2. \A u \in Threads : u # t => ~retried[u] BY <2>1 DEF Marking
  <2>3. /\ at[t] = "mark" => HasActiveUpload
        /\ retried[t] => at[t] \in Placing \cup {"retry"}
    BY DEF Marking
  <2>4. ASSUME at'[t] = "mark" => HasActiveUpload', retried' \in [Threads -> BOOLEAN],
               \A u \in Threads : u # t => retried'[u] = retried[u],
               retried'[t] => at'[t] \in Placing \cup {"retry"}
        PROVE  Marking'
    BY <2>1, <2>2, <2>4 DEF Marking
  <2>5. CASE Check(t) \/ Record(t) \/ Mark(t) \/ Publish(t) \/ Begin(t)
    BY <1>a, <2>3, <2>4, <2>5
    DEF Check, Record, Mark, Publish, Begin, lockVars, ringVars, HasActiveUpload
  <2>6. CASE Refuse(t)
    BY <1>a, <2>3, <2>4, <2>6 DEF Refuse
  <2>7. CASE Grant(t)
    BY <1>a, <2>3, <2>4, <2>7 DEF Grant
  <2>8. CASE \/ PrefetchPlace(t) \/ (Stage(t) /\ ~Refuse(t)) \/ (Copy(t) /\ ~Grant(t))
    BY <1>a, <2>3, <2>4, <2>8 DEF PrefetchPlace, Attempting, Stage, Copy, lockVars
  <2>9. ~MarkFail(t) BY <2>3 DEF MarkFail
  <2> QED
    BY <1>2, <2>5, <2>6, <2>7, <2>8, <2>9
    DEF Schedule, ArenaAcquire, PrefetchLoaded, PrefetchNoRoom, NativeMark
<1> QED BY <1>1, <1>2

(* Going round: the slot taken before the next one is the one before it.   *)
LEMMA Round ==
  ASSUME NEW s \in Slot
  PROVE  (((s + 1) % Slots) + Slots - 1) % Slots = s
<1>1. Slots \in Nat \ {0} /\ s \in 0 .. Slots - 1 BY RingAssumption DEF Slot
<1>2. CASE s + 1 = Slots
  <2>1. (s + 1) % Slots = 0 BY <1>1, <1>2, Z3
  <2>2. (0 + Slots - 1) % Slots = s BY <1>1, <1>2, Z3
  <2> QED BY <2>1, <2>2
<1>3. CASE s + 1 < Slots
  <2>1. (s + 1) % Slots = s + 1 BY <1>1, <1>3, Z3
  <2>2. (s + 1 + Slots - 1) % Slots = s BY <1>1, <1>3, Z3
  <2> QED BY <2>1, <2>2
<1> QED BY <1>1, <1>2, <1>3

(* Every copy from a slot stays covered by its event.                      *)
LEMMA NextCovering ==
  ASSUME Basics, Basics', Phases, Marking, Covering, [Next]_vars
  PROVE  Covering'
<1> USE DEF GoTo
<1>a. /\ at \in [Threads -> Label] /\ stamp \in [Threads -> Nat]
      /\ slotDma \in [Slot -> Nat] /\ readyEvent \in [Slot -> Nat]
      /\ nextSlot \in Slot /\ activeSlot \in Slot \cup {NoSlot} /\ NoSlot \notin Slot /\ uploads \in Nat
  <2>1. Ticket \subseteq Nat BY RingAssumption DEF Ticket
  <2>2. NoSlot \notin Slot BY RingAssumption DEF Slot, NoSlot
  <2>3. slotDma \in [Slot -> Nat] /\ readyEvent \in [Slot -> Nat]
    BY <2>1 DEF Basics, TypeOK, RingTypeOK
  <2> QED BY <2>2, <2>3, Timely DEF Basics, TypeOK, RingTypeOK
<1>b. /\ HasActiveUpload => activeSlot = TakenSlot
      /\ HasActiveUpload /\ (\A t \in Threads : at[t] # "nativeMark") => slotDma[activeSlot] = 0
      /\ \A s \in Slot : s # activeSlot => slotDma[s] <= readyEvent[s]
      /\ \A t \in Threads :
           /\ at[t] = "nativeMark" => HasActiveUpload /\ slotDma[activeSlot] <= stamp[t]
           /\ at[t] = "stage" \/ (at[t] = "copy" /\ transport = "file") => HasActiveUpload
  BY DEF Covering
<1>1. CASE (\A t \in Threads : ~Schedule(t)) /\ UNCHANGED <<ringVars, stamp>>
  <2>1. /\ UNCHANGED <<nextSlot, activeSlot, readyEvent, slotDma, stamp, transport>>
        /\ \A u \in Threads : at'[u] = at[u] \/ at'[u] \in {"out", "check"}
        /\ \A u \in Threads : at'[u] = at[u] \/ at[u] \in {"out", "ok", "err"}
    BY <1>1, SlotsQuiet DEF ringVars
  <2> QED BY <1>b, <2>1 DEF Covering, HasActiveUpload, TakenSlot
<1>2. CASE UploadStep /\ at' = at /\ transport' = transport
  <2>1. \A a, b \in Nat : a <= b => Closer(a) <= Closer(b)
    BY DEF Closer
  <2>2. /\ readyEvent' = [s \in Slot |-> Closer(readyEvent[s])]
        /\ slotDma' = [s \in Slot |-> Closer(slotDma[s])]
        /\ stamp' = [t \in Threads |-> Closer(stamp[t])]
        /\ UNCHANGED <<nextSlot, activeSlot>>
    BY <1>2 DEF UploadStep, FinishArenaUpload, FinishUpload
  <2>3. \A s \in Slot : s # activeSlot => slotDma'[s] <= readyEvent'[s]
    BY <1>a, <1>b, <2>1, <2>2
  <2>4. \A t \in Threads : at[t] = "nativeMark" => HasActiveUpload /\ slotDma'[activeSlot] <= stamp'[t]
    BY <1>a, <1>b, <2>1, <2>2 DEF HasActiveUpload
  <2>5. HasActiveUpload /\ slotDma[activeSlot] = 0 => slotDma'[activeSlot] = 0
    BY <1>a, <2>2 DEF HasActiveUpload, Closer
  <2> QED BY <1>2, <1>b, <2>2, <2>3, <2>4, <2>5 DEF Covering, HasActiveUpload, TakenSlot
<1>3. ASSUME NEW t \in Threads, Schedule(t) PROVE Covering'
  <2>1. \A u \in Threads : u # t => at'[u] = "out" /\ at[u] = "out"
    BY <1>3, OneSchedules, ScheduleDelivers
  <2>2. at[t] = "mark" => HasActiveUpload BY DEF Marking
  <2>3. at[t] # "nativeMark" => \A u \in Threads : at[u] # "nativeMark" BY <2>1
  <2>4. ASSUME HasActiveUpload' => activeSlot' = TakenSlot',
               at'[t] = "nativeMark" => HasActiveUpload' /\ slotDma'[activeSlot'] <= stamp'[t],
               at'[t] = "stage" \/ (at'[t] = "copy" /\ transport' = "file") => HasActiveUpload',
               HasActiveUpload' /\ at'[t] # "nativeMark" => slotDma'[activeSlot'] = 0,
               \A s \in Slot : s # activeSlot' => slotDma'[s] <= readyEvent'[s]
        PROVE  Covering'
    BY <2>1, <2>4 DEF Covering
  <2>5. CASE /\ UNCHANGED <<nextSlot, activeSlot, readyEvent, slotDma, transport>>
             /\ at[t] # "nativeMark" /\ at'[t] # "nativeMark"
             /\ at'[t] = "stage" \/ (at'[t] = "copy" /\ transport = "file") => HasActiveUpload
    BY <1>b, <2>3, <2>4, <2>5 DEF HasActiveUpload, TakenSlot
  <2>6. CASE Mark(t) \/ (NativeMark(t) /\ ~Refuse(t))
    <3>1. /\ at[t] \in {"mark", "nativeMark"} /\ HasActiveUpload /\ ~HasActiveUpload'
          /\ readyEvent' = [readyEvent EXCEPT ![activeSlot] = stamp[t]]
          /\ slotDma' = slotDma /\ at'[t] \in {"publish", "record"}
      BY <1>a, <2>6 DEF Mark, NativeMark, MarkUpload, Grant, HasActiveUpload
    <3>2. slotDma[activeSlot] <= stamp[t] BY <1>a, <1>b, <2>3, <3>1 DEF HasActiveUpload
    <3>3. \A s \in Slot : slotDma'[s] <= readyEvent'[s] BY <1>a, <1>b, <3>1, <3>2 DEF HasActiveUpload
    <3> QED BY <2>4, <3>1, <3>3
  <2>7. CASE Begin(t)
    <3>1. /\ at[t] = "begin" /\ at'[t] = "stage" /\ readyEvent[nextSlot] = 0 /\ activeSlot' = nextSlot
          /\ nextSlot' = (nextSlot + 1) % Slots /\ UNCHANGED <<readyEvent, slotDma>>
      BY <1>a, <2>7 DEF Begin, BeginUpload, SlotFree, SlotAfter
    <3>2. activeSlot' = TakenSlot' /\ HasActiveUpload' BY <1>a, <3>1, Round DEF TakenSlot, HasActiveUpload
    <3>3. HasActiveUpload => slotDma[activeSlot] = 0 BY <1>b, <2>3, <3>1
    <3>4. slotDma[nextSlot] = 0
      <4>1. CASE nextSlot = activeSlot BY <1>a, <3>3, <4>1 DEF HasActiveUpload
      <4>2. CASE nextSlot # activeSlot BY <1>a, <1>b, <3>1, <4>2
      <4> QED BY <4>1, <4>2
    <3>5. \A s \in Slot : slotDma[s] <= readyEvent[s] BY <1>a, <1>b, <3>3 DEF HasActiveUpload
    <3> QED BY <2>4, <3>1, <3>2, <3>4, <3>5
  <2>8. CASE Copy(t)
    <3>1. CASE transport = "direct"
      <4>1. /\ UNCHANGED <<nextSlot, activeSlot, readyEvent, transport>> /\ at[t] = "copy"
            /\ at'[t] = "record" /\ \A s \in Slot : slotDma'[s] = slotDma[s]
        BY <1>a, <2>8, <3>1 DEF Copy, EnqueueCopy, Grant
      <4> QED BY <1>a, <1>b, <2>3, <2>4, <4>1 DEF HasActiveUpload, TakenSlot
    <3>2. CASE transport = "file"
      <4>1. /\ UNCHANGED <<nextSlot, activeSlot, readyEvent, transport>> /\ at[t] = "copy"
            /\ at'[t] = "nativeMark" /\ stamp'[t] = uploads + 1
            /\ \A s \in Slot : slotDma'[s] = IF s = TakenSlot THEN uploads + 1 ELSE slotDma[s]
        BY <1>a, <2>8, <3>2 DEF Copy, EnqueueCopy
      <4>2. HasActiveUpload /\ activeSlot = TakenSlot BY <1>b, <3>2, <4>1
      <4>3. slotDma'[activeSlot] <= stamp'[t] BY <1>a, <4>1, <4>2 DEF HasActiveUpload
      <4>4. \A s \in Slot : s # activeSlot => slotDma'[s] <= readyEvent'[s] BY <1>b, <4>1, <4>2
      <4> QED BY <2>4, <4>1, <4>2, <4>3, <4>4 DEF HasActiveUpload, TakenSlot
    <3> QED BY <3>1, <3>2 DEF Basics, TypeOK, ArenaTypeOK
  <2>9. CASE Refuse(t) /\ at[t] # "nativeMark"
    BY <1>a, <2>5, <2>9 DEF Refuse, backVars, ringVars
  <2>10. ~(NativeMark(t) /\ Refuse(t))
    BY <1>a, <1>b DEF NativeMark, Refuse, Grant
  <2>11. CASE Check(t) \/ Record(t) \/ Publish(t) \/ PrefetchLoaded(t) \/ PrefetchPlace(t) \/ (Stage(t) /\ ~Refuse(t))
    BY <1>a, <2>5, <2>11 DEF Check, Record, Publish, PrefetchLoaded, PrefetchPlace, Stage, Attempting, Grant,
       backVars, ringVars
  <2>12. ~MarkFail(t) BY <2>2 DEF MarkFail
  <2> QED
    BY <1>3, <2>6, <2>7, <2>8, <2>9, <2>10, <2>11, <2>12
    DEF Schedule, ArenaAcquire, PrefetchNoRoom, Attempting, Stage
<1> QED BY <1>1, <1>2, <1>3, SlotsQuiet

LEMMA InitOrderly == Init => LeasesAccounted /\ Marking /\ Covering
<1> SUFFICES ASSUME Init PROVE LeasesAccounted /\ Marking /\ Covering OBVIOUS
<1> USE GroupsAssumption DEF Init, RingInit, ArenaInit
<1>1. LeasesAccounted BY DEF LeasesAccounted, Claims, InHand, IsPending, IsInUse
<1>2. Marking BY DEF Marking
<1>3. Covering BY DEF Covering, HasActiveUpload
<1> QED BY <1>1, <1>2, <1>3

(* Phases, accounting, marking and covering hold together.                 *)
LEMMA NextOrderly ==
  ASSUME RegularForwards, Basics, Basics', Orderly, [Next]_vars
  PROVE  Orderly'
<1>1. \A t \in Threads : ~MarkFail(t) BY DEF Orderly, Marking, MarkFail
<1> QED BY <1>1, NextPhases, NextAccounts, NextMarking, NextCovering DEF Orderly

LEMMA OrderlyHolds == RegularForwards => (Spec => [](Basics /\ Orderly))
<1> SUFFICES ASSUME RegularForwards PROVE Spec => [](Basics /\ Orderly) OBVIOUS
<1>1. Init => Basics /\ Orderly BY InitBasics, InitPhases, InitOrderly DEF Orderly
<1>2. Basics /\ Orderly /\ [Next]_vars => (Basics /\ Orderly)' BY NextBasics, NextOrderly
<1> QED BY <1>1, <1>2, PTL DEF Spec

(* In regular forwards every lease that the arena counts belongs to        *)
(* somebody who gives it back: a thread that is to publish it, the pending *)
(* or active leases, or the release that is under way.                     *)
THEOREM LeasesAreAccounted == RegularForwards => (Spec => []LeasesAccounted)
<1>1. Orderly => LeasesAccounted BY DEF Orderly
<1> QED BY <1>1, OrderlyHolds, PTL

(* In regular forwards a slot stays active while a thread fills it, and    *)
(* mark_upload finds the slot that it asked about.                         *)
THEOREM FilledSlotsStay == RegularForwards => (Spec => []FilledSlotStays)
<1>1. Basics /\ Orderly => FilledSlotStays
  BY DEF Orderly, Marking, Covering, FilledSlotStays
<1> QED BY <1>1, OrderlyHolds, PTL

(* In regular forwards no checkpoint bytes are written under a copy that   *)
(* still reads the slot, whatever the size of the ring.                    *)
THEOREM SlotsAreSafe == RegularForwards => (Spec => []SlotNotInFlight)
<1>1. Basics /\ Orderly => SlotNotInFlight
  <2> SUFFICES ASSUME Basics, Orderly, NEW t \in Threads, at[t] = "stage", HasActiveUpload
               PROVE  slotDma[activeSlot] = 0
    BY DEF SlotNotInFlight
  <2>1. \A u \in Threads : at[u] # "nativeMark" BY OneSchedules DEF Orderly
  <2> QED BY <2>1 DEF Orderly, Covering
<1> QED BY <1>1, OrderlyHolds, PTL

(* In regular forwards a lease is of the group that runs or of the next.   *)
THEOREM OneGroupAhead == RegularForwards => (Spec => []LooksOneAhead)
<1>1. Basics /\ Orderly => LooksOneAhead
  <2> SUFFICES ASSUME Basics, Orderly, pc \in {"inside", "leave", "release"},
                      NEW g \in Group, leases[g] > 0
               PROVE  g \in {cur, cur + 1}
    BY DEF LooksOneAhead
  <2>1. Claims(g) > 0 BY DEF Orderly, LeasesAccounted
  <2>2. IsInUse(g) > 0 => g = cur
    BY DEF Orderly, Phases, IsInUse
  <2>3. at["main"] = "out" /\ (NobodyHas \/ Line(cur + 1)) BY DEF Orderly, Phases
  <2>4. IsPending(g) > 0 \/ InHand("worker", g) > 0 => g = cur + 1
    BY <2>3 DEF NobodyHas, Line, PrefetchOf, WorkerFree, IsPending, InHand
  <2>5. InHand("main", g) = 0 BY <2>3 DEF InHand
  <2> QED BY <2>1, <2>2, <2>4, <2>5, Claimants DEF Countable, Claims
<1> QED BY <1>1, OrderlyHolds, PTL

(* Between two regular forwards nothing is outstanding: no lease is held   *)
(* and no prefetch is under way, also when a forward failed on a read.     *)
THEOREM RestIsEmpty == RegularForwards => (Spec => []RestsEmpty)
<1>1. Basics /\ Orderly => RestsEmpty
  <2> SUFFICES ASSUME Basics, Orderly, pc = "idle"
               PROVE  futures = {} /\ pending = {} /\ \A g \in Group : leases[g] = 0
    BY DEF RestsEmpty
  <2>1. NobodyHas /\ active = {} /\ at["main"] = "out"
    BY DEF Orderly, Phases, Outside
  <2>2. ASSUME NEW g \in Group PROVE leases[g] = 0
    BY <2>1 DEF Orderly, LeasesAccounted, Claims, InHand, IsPending, IsInUse, NobodyHas, WorkerFree
  <2> QED BY <2>1, <2>2 DEF NobodyHas
<1> QED BY <1>1, OrderlyHolds, PTL

(* In regular forwards a budget that fits two groups is enough: when the   *)
(* arena asks a second time, all that is leased is the group that runs.    *)
THEOREM TwoGroupsSuffice == RegularForwards /\ Budget >= 2 => (Spec => []BudgetSuffices)
<1> SUFFICES ASSUME RegularForwards, Budget >= 2 PROVE Spec => []BudgetSuffices OBVIOUS
<1>1. Basics /\ Orderly => BudgetSuffices
  <2> SUFFICES ASSUME Basics, Orderly, NEW t \in Threads, Attempting(t), retried[t],
                      goal[t] \notin loaded, Placements(goal[t]) = {}
               PROVE  FALSE
    BY DEF BudgetSuffices
  <2>1. at[t] = "retry" /\ Collected
    BY DEF Attempting, Orderly, Marking, Placing
  <2>2. pending = {} /\ active \subseteq {cur} /\ \A u \in Threads : u # t => at[u] = "out"
    BY <2>1, OneSchedules DEF Orderly
  <2>3. ASSUME NEW g \in Group, leases[g] # 0 PROVE g = cur
    <3>1. IsPending(g) = 0 /\ \A u \in Threads : InHand(u, g) = 0
      BY <2>1, <2>2 DEF IsPending, InHand
    <3>2. IsInUse(g) # 0
      BY <2>3, <3>1, GroupsAssumption, Claimants DEF Orderly, LeasesAccounted, Countable, Claims
    <3> QED BY <2>2, <3>2 DEF IsInUse
  <2>4. resident \subseteq Group /\ Budget \in Nat BY ArenaAssumption DEF Basics, TypeOK, ArenaTypeOK
  <2>5. ~(Cardinality(resident) < Budget) BY DEF Placements
  <2>6. Evictable = {} BY <2>5 DEF Placements
  <2>7. resident \subseteq {cur} BY <2>1, <2>3, <2>4, <2>6 DEF Evictable, Collected
  <2>8. IsFiniteSet({cur}) /\ Cardinality({cur}) = 1 BY FS_Singleton
  <2>9. Cardinality(resident) <= 1 /\ Cardinality(resident) \in Nat
    BY <2>7, <2>8, FS_Subset, FS_CardinalityType
  <2> QED BY <2>4, <2>5, <2>9
<1> QED BY <1>1, OrderlyHolds, PTL
=============================================================================
