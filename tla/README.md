# TLA+ model of diffusers-dynamic-offloader

The package keeps the weights of a diffusion model in host memory or in
checkpoint files and brings them to the GPU just before they are used. The
Python code does not compute: it decides *when* a weight is on the GPU, *who*
holds it there, and *what has to be waited for* before it may be read or taken
away. These modules model those decisions, with the threads that take them and
the CUDA streams that run behind them.

## Inventory

Paths are relative to `src/src/diffusers_dynamic_offloader/`.

| Component | State it keeps | Operations | What makes it correct |
|---|---|---|---|
| execution groups of `vmm_runtime` (`dynamic_offload.py`, `DynamicOffloadHook`) | pending and active leases, upload events, prefetch futures, one-thread executor | group pre and post hooks, schedule, submit, enter, leave, clear | kernels see their weights; each lease is given back once; one group ahead, no more; the main thread always returns |
| model arena (`vmm_model_arena.py`) | leases per group, lock, native backing | acquire with one retry, mark_upload, release, close | a leased group keeps its backing; a refused acquire leaves no lock and no lease |
| staging ring (`PinnedStagingPool`) | next and active slot, an event per slot | begin_upload, stage..., mark_upload, has_active_upload, close | no slot is written under a copy that reads it; the slot a thread is filling stays the active one |
| weight store (`VmmWeightStore`) | slots, addresses, handles, tensors, leases, last event, resident bytes | reserve, acquire, release, evict, close | leases keep memory; bytes are exact and within budget; addresses are stable |
| slice registry, registered host memory | bindings by tensor identity; registrations | bind, lookup, rebind_many, register, close | rebinding is all or nothing; a limit on registered bytes |
| Windows reader | handles, two executors | read_at, read_at_async, close | handles stay open for chunks that still run when a read was reported as failed; what those write stays within their own ranges of the buffer |
| weight pinning (`linear_runtime`) | pinned tensors in a process-wide cache, disabled flag | pin with several workers, fall back | accounted bytes are those pinned; a weight is shared only with one of the same name and namespace |
| `sdnq_runtime`, convolution offload | parameters lent to the device for one forward | swap, run, swap back | sources come back on every path |
| planner and budgets | plan entries, budgets, resident names | select pinned weights, select residents, automatic budgets, plan cache | selections fit budgets; a cached plan equals a fresh one |
| hook life cycle and pipelines | hook of each component, patches | apply, remove, enable pipeline, clean up on error | a failure half way leaves no patch behind |
| checkpoint loading | process-wide safetensors functions | patch, load, restore | nesting restores the originals |
| profiles | one file per context; state of a measurement | load, merge, replace; prepare, measure | observations are not lost; one measurement at a time |
| journal and diagnostics | files; enter/exit state; owner of operator traces | publish, mark, snapshot, attach | an entry is there whole or not at all; one owner |
| presets, settings, caches, float8, bootstrap | none, or one-shot calls | parse, validate, report | not modelled, see "Left out" |

How they interact. PyTorch calls the hooks of a model on the *main* thread. In
the `vmm_runtime` route each execution group (a block of the main ModuleList)
has a pre hook that takes its lease and a post hook that gives it back; the pre
hook also submits the next group to the *worker*, the only thread of an
executor. Both threads run `_schedule_vmm_execution_group`, which goes through
the arena (under its lock) into the native allocator, and from there back into
the staging pool (ring slot, file reads). Copies and kernels are *enqueued* on
two streams and happen later. `_vmm_pending_group_leases`, the pool and the
arena are the state the threads share; events are what orders the streams.

Around this core, a load notes which files were opened (a patch of safetensors)
and binds CPU tensors to byte ranges of them; the source registry serves these
to the staging pool and to the detachment of auxiliary sources. A hook plans
where weights go, page-locks some of them with worker threads, and replaces the
forwards of layers by ones that lend them copies. Profiles carry what a run
measured to the budgets of later runs; the journal and the three diagnostics
write down what a run did. These parts meet through values that one hands to
the next (a plan, a budget, a descriptor), not through state that both change
at once, which is why their modules share no variables.

The hard behaviours: the two threads meet in the pool outside of the arena lock
(`mark_upload`); an exception in a forward leaves a prefetch under way, and the
next forward meets its result; reads fail on the worker and are reported
somewhere else, or at detach; an acquire fails and is repeated; driver calls
fail half way through mapping and unmapping; leases are released before the
kernels that use them have run. `PROJECT.json` lists each of these hazards at
its line, with the properties that cover it.

## Modules

```
WeightResidency            what leasing promises (abstract)
   ^ implemented by                 ^ implemented by
VmmExecutionGroups                VmmWeightStore
   extends VmmModelArena
   extends StagingRing

MCLoading   extends  CheckpointReads  SourceRegistry  RegisteredHost  LoaderPatch
                     WeightPlanner    PinnedWeights   WeightLending   HookLife
                     (CheckpointReads and WeightPlanner extend PackedSizes)
MCRecords   extends  CapacityProfiles MetricsJournal  ExecutionDiagnostics
                     OperatorDiagnostics
```

The refinement mappings (`Residency`, `ImplementsResidency`) stand in the two
modules that implement `WeightResidency`. `MCVmmWeightStore` holds constants of
its runs; the runs of the groups need none but those of the cfg. `MCLoading` and
`MCRecords` run one part per behaviour
(the variables `loading` and `part` choose it in the initial state and never
change), since the parts share no state: interleaving them would multiply states
and show nothing.

Proofs are in `VmmKernels_proofs` and `VmmSchedule_proofs` (which extends it),
`VmmWeightStore_proofs`, `Planner_proofs`, `Weights_proofs` (pinning and
lending), `HookLife_proofs`, `Loading_proofs` (which extends the three before it)
and `Records_proofs`.

### Weights on the device

**Streams and events.** A stream is a queue of operations. An event recorded on
it is the number of operations that stand before it, its *ticket*; each
completed operation takes one off every ticket of that stream. Ticket 0 is a
completed event and also stands for `None`: neither makes anybody wait.
`wait_event` is an operation that reaches completion only at ticket 0;
`synchronize` is a guard. An event object that is replaced is a ticket that is
overwritten, as the code overwrites its reference.

**`StagingRing`**: the ring of `PinnedStagingPool` (`_next_slot`,
`_active_slot`, `_ready_events`) and the upload stream. `slotDma` is not in the
code: it is the truth about which copies still read a slot, against which
`_ready_events` is judged.

**`VmmModelArena`**: `acquire`, `release` and `close`. An `acquire` is a
sequence of steps because the thread reads files and waits for a ring slot in
the middle, with the lock held: `Attempting` (first or second attempt), place
the group, `Begin`, `Stage`, `Copy`, `NativeMark`, and `Grant` or `Refuse`. The
allocator under it, `ddo_vmm_allocator`, is not in the repository and is marked
external: it backs at most `Budget` groups, takes backing only from groups
without lease, outstanding release event and outstanding upload, raises if there
is none, and uploads a group once. `loaded` is what the allocator *believes* to
be uploaded, set when the copy is enqueued; `fill` is the ticket of the copy,
that is, the truth.

**`VmmExecutionGroups`**: both threads and the hooks. `at[t]` says where thread
`t` is in scheduling, `pc` where the main thread is otherwise. `mark_upload`
is three steps, since it runs without the lock: `Record` records the event and
asks the pool, `Mark` retires the slot or `MarkFail` raises. The forward is
`StartForward`, then for each group `EnterAwaiting` or `EnterScheduling`,
`Take`, `SubmitPrefetch` (to the worker) or `SubmitInline` (when weights come
from host memory there is no executor), `Run`, `Leave`, `Release`. The
environment may end a forward with an exception (`GroupRaises`, `EndEarly`),
leave groups out, and detach between two forwards.

**`VmmWeightStore`**: every public method holds the store's lock, so what it
does between two waits is one step; `reserve` inside `acquire` is a critical
section of its own, so `Reserve` and `Acquire` are two. `addressed`, `handle`,
`viewed` and `backed` are apart because they come apart when a driver call
fails: an address range reserved, a handle in the slot (`is_mapped`), a tensor
in the slot, memory mapped at the address. `complete` is the truth about the
copies. The order of `used` stands for `last_used`; ties of the clock are not
modelled. Of the slots that may go (`Candidates`) the one used longest ago is
evicted (`Nearer`). Bytes are counted as elements: a weight is a set of `Size`
granules, and what is resident is the cardinality of a union (`Granules`).

**`WeightResidency`**: weights arrive, are held, kernels start only while they
are held and finish only with the weights in place, and weights are removed only
when nobody holds them and no kernel is left. The group runtime maps it to
(`loaded` with ticket 0, `leases > 0`, groups in the compute queue), the store
to (`complete`, `leases > 0`, reads in a queue). `Arrive` is an action of its
own because an upload completes without anybody's doing.

### From files to forwards

**`CheckpointReads`**: filling one slot. `Stage` packs the tensors of a group
and joins adjacent ranges of one file (`RunsOf`, from `stage_file_slices`): a
tensor begins behind the bytes before it (`Start`), and a run bears the number of
the tensor it begins with. Each
request is read from a mapping or, on Windows, cut into chunks that I/O threads write in
any order. `cells` is the content of the slot, byte by byte, as (file, offset).
A failed chunk ends its request at once, while chunks that were already handed
out may still write: such a byte is `Late`. The property excuses `Late` and
nothing else, so it says exactly what the code guarantees. When the reads of a
batch are issued one after another, a failed one is the last that was issued.

**`SourceRegistry`**: association of parameters with byte ranges after a load,
lookups by address, `rebind_many`, and `_detach_cpu_sources` owner by owner with
its rollback. Addresses are freed and allocated again, to other tensors, at any
time: the registry keeps nothing alive.

**`RegisteredHost`**: registration of CPU weights page by page, within a limit,
with pages that others registered and driver calls that fail. A close that
raised is the state "half", which the property leaves out: entries of pages
that were given back are still recorded then.

**`LoaderPatch`**: nested loads, loader modules imported before or during a
load, exceptions. Only `safe_open` is there; `load_file` is patched likewise. A
call goes through the wrappers one inside the other: the least set of functions
closed under what each load had saved (`ClosedUnder`, `Through`).

**`PackedSizes`**: how many bytes some entries have, as the number of their
bytes; a sum without order and without recursion.

**`WeightPlanner`**: what `linear_runtime` and `sdnq_runtime` decide when a hook
starts, as operators over a tree of modules (the orders, the automatic policy,
inferred patterns, resident and pinned selections) and actions in the order
of the code, with a second preparation that may find the plan cache filled.
Modules are known by their places in `named_modules()`, and a place knows those
it is in. An order is the set of pairs of which the first comes first
(`Ordered`); a selection that takes what fits in turn (`FirstFit`) is the set
whose members are those that fit with the members before them. The walk that
moves tensors is one step: a tensor that several modules have is where the last
of them leaves it (`LastMoves`). Bytes are in halves of a GiB and ratios in per
cent; only tensors above the small-tensor threshold are in a tree, the others go
to the device. When several prefixes are equally good, the inferred one is
arbitrary.

**`PinnedWeights`**: `_pin_linear_weights` by several hooks at once: submission
in a window of workers, look-up, copy, `setdefault` and assignment as separate
steps of a worker, failure, cancellation, leaving the pool. The namespace of a
hook is the configured one or else the class of its module (`NamespaceOf`), as in
`initialize_hook`; a tensor is known by the hook and the name it was copied from.
Shapes and types, the rest of the key, are the same for weights of one name here.

**`WeightLending`**: the replaced forwards, as a stack of frames that know whose
data they keep. Dense layers exchange their parameters at once, packed layers
and convolutions one after the other; any copy and any forward may raise.

**`HookLife`**: routes, `apply_dynamic_offload`, `remove_dynamic_offload` and
clean-up, one step per resource. `Setup` and `Release` are the orders of
`initialize_hook` and `deinitalize_hook`. A removal goes through all of `Release`,
and a step has nothing to do for what is not open (`Opened`), as the code tests
each attribute for None. A hook whose initialization raised is
"lost": no registry knows it. Group offload by diffusers is external.

### Records

**`CapacityProfiles`**: `_NamedProfile.prepare` and `measure` and the file under
them, read, written and replaced by several processes that may be killed between
any two of these. Memory is in whole GiB.

**`MetricsJournal`**: `record` step by step (draft, write, link, unlink; on
Windows, rename), with kills and a full disk.

**`ExecutionDiagnostics`**: the timer and the allocation scope. Every call into
CUDA may raise, the one that sets off the switch for allocations included, which
then stays on (`stuck`); a timer that could not record its end has a status of its
own. **`OperatorDiagnostics`**: hooks, nested and interrupted forwards, the single
owner, and trace files. `_end` asks whether the name of a trace is free
(`EndCapture`) and then writes it (`Export`), and the same code in other processes
does so in two steps, too (`OtherFindsFree`, `OtherExports`); the later of two that
found the name free replaces the trace of the other.

## Runs

| Run | Instance | Shows |
|---|---|---|
| `vmm_sequential` | 4 groups, 2 slots, budget 2, reads fail; 22,265 states | In ordinary operation every lease has an owner (`LeasesAccounted`), the slot that a thread is filling stays the active one until its upload is marked (`FilledSlotStays`), the second attempt of an acquire always finds room (`BudgetSuffices`), at most the next group is held (`LooksOneAhead`), and nothing is outstanding between forwards (`RestsEmpty`) |
| `vmm_ring` | as above with budget 3; 34,694 states | `SlotNotInFlight`. With a budget of two groups the arena itself waits for the earlier copies before it places a third group, and the ring's own wait is never needed; with three it is |
| `vmm_irregular` | 3 groups, one exception, one skip, reads fail; 754,031 states | Whatever happens: types, `KernelsSeeLoadedWeights`, `TakesPendingGroup` (no KeyError, no "still active"), `MainReturns`, `DetachLetsGo` (a detach that finds leases, futures and a busy worker ends with all of them let go and the runtime closed), and the refinement of `WeightResidency` |
| `vmm_retires` | one exception, reads do not fail | violation, finding 1 |
| `vmm_no_room` | one exception, reads do not fail | violation, finding 2 |
| `vmm_store` | weights of 1 and 2 granules, budget 2, 2 callers, one stream, 2 failing driver calls; 180,041 states | types, `ReadsSeeWeights`, `ResidentAccounted`, `LeasedStaysViewable`, `LockComesBack`, refinement |
| `vmm_store_streams` | the callers on two streams | violation, finding 3 |
| `vmm_store_close` | no failing calls | violation, finding 4 |
| `records` | two runners on a profile (4 runs), two journals on two steps (4 records), two timers and two gauges (2 steps), two probes (3 forwards) that both ask for one of them, and other processes in their directory; 6 units with a headroom of 2 and a probe of 4; kills, full disks, exceptions; 5,024,113 states | a settled recommendation keeps the headroom and was tried or follows from the baseline (`HeadroomKept`, `SettledWasTried`); the profile is whole after a kill; a journal's records are its own and whole; scopes let go of the store and of the process; a report that calls itself complete is one, with traces of its own unless another process wrote over them |
| `loading` | two files of 4 bytes and a slot of 4, two tensors that may share storage on four addresses, three weights on two pages, three nested loads, three module trees in 1,082 configurations and a second preparation, three hooks with weights of the same names, two of them of one class without a namespace and one with its own, four layers to depth 3, two components with two hooks and two exceptions; 1,728,416 states | `StagedMatches`, `HandlesOutliveReads`, `ProvenanceTrue`, `SourcesKept`, `PinnedIsOwned`, `PatchUndone`, `OpensReported`, `PlanFits`, `PinnedTruly`, `SourcesReturn`, `RemovedIsUndone` |
| `loading_late_import` | one loader module not imported before the first load | violation, finding 5 |
| `detach_active` | as `loading`, without exceptions in `HookLife` | violation, finding 6 |

`PlanFits` has four parts: residents stay within the budget and leave out
nothing that fits; an explicit limit of page-locked bytes is kept (up to the
5 per cent at which the code takes all); the automatic policy fits the memory
it was told of, on a first preparation, but for the modules that were to be
always resident and are streamed after all, under full pinning or a calibration
(the code computes the budget before they join); and what a module computes with
is on the device, or its forward brings it there, unless a wrapped module has
the same tensor (then the preparation of that one moves the tensor back). `RemovedIsUndone` has three:
a hook that is gone left nothing open, files outlive the arena that reads them,
and no component has two hooks or the forwards of a hook that is gone. `PinnedTruly` has three: a weight is only
exchanged for the one of the same name in a model of the same namespace; hooks of
a namespace share one copy as long as nobody empties the cache; and no byte is
counted that is not page-locked. Each of these conditions is named in the property
with the behaviour that makes it necessary.

Several properties have exceptions, for what the code does not prevent. They are
stated where they stand, and are these. `DetachLetsGo` leaves out a detach that
raises because a prefetch it waits for had failed, or because a lease was lost when
`mark_upload` raised after an aborted forward. `StagedMatches` leaves out the
bytes of chunks that still ran when their read was reported as failed.
`PinnedIsOwned` leaves out a registry whose close raised half way. `HeadroomKept`
leaves out probes with few candidates. `ScopesLetGo` leaves out a timer that raised
while entering and a switch that could not be set off. `CompleteIsCaptured` leaves
out a trace that another process wrote over. And nothing forbids that a profile
loses an observation to another process, or that two models of one class with no
namespace configured get each other's weights.

Why the bounds are enough. The runtime only ever relates a group to its
neighbour, so three groups give a previous, a current and a next one, and four
let a wrong neighbour be seen. Budget 2 is the least the code accepts, so every
third group evicts. Two slots are the pool's default, which the
runtime takes, and the ring comes round with the third group. `MaxUploads` bounds the
copies outstanding, and is as large as the number of slots, so that a slot is
waited for; `MaxLaunches` lets the waits and kernels of two groups be queued
(the bounds only hold a thread back, they discard nothing). One exception and
one skip are enough to bring the runtime into every state it can start a
forward from with one group left over. In the store, a weight of the size of
the whole budget and a smaller one make every mapping of one evict the other,
and two callers are what sharing takes; with two failures one can hit a mapping
and another the unmapping of the same slot.

In `loading`, a slot that three tensors fill exactly makes ranges join and chunks
come out short; three loads nest twice; the trees have a tensor that cannot be
streamed, numbered blocks, and packed layers that share a tensor, and the
budgets are chosen around the sizes in them, so that each order and each limit
makes a difference; three weights and two workers fill the window of the pool,
two hooks of one namespace meet in the cache (a hit, and a copy that loses the
race to be stored), and the third is one that must stay apart;
depth 3 lets a layer be called inside itself with another between. Two hooks
are an earlier one and its successor, and two exceptions let a removal fail and
its repetition, too. In `records`, a calibration, a probe and its correction take
three runs, so that four have another runner between any two. No fairness is
stated in these two: they ask what may never happen.

Fairness. `Fairness` in both components is weak fairness of what the operating
system and the GPU do: a thread inside a procedure goes on, a stream completes
its operations. It is not assumed that anybody starts a forward, calls the
store, gives a lease back, detaches, or raises. Which of several actions a
thread takes is its own choice, and the lock needs no fairness of its own: at
most one other thread competes for it. `MaxUploads` and `MaxLaunches` are
relieved by the streams, which run on.

## Findings

1. **An upload retired by the wrong thread** (`vmm_retires`).
   `VmmModelArena.mark_upload` (`vmm_model_arena.py:236`) asks the shared pool
   whether an upload is active after the lock was released. After a forward that
   raised, the worker may still be filling a slot while the next forward
   schedules its first group, finds that slot active and retires it under the
   worker, whose `stage` or `mark_upload` then fails. The docstring of
   `has_active_upload` says the check prevents this. `KernelsSeeLoadedWeights`
   holds nevertheless (and is proved).
2. **No room after a forward that raised** (`vmm_no_room`). The group prefetched
   by such a forward stays pending, with its lease. When it is not one of the first
   two, the next forward enters its first group and needs room for the second, but
   the first and the one left over take up a budget of two, and the acquire fails at its second attempt too. No
   later forward gets as far as the group left over, so none succeeds until the
   hook is detached. The code accepts a budget of two groups as one that fits "the
   current and prefetched execution groups".
3. **A second stream is not ordered after the copy** (`vmm_store_streams`).
   `VmmWeightStore.acquire` orders a caller after the last release, not after
   the copy of a caller who still holds the weight.
4. **A refused close frees addresses** (`vmm_store_close`). The slots before the
   leased one stay in the store with addresses that were freed.
5. **A late import keeps the wrapper** (`loading_late_import`). A loader module
   that is imported for the first time inside `_temporary_safetensors_backend`
   takes the wrapper by name; it is never put back, and files read through it
   in later loads are reported to the first (`dynamic_offload.py:3532`).
6. **An active detach is not refused** (`detach_active`). The test is in
   `detach_hook`, but removal calls `deinitalize_hook`; the documentation says
   that active detach is refused. Parameters are given back all the same
   (`SourcesReturn`, proved).

Met on the way, and not disagreements with what the repository says:
`cleanup_on_error` of an old result removes the newer hook of its component;
a component switched to group offload keeps its earlier dynamic hook;
`from_pretrained` and `apply_dynamic_offload` use `linear_runtime` for quantized
modules, where `enable_offload` switches to the SDNQ one; the default namespace
of the pinned cache is the class name, so two components of one class with
weights of the same names and shapes share tensors (`WeightsFromKin` says that it
goes no further); once the registry or the pool refused to close, a second
removal takes the hook for closed and leaves it open.

## Proofs

All for arbitrary constants (numbers of groups and slots, keys, sizes, layers,
hooks, tensors, processes, bounds). The assumptions on the constants are named
where the constants are declared, and TLC evaluates them in the runs:
`RingAssumption`, `ArenaAssumption`, `GroupsAssumption` (at least one slot and
one group, two threads, bounds are numbers), `StoreAssumption` (weights have a
size, there is a stream), `LendAssumption` (parameters come in sequences, the depth
is a number),
`PatchAssumption` (wrappers are not the original, "not imported" is no function),
`PlannerAssumption` (finitely many tensors, each with some bytes; the places of
modules in a tree, `TreeAssumption`; amounts in a configuration are numbers, and
a selection has one of the three orders, `ConfigAssumption`), `HostAssumption` and
`LifeAssumption` (finitely many weights and components, bounds are numbers),
`ReadsAssumption` (sizes are numbers, chunks are not empty),
`SourcesAssumption`, `ProfilesAssumption`, `JournalAssumption`, `ScopesAssumption`
and `ProbesAssumption` (values that stand for "none" are no values; the
least budget that a probe may leave is no more than the total). A theorem that needs more says so
in its statement.

### Execution groups

`VmmKernels_proofs!TypeCorrect` is `Spec => []TypeOK`: one lemma per
group of actions.

`VmmKernels_proofs!KernelsSafe` is `Spec => []KernelsSeeLoadedWeights`, in every
behaviour of the runtime, the irregular ones and those of finding 1 included.
The property is far from inductive: that the head of the compute stream finds
its weights depends on events recorded long before. The invariant `IInv`
connects the two ends, in these parts:

* `Basics` : types, `Locking` (a thread inside an acquire holds the lock, and its
  group has a backing and is not loaded yet) and `Position` (inside of a group
  the main thread holds its lease).
* `Covered` : the arena counts at least the leases that threads, pending and
  active groups claim. (Not "exactly": after finding 1 a lease may be lost, and
  a lost lease protects too much, never too little.)
* `ClaimsLoaded` : a claimed group is loaded, so its backing is not taken.
* `FillsOutstanding`, `Stamped`, `PendingEvents` : the ticket of a copy never
  exceeds the number of operations outstanding, and the ticket of the event a
  thread holds, or that is pending, is at least that of the copy into its group.
* `ActiveWaited` and `StreamWaits` : for an active group the compute stream has
  a wait behind which the copy is complete; tickets before a kernel cover its
  copy.
* `RunsProtected` : a kernel in the compute stream belongs to a group that is
  leased, or whose release event is behind it.

`IInv` is inductive (`InvariantHolds`), and the head of the stream is the case
where no wait and no operation is left before the kernel.

`VmmKernels_proofs!LeasingImplemented` is `Spec => ImplementsResidency`, step by
step: every action of the groups is an action of `WeightResidency` or a stutter.
`RunsProtected` gives the guard of `Remove`, the head of the stream that of
`Finish`; that an arrival is of one group at a time needs two copies never to
complete together (`FillsApart`).

`VmmSchedule_proofs` is about who has which group, in two invariants.

* `Taken` holds in every behaviour while the hook is attached. A prefetch that
  the worker has is owed to a future, or to the main thread that awaits it
  (`Owing`); one that is done left its group pending (`Delivered`); one group is
  active (`OneActive`), and the main thread is about to take one that is pending
  (`Taking`). So the code reaches neither its KeyError nor its "still active"
  error: `GroupsAreTaken`, for any number of exceptions and skips.
* `Orderly` is for forwards that run their groups in order or fail on a read
  (`RegularForwards`: `MaxAborts = MaxSkips = 0`; findings 1 and 2 show that the
  condition is needed). `Phases` says for each position of the main thread what
  is pending, active, in futures and with the worker; `LeasesAccounted` then is
  inductive, `Marking` says that nobody takes the active slot from a thread that
  fills it, and `Covering`
  that a slot's event is behind every copy from it but the one about to be
  marked. From it follow `LeasesAccounted`, `FilledSlotStays`, `SlotNotInFlight`,
  `LooksOneAhead`, `RestsEmpty`, and, where `Budget >= 2`, `BudgetSuffices`: the
  second attempt of an acquire always finds a place.

### The store of single weights

`VmmWeightStore_proofs` has two layers. `Basics` needs nothing of the streams:
`Locked` (one caller inside), `Positions` (what a caller decided from the slots
is still true when it acts on it), `Leased` (the number of leases is that of the
callers who have one, and a leased slot has its view) and `Accounted` (the bytes
are those of the granules of the handles). It gives `TypeOK`, `ResidentAccounted`
and `LeasedStaysViewable`, whatever driver calls fail half way.

`Ordered` assumes that all callers use one stream (`SharedStream`; finding 3 shows
why). A weight with a view is complete or its copy is on the way (`Landing`); a
read that is outstanding has its copy before it, and a lease or a release event
that keeps the weight until it is through (`ReadsProtected`). It gives
`ReadsSeeWeights` and, with what each kind of step does to the mapped state
(`Leasing`), `ImplementsResidency`.

### The planner

`Planner_proofs!PlansFit` is `PlanSpec => []PlanFits`, for any trees, any tensors
and their sizes, and any configurations, over both preparations; and
`PlanTypeCorrect` is `PlanSpec => []PlanTypeOK`. There are three layers.

*Sums.* The size of a set of entries is a number of bytes. From the cardinality
of disjoint unions come the rules for sums: parts add up (`PackedSum`), more is
not less (`PackedMore`), and what is counted twice only makes a sum larger
(`PackedEither`, `PackedUnion`). The last is why a parent and its child that are
both selected, or two modules that share a tensor, never take more than the
budget: `ModuleBytesCover`. What would be an induction on a set takes a smallest
subset for which the claim is false (`SmallestSet`).

*Selections.* Each order puts one of any two items first (`InLine`): the order of
the tree, that of the places of tensors, largest first, and spread, whatever
indices the spreading chose (`OrderedInLine`). Along such an order taking items in
turn has a result (`FirstFitExists`; were there none, `FirstFit` would
be an arbitrary set and every bound of it void), and the result fits, with
nothing left out that would fit (`FirstFitFits`, `LastInLine`).

*Phases.* `PlanInv` carries each bound from the phase that decides it to the hook
that is ready. `CacheClean`: no decision of a hook is in the plan cache, so that
a plan begins undecided, from the cache or not. `Untouched`: what budgets
are computed from is the module as it was loaded. `BudgetAsked`: an explicit budget
is not replaced, and an automatic one fits what it counted, or pinning is
skipped. `ResidentsPlaced` and `StreamedOnly` say the same of residents and of
what is wrapped. Where `PlanFits` allows more than the memory that the policy was
told of, the proof is what showed that it must: `StreamedCounted` needs every
streamed module to be among those counted, or to be always resident in the
configuration and not in the plan; and `ReachableAfter` needs the tensor
not to be one that a wrapped module has, too.

### Pinning and lending

`Weights_proofs!LentComesBack` is `LendSpec => []SourcesReturn`. The
property speaks of the moment when no forward is in progress; the invariant says
who owes what while some are. Every copy is kept by a frame that did not find it
a copy (`CopiesOwed`); what a frame found as a copy is owed by a frame below it
(`FoundOwed`) and lent now (`FoundLent`); of two frames that keep a parameter the
upper one found it a copy (`FoundAbove`); a closed convolution has a frame
(`ActiveFramed`). When the last frame goes, there is nothing left to owe.

`Weights_proofs!PinsAreTrue` is `PinSpec => []PinnedTruly`, without
assumptions: for any namespaces, configured or not, with the cache and without,
with the fallback and without. The invariant adds to the property
that what is in the cache and in the hands of workers is of the kin of who may
find it (`SharedTrue`, `FoundTrue`, `CopiesReady`), that until the cache is emptied
what is page-locked is what it holds (`LockedShared`; from it `OneCopy`), and that
a finished future has locked its weight (`DoneLocked`).

### The life of hooks

`HookLife_proofs!HooksAreUndone` is `LifeSpec => []RemovedIsUndone`, for any
components, requests, number of hooks and of steps that raise. What a hook may
still have open depends on the steps it has yet to take (`Lived`): a setup opens
nothing but forwards before it is active, so that the test at the start of a
removal finds the rest (`Starting`, `Standing`); a removal has closed what its
order has passed (`Closing`); and only a registry or a pool that refused leaves a
hook that the next removal takes for closed (`Excused`). Between hooks,
`Registered` says that a component has one hook and that it stands for it,
`FilesThere` that files are kept for who still reads them, and `Forwards` that
beneath the forwards of a hook lie only those of lost ones. Without this last
part the property is not inductive: a removal puts back what was beneath, and
what was beneath must not be of a hook that is gone.

### Loading

`Loading_proofs!EarlyImportsRestored`: after any number of loads, nested in any
way, safetensors and the loader modules that were imported before them have the
functions they had. `PatchComesOff` is `PatchSpec => []PatchUndone` where no
module is imported late, the condition that finding 5 shows to be necessary, and
`FilesAreReported` is `OpensReported` under the same condition.
The invariant describes the stack of loads: each saved what the load below it
had put in place (`Chained`), and the modules imported in time follow
safetensors and are to be put back by every load (`EarlyFollow`).

`ProvenanceIsTrue` and `SourcesAreKept` come from `SourcesInv`. A load filled each
storage with what the file has for its names (`LoadedTrue`); an address in the
registry holds the bytes that its entry names (`RegistryTrue`); no tensor's
storage is freed (`Alive`); outside of a detachment the registry says of every
tensor what its owner knows (`KnownAgrees`); and during one the new storages hold
what the old ones hold and are new to the registry, and a tensor is where it was
or is noted with its old address (`Moving`), so that a rollback is possible at
any point.

`PinnedHasOneOwner`: `HostInv` says that a page has one owned entry at most
(`OnePerPage`), that a page registered as ours has an entry that is left to be
given back (`OursAreLeft`), and, unless a close raised, that only such a page has
one (`LeftAreOurs`).

`StagedBytesMatch` is `ReadsSpec => []StagedMatches`, for any tensors, files,
slot, size of chunks and number of threads. It has three layers. The layout:
sizes are numbers of bytes (`PackedBytes`), so the lemmas about them need no
recursion. Tensors lie in line (`TensorsInLine`), each in one run at its place
(`EveryTensorRead`, `RunsAligned`), runs do not overlap (`RunsInLine`), and the
chunks of a run cover it (`ChunksFill`). The requests: `Shaped` says what a
request is, and `OneRequest` that a step changes one of them. The bytes: a batch
in progress has a request for each of its runs, and is staged when all are
done (`Laid`); and a cell of a run that was begun is right, or late, or in a chunk
that is still to be read or has failed (`Filling`). A request that is done has
neither, and the property follows.

`HandlesStayOpen` is `HandlesOutliveReads`: who closes the handles has waited for
every chunk, in every order of answers and failures.

`LoadingTypeCorrect` is the type correctness of the composition:
`MCSpec => []LoadingTypeOK`. A behaviour of the composition is one of each part,
with the others standing still (`PartsRun`), so it follows from a theorem of
each part. Three of them need more than their actions. That every weight is
recorded once (`RecordedOnce`) bounds how far a close can be in the list of
registrations; that runs end within the slot (`RunsOfSlices`) makes what is read a
part of the slot; and the positions of hooks come from the invariant of their
lives.

Where an argument needs the first or the last of something, it uses
`LeastNumber`: sets of numbers have a least element. The lemma takes the place of
induction, and is proved from the well-foundedness of inclusion of finite sets.

### Records

`Records_proofs` has an invariant for each part: a draft is its journal's, and
whole when published (`Drafted`); the end of a timing is recorded after the
timeline was sealed, and the store's timeline is one that a timer attached
(`Measuring`); a sample is of a trace that its own scope wrote, or that another
process wrote over, and a trace that a scope is about to write is no sample of any
other (`Captured`): a scope between asking and writing is the owner, and others
refuse to begin. They give `RecordsMine`, `RecordsWhole`, `ScopesLetGo`, `CompleteIsMeasured`,
`OwnerIsHooked` and `CompleteIsCaptured`.

For profiles, `Sound` says when a record may be trusted, of the file, of every
temporary copy and of every draft, and `Knows` what a runner knows at each stage
of its run; a budget `Suits` a workload if a run with it keeps the headroom, or
needs no more than one that came through. They give `ProfileWhole`,
`SettledWasTried` and `HeadroomKept`. That proof showed what the second case of
`HeadroomKept` is for: a correction subtracts from the whole probe, also when the
candidates are fewer than it. With 6 units, 2 of headroom, a baseline of 3, 3 of
candidates and a probe of 4, the correction recommends 2, and the run peaks at 5,
above the 4 that were to be kept. (With a headroom of one unit this does
not show; the run therefore has two.) `RecordsAreTyped` is the type correctness
of the composition `MCRecords`.

### Only model-checked

Liveness (`MainReturns`, `DetachLetsGo`, `LockComesBack`), which is out of the
prover's reach. Every invariant of a passing run, and every refinement, is a
theorem. Of the violation runs, nothing is provable
but that their properties hold where the finding's cause is absent, as above.

## Left out, and why

* Errors of CUDA itself (a copy or an event that fails) in the VMM modules, and,
  in the groups, exceptions that are no `Exception` (a KeyboardInterrupt skips
  the forward hooks). A copy that raises in `VmmWeightStore.acquire` after the
  mapping leaves a slot that counts as filled; this is a listed hazard without a
  property.
* Groups that run inside other groups, hooks on components inside other
  components, one hook used by two threads at once, a layer that runs in two
  threads, loads in two threads: the code forbids none of these and supports
  none.
* The layout of a group in a slot of the ring, and sizes of groups there: a group
  is a unit and the budget counts units, as the code's own check of the budget
  takes the largest group. (`CheckpointReads` has the layout of one slot.)
* `weight` and `contains_weight`: they read. The lock that `weight` takes is in
  `Run`.
* In the planner: large tensors of the root module, and errors and parameter
  counts of SDNQ pinning. In `HookLife`: aliases of routes, and wording.
* In the records: disabled journals and scopes, which do nothing; labels of child
  modules; more than one capacity metric (each is merged by itself); a profile
  session of the host that recommends nothing before it observed; a timer whose
  first boundary raises in `__enter__` and stays attached (named in the
  property). A correction of a probe takes the whole probe as used.
* Presets and configuration, the report (`metrics.py`), caches and memory
  inspection, float8 loading, process bootstrap, and the scripts that build and
  measure: they parse, call once and format, and keep no state between calls.
* What `vmm_fast_runtime` does with its weights is in the native package
  `ddo_vmm_allocator`, which is not in the repository; its set-up and removal
  are in `HookLife`.

## Plan

What is left, in this order:

1. The copy that raises in `VmmWeightStore`, as a third kind of failure, with the
   readers it misleads.
2. Construction of execution groups from the module tree (which parameters join
   which group, shared parameters), composed with `WeightPlanner`'s trees.
3. Two threads in `LoaderPatch` and in `WeightLending`, to say what exactly the
   code would have to forbid.
4. Theorems about findings: that with the test of `detach_hook` in removal, and
   with a `mark_upload` that asks who took the slot, the properties of findings 1
   and 6 hold in every behaviour.
5. A detach after a lost lease: what the code would have to do to close then, and
   the same for the group that a forward which raised left pending (finding 2).
