# A TLA+ verification of the CubeCL runtime

CubeCL compiles kernels written in Rust for several kinds of device and runs
them. This directory specifies the part of it that is concurrent, stateful and
long-lived: memory pools, the streams and threads that feed a device, the client
and its channel, autotuning and the cache it shares between processes; and of the
kernel libraries the one with the most concurrency inside a kernel, matmul. Every
module is a translation of the code under `src/crates/`; TLC checks each one on
a small instance, and TLAPS proves the results listed under "What is proved" for
every value of the constants.

`PROJECT.json` has the machine-readable form: the components, the runs, for each
definition the lines of code it stands for (`map`), the hazards of the code with
the properties that would catch them, a plausible bug for each property
(`mutants`: operators named `Definition_Bug`, defined before `Definition`), and
the theorems.

To check a module: `tlc -config MCSlicedPool.cfg MCSlicedPool`; to check proofs:
`tlapm SlicedPoolProofs.tla`.

## The system

```
 threads of the program                      other processes
   |  ComputeClient (profiling lock,              |
   |  static sections)      LocalTuner ------ persistent cache (file + lock file)
   |                          TunePlan
 channel: mutex | refcell | mpsc
   |
 ComputeServer: wgpu | cuda | hip | cpu
   |-- MemoryManagement --- sliced pools (ring buffer), exclusive pages, static pool
   |                             |
   |                        ComputeStorage (device memory)
   |-- wgpu: stream (recording, submission, regulation), query profiler, polling thread
   |-- cuda, hip: device stream, pointers of launches, queued frees
   `-- cpu: scheduler, worker threads, cube barrier

 on the device: matmul kernels (cubes -> planes -> units, stages in shared memory)
```

Handles to memory are counted references. Client threads clone and drop them
without asking the server, so the pools read counts that change under them. The
server itself is behind a lock or a queue: its operations do not interleave with
each other, which is why the modules of the servers take one operation, with all
it calls, as one step, and split a step only where another thread, another
process or the device can come between.

### Inventory

| Part | State | Operations | What is hard |
|---|---|---|---|
| Sliced pool, ring | pages as maps from address to slice, slice table, queue of pages, cursor | `try_reserve` (search with split and merge, two passes), `alloc` | counts drop during a search; contiguity and alignment after any history; a cursor that is a byte address and outlives merges |
| Memory management, exclusive pages, static pool | pages with one slice, free counts, last check, mode | `reserve`, `cleanup`, `mode` | return or reuse of a page that is in use or still needed by recorded work |
| wgpu stream | recorded tasks, queued writes, `pending_operations`, counters of `regulate` | `create`, `create_tensors`, `empty`, `register`, `get_resource`, `flush`, `sync` | queued writes run before everything recorded; flushes forced in the middle of an operation; waits that time out |
| wgpu query profiler | query sets with counts, start set of each profile, current set | start, end, pass, flush | profiles that overlap and share sets |
| wgpu polling thread | reference count, park token, cancel message | `start_polling`, the thread's loop, drop | wakeups between two steps of the loop |
| Client | `current_profiling`, nesting, mode of the server, `TimestampProfiler` | `profile`, `memory_static_allocation`, guarded and unguarded operations | check of the lock and use of it are two steps, far apart for a future; nesting; panics |
| mpsc channel | queue, message being served, futures | call, cast, future (polled late, dropped) | order of operations with different ways of waiting |
| Autotuner | cache, set `autotuning`, channel of results, disk | `execute`, benchmark job, results, `clear` | benchmarks outside of the lock; `clear` meanwhile; stale saved results; wasm |
| Tune plan | priorities, groups, lists | `new`, `next`, `cleanup`, loop of `execute_tune_plan` | a candidate in several groups |
| Persistent cache | file, lock file, memory and cursor of each process | `new`, `insert`, `for_each`, lock, unlock | kills between any two system calls, short writes, locks that expire, creation races |
| CPU execution | counter of the barrier, inboxes, answers | `dispatch_execute`, worker loop, `sync_cube` | units that wait for units behind them; accesses of an atomic counter |
| CUDA and HIP servers | work on the device stream, pointer ring or map, queued frees, timestamps | create, read, execute, sync, cleanup, profiles | pages dropped and reused while work on them is still to be done; pointers overwritten before a launch has read them |
| Matmul, one cube | stages in shared memory, fragments, accumulators | five global matmuls over a dozen loading strategies | units that race between barriers, roles that miss each other at one, stages skipped or read twice |
| Matmul, the launch | order of the cubes, shape of the grid | plans and their limits, cube to output | parts of the output computed twice or by nobody |
| Everything else | | compilers, macros, IR, optimizer, other kernel libraries, configuration | sequential transformations, text, or numerics on the device |

Interactions between the parts are kept through what one part assumes of the
other, stated in the modules: `WgpuStream` reserves any free slice outside of the
excluded pages, which covers the choices of either pool; `LocalTuner` uses the disk as the
write-once map which `PersistentCache` is shown to implement; `WgpuTimings` composes
`QueryProfiler` and `WgpuPoll` as the stream does; `ClientProfiling` sends to a
server that takes operations one at a time, as the channels guarantee;
`MatmulCubes` gives every cube its part of the output, which `MatmulKernel` computes.

## The modules

Each module starts with a comment on what it abstracts from; constants that
only bound a model are marked `bound`. Variables have the names of the fields they
stand for where the code has one. An action is a whole operation, except where it
is split at the points between which others can act, as said here.

**SlicedPool** (`memory_pool/sliced_pool.rs`, `ring.rs`, `base.rs`). `pages`,
`slices`/`ids`, `queue`, `cursor_chunk`, `cursor_slice` are the fields of the pool
and the ring, `refs` the clients' references, `call` the local variables of
`find_free_slice`. A search is a sequence of steps, one for each read of a
reference count: `NextChunk`, `TakeSlice` (with `split` and the rest of
`try_reserve`), `RejectSlice`, `MergeWithNext`, `Advance`, `SecondPass`; then
`Alloc` or `AllocFails`. `CloneHandle` and `DropHandle` happen between any two of
them. A storage id is the position of its page in the queue, since pages are only
appended.

**ExclusiveMemory** (`memory_manage.rs`, `exclusive_pool.rs`, `static_pool.rs`).
Reserves in both modes, by reuse or by a new page; cleanup, explicit or as a part
of the stream's flush; changes of mode. The moving average that sizes a new page
is any size the pool allows. The counter of reserves is kept as the
distance to each pool's last check.

**WgpuStream** (`cubecl-wgpu/src/compute/stream.rs`, `mem_manager.rs`,
`server.rs`). The record `stream` has the fields of the stream and of
`SubmissionLoad`, and what the device has not finished. An operation is one step
in which the stream is threaded through the calls it makes (`Used`, `Copied`,
`FlushIfNeeded`, `Regulate`), so that a flush forced in the middle happens there.
Whether a wait for the device ends in time is a choice. `late` and `overtaken`
record writes to slices which recorded work uses: the first for writes of `create`
and of the uniforms of a launch, the second for those of `create_tensors` and to
the buffer a launch takes its cube count from. A launch has a uniform for its metadata
and one for the scalars of each element type, of which there are at most two here.

**QueryProfiler** (`timings.rs` and its use in `stream.rs`). Profiles, query sets
with their reference counts, the open pass. History variables tell in which kind
of pass the last task of a profile ran and whether a flush or another profile cut
the profile in two. Ids and tokens come from counters in the code; a free one is
taken here, since those that nothing mentions any more cannot be told apart.

**WgpuPoll** (`poll.rs`). The thread step by step (count, poll, channel, park);
readers, whose `start_polling` is two steps; the drop of the owner in three.

**WgpuTimings** (`stream.rs`). The stream with both: it extends the two modules and
joins their actions. `end_profile` starts polling, closes the pass, stops the profile
and hands the handle to a future, or drops it at once when there is nothing to await.

**GpuServer** (`cubecl-cuda/src/compute`, `cubecl-hip/src/compute`). The calls of a
server, each of which enqueues work on one device stream that the device runs in
order at its own pace. A launch looks its pointers up one by one, CUDA in a ring of
slots, HIP in a hash map that may move its entries when it grows. Pages that are freed
are collected and stay with the storage. A call that panics, for want of memory or in the
compiler, unwinds its caller only: the server is behind a mutex that a panic does not
poison, and goes on with what the call had done so far.

**MatmulTiling, MatmulLoad** (`cubecl-matmul/src/components`). Pure definitions: how
a stage is cut into tiles, which planes load and which compute, where a tile stands
in stage memory; what each loading strategy requires, and what each of its tasks
moves from where to where.

**MatmulKernel** (`components/global`, `components/stage`, `components/batch`). One cube.
`Kernel(c, u)` unrolls what unit `u` runs into a list of operations (the bounds of all
loops are known at launch); the machine interleaves the units between barriers. An
element is its coordinates and an accumulator the sequence of products added to it.

**MatmulCubes** (`components/batch/partitioned_matmul/hypercube`, ...). The launcher's
choice of order and grid within the limits of the device, and the cubes one by one.

**ClientProfiling** (`client.rs`, `timestamp_profiler.rs`). For each thread the
stack of its sections and where it is; `current` is `current_profiling`. The guard
and the operation behind it are two steps. `read_async` looks at the guard when it is
called, but over `mpsc` its message is sent when the future is first polled: `unsent`
counts the futures a thread has made and nobody has polled (`Hold`, `Poll`, `Drop`). A
function may panic in a section; an execution may fail while profiles are active.

**MpscChannel** (`channel/mpsc.rs`). Operations by the way they wait: `CallServer` blocks,
`Cast` does not wait, a future sends when it is first polled and may be dropped.
`Serve` and `Respond` are the loop of the server, `ServerPanics` its end when it
cannot answer.

**LocalTuner** (`tune/local.rs`, `tuner.rs`, `tune_cache.rs`). The two lock blocks
of `execute`, the benchmark between them, the results one by one, `clear` by
another thread, other processes that save results. On wasm one thread runs and
benchmarks are detached tasks. Assertions and unwraps that fail are states of a
thread of their own, and so is an operation that returns an error (`RunFails`), which
`execute` answers with a panic.

**TunePlan** (`tune/base.rs`, loop in `tuner.rs`). The plan as `new` builds it from
any assignment of tunables to places, `next` with `group_plan_next` and `cleanup`,
and the loop that benchmarks a batch and goes on if nothing worked.

**PersistentCache** (`cubecl-common/src/cache.rs`, `cache_file.rs`). One step for
each system call on a shared file. `disturbed` records which of the events the
cache is not made for have happened: a file truncated by a second creator
(`erased`) or by one whose existence check failed, which the code takes for "no file"
(`unseen`), a write that took a part of the entry and was not continued
(`short`: `cache_file.rs:79` calls `write` and not `write_all`), a lock removed after an
error (`stolen`), left by a killed process (`frozen`), expired while held (`outlived`).
Every property says which of them it survives. **WriteOnceMap** is what the cache promises.

**CpuExecution** (`cubecl-cpu/src/compute/scheduler.rs`, `worker.rs`,
`compute_task.rs`). `dispatch_execute`, the loop of the workers, and `sync_cube`
with a step for each access to the counter.

## The runs

A run checks one invariant that is the conjunction of the module's type invariant
and of its structural parts (`PoolInv`, `LockInv`, `TunerInv`, ...; the parts are
defined and commented one by one before it), and further properties. Where such an
invariant is proved it has the parts that make it inductive, so that TLC checks
the inductive invariant itself. Runs of several modules (`autotune`, `client`,
`matmul`, `streams`, `shared`) have a variable that says of which module a behaviour is;
the others are at rest.

| Run | Properties | Shows | Instance |
|---|---|---|---|
| `sliced_pool` | `PoolInv`, `LiveHandlesDisjoint`, `MissesOnlyCursorPage`, `LiveHandleStable`, `ReservationAsAsked`, `SearchEnds` | pages stay tiled by aligned slices, live handles share no byte and are never moved, a reservation is as asked and on no excluded page, searches end and overlook only slices on the page of the cursor | 2 pages of 6 bytes, alignment 2, sizes 1 and 4: splits with and without a rest, padding, merges of up to three slices, both passes; 318 000 states |
| `streams` | `StreamInv`, `BacklogBounded`, `GpuInv`, `LaunchedAsBound`, `BuffersAsCalled` | wgpu: writes of `create` and of launches overtake no recorded work, pending pages cover it, the backlog is bounded. CUDA and HIP: CUDA kernels get the addresses they were launched with, buffers hold what the calls wrote, profiles contain the work made during them | wgpu: 3 slices on 2 pages, 2 tasks per submission, a pending limit of 1, so that every limit is met in mid-operation. CUDA and HIP: 2 buffers, 3 pages, launches with up to three arguments, 2 slots, room for 2 keys at first, 2 pieces of work outstanding; 838 000 states |
| `wgpu_stream_tensors` | `NoOutstandingWork` (violated) | see "Disagreements" | wgpu, the same |
| `gpu_hip` | `PointersStayAlive` (violated) | see "Disagreements" | HIP, the same |
| `wgpu_timings` | `PollInv`, `ProfilerInv`, `TimingsArrive`, `ThreadRests` | counts of query sets exact, no leak, an uncut profile is measured as a whole; no lost wakeup, timings and data arrive while the stream lives, the thread sleeps and ends | 2 profiles and a read; 369 000 states |
| `client` | `SectionsInv`, `IntrudersWereEarly`, `ChannelInv`, `CallsServed`, `Answered` | sections exclude each other, only what had passed the guard when a section began slips into it, errors reach their profiles, the mode follows the sections, nobody waits for ever unless a function panicked; operations are applied once and in program order, and until a future is dropped every call returns | 2 threads, nesting 2, 4 operations each and 5 in all, reads held back at will; 2 clients, at most 3 operations of one and 5 in all; 462 000 states |
| `autotune` | `TunerInv`, `DefaultOnlyMeanwhile`, `PlanInv`, `FastestStable`, `TuningEnds`, `LoopEnds` | a key is benchmarked once, only the default or the candidate cached for the key runs, results are neither lost nor replaced; batches in the documented order, nothing forgotten | 2 threads, 2 keys (one of them tuned before for an older set), 1 or 2 candidates, native and wasm, any saved results, one `clear`; plans of 3 tunables over 2 × 2 priorities, one of them listed twice at a place at most and one with a single place at most; 433 000 states |
| `autotune_native` | `DefaultOnlyOnWasm` (violated) | see "Disagreements" | the same |
| `shared` | `LockInv`, `AnswersKept`, `RefinesWriteOnceMap`, `OperationsEnd`; `MemoryInv`, `HeldPagesStable`, `UnusedPagesGo`; `LaunchInv`, `LaunchReturns` | cache: a write-once map while undisturbed, what holds under which disturbance, an insert answered `Ok` is there for whoever starts later, operations end. Memory: pools and storage agree, pages in use are neither reused nor returned nor taken although excluded, unused ones go. CPU: when a launch returns every unit ran once and no worker is busy, nobody passes a barrier early, launches without barriers or with one unit return | cache: 2 processes, 1 key, 2 values, one fault (a kill, a failed check or a short write), new or existing file. Memory: 2 pools with check periods 1 and 2 and the static pool, 2 pages, 3 checks before a page goes (5 in the code). CPU: 3 workers, cubes of 1 to 7 units; 199 000 states |
| `cpu_sync` | `EveryLaunchReturns` (violated) | see "Disagreements" | CPU, the same |
| `matmul` | `RaceFree`, `OutputIsProduct`, `NeverStuck`, `GridInv`, `WorkInv` | no unit races in stage memory, none waits for ever at a barrier, every element of the output is its whole dot product, stored once; the grid is one the device takes, and no part of the output is computed twice or forgotten | every kernel, strategy, layout, order and role on tiles of one to four elements, odd and even numbers of stages; every plan and order on three devices |
| `matmul_tilewise` | `OutputIsProduct` (violated) | see "Disagreements" | one configuration that passes the strategy's check |

Deadlock is checked except where the model comes to rest by itself: threads that
have used up their bounded operations (`client`), threads that all panicked and a
loop that has ended (`autotune`), and
a kernel that is done (`matmul`, where `NeverStuck` says that nothing else stops it). In `shared` an action of
the MC module stands for the rest of processes whose operations are used up.

Why the bounds are enough: an exclusion, a merge or an overlap involves two pages
or three neighbouring slices; races are between two threads or processes of equal
rights (three for the poll thread, whose count changes its meaning at two); the
limits of the stream are set to where each is exceeded in the middle of an
operation; and the chunks of the CPU scheduler are tried below, at and above the
number of workers. What the bounds leave out is covered by proof for the safety of
every module but `GpuServer` and the matmul modules, and is not claimed for those (nor
for `MissesOnlyCursorPage`).

## Fairness

Liveness is stated under the weakest fairness that the scheduling of the code
gives, and never for what clients may choose not to do.

- `SlicedPool`: the thread that serves a request goes on (`WF(Serve)`). Clients
  may clone and drop for ever.
- `ExclusiveMemory`: the stream goes on reserving in automatic mode and cleaning
  up. A wgpu stream calls `memory_cleanup(false)` in every flush; a stream that
  stops cleaning up returns nothing. A static section ends; reserves need strong
  fairness, as those of automatic mode are disabled while a section is static.
- `WgpuPoll`, `WgpuTimings`: an `end_profile` or a read that has begun goes on, the
  polling thread runs, the device finishes what it was given, a future
  whose buffer is mapped is resumed, and a drop that has begun goes on. Starting to
  read, giving up and dropping the owner are not fair.
- `ClientProfiling`: a thread goes on; it need not make another call. Waiting is
  polling in the code (`profile_guard`, `profile_acquire`), so weak fairness of the
  step that finds the lock free is only enough because threads do a bounded number
  of operations: a thread that takes the lock again and again could starve
  another, in the model as in the code.
- `MpscChannel`: the task of the server runs and its methods return.
- `LocalTuner`: a call that was entered goes on, detached tasks run.
- `TunePlan`: the loop runs.
- `PersistentCache`: processes run, killed ones are started again, time passes.
- `CpuExecution`: worker threads and the thread in `execute` run.
- `WgpuStream`, `GpuServer` and the matmul modules state safety only and assume no
  fairness. `NeverStuck` is an invariant: a unit that is not done can go on or waits
  for one that can.

## What is proved

All proofs are for every value of the constants that satisfies the `ASSUME` of the
module; TLC evaluates that assumption on the instances of the runs. Numbers of
threads, processes, keys, operations and the bounds of the runs are such constants,
so a theorem holds for all of them. Each proof has one lemma for each action, or
group of actions that change the same variables, and lemmas on the operators they
use. The invariants that the runs check are stated in their inductive form.

| Theorem | Module | States | Run that checks it on an instance |
|---|---|---|---|
| `PoolInvariant`, `TypeCorrect`, `PagesStayTiled`, `NoSharedMemory`, `CursorStaysOnBoundary`, `HeldSlicesStayPut`, `ReservationsAsAsked` | SlicedPoolProofs | `PoolInv`, its parts, `LiveHandlesDisjoint`, `LiveHandleStable`, `ReservationAsAsked` | `sliced_pool` |
| `LockProtects`, `AnswersSurvive`, `ImplementsWriteOnceMap` | PersistentCacheProofs | `LockInv`, `AnswersKept`, `RefinesWriteOnceMap` | `shared` |
| `StreamTyped`, `WritesInOrder`, `Backlog` | WgpuProofs | `StreamInv`, `BacklogBounded` | `streams` |
| `QuerySetsExact`, `WakeupsKept`, `TimingsSound` | WgpuProofs | `ProfilerInv`, `PollInv`, alone and composed | `wgpu_timings` |
| `OperationsInOrder` | ServerProofs | `ChannelInv` | `client` |
| `PagesAccounted`, `HeldPagesStay` | ServerProofs | `MemoryInv`, `HeldPagesStable` | `shared` |
| `SectionsKeptApart`, `IntrusionBounded` | ClientProfilingProofs | `SectionsInv`, `IntrudersWereEarly` | `client` |
| `TunerSound`, `ResultsNotLost`, `FastestNeverReplaced` | LocalTunerProofs | `TunerInv`, `DefaultOnlyMeanwhile`, `FastestStable` | `autotune` |
| `PlanFollowed` | TunePlanProofs | `PlanInv` | `autotune` |
| `LaunchesComplete` | CpuExecutionProofs | `LaunchInv` | `shared` |

**Sliced pool.** Assumed: the page size is a positive multiple of the
alignment, and requests are from 1 to `max_alloc_size`, which is at most one page
(`PoolAssumption`). `SlicedPool::new` asserts the first; `reserve` picks a pool by
`max_alloc_size`. Nothing in the pool checks that `max_alloc_size` fits a page or
that a size is not 0: these are assumptions on its configuration and callers. That
live handles are disjoint is not inductive: it follows from the layout of the pages,
which a merge preserves only because the page map and the slice table agree, and
which a search changes only at slices it has found through its own address. The
inductive invariant is `PoolInv`: types, layout (`PageMapAgrees`, `Tiles`,
`Aligned`), held slices are known, and the cursor and the search stand on boundaries
of slices. That needs `SearchBehindCursor`: a search never works before the cursor
on the page of the cursor, so that no merge swallows the slice it stands on.

**Persistent cache.** Assumed: what stands for "nothing" and for a torn entry is
neither a value nor an entry. Exclusion rests on `LockOwned`: as long as no lock file
is lost, the lock file is of the one process that dates it or works on the file. That
the file binds no key twice rests on `FileKnown`: a process knows every entry before
its cursor, and one about to write has read the whole file. `WriteOnce` is stated for
`disturbed = {}`: after a truncation, cursors of other processes stand behind entries
they have not seen, and a key can be bound twice. `AnswersKept` rests on
`AnsweredInFile`, which holds whatever happens to the locks: entries are appended, so an
entry that a process read or wrote in whole stays where it is, as long as no file is
created over it and no write was cut short (`Kept`). For the refinement, the abstract map is the
content of the file, and each step is an insert or a stutter.

**Stream of wgpu.** Assumed: finitely many pages, and `tasks_max` and the round of
`regulate` at least 1 (`StreamAssumption`). `StreamTyped` shows that no operation
ends with `tasks_max` recorded tasks. `WritesInOrder` proves `StreamInv`: a
reservation that excludes the pending pages cannot return a recorded slice because
those pages cover the recorded work, and every step of an operation, flushes in the
middle included, keeps that (`Safe`). `Backlog` proves `BacklogBounded` from the
accounts of `regulate` (`Accounts`): what was submitted after the marked submission
has been counted, and what came before it is less than one round and one submission.

**Timings of wgpu.** Assumed: finitely many profiles and readers at a time, and that
every profile is a reader. That reference counts are exact (`RefsExact`) needs to know
which profiles have a start set at all: `PassesTimed` says that a profile has none
exactly until a pass is opened for it, that none is without one while a pass is open,
and that a pass without timestamps is opened only where every profile was cut before.
From this follows also that the pool of query sets never grows past the number of
profiles open at a time: a new set is created only when the pool is empty, and then
each existing set is the start of a profile of its own while one more is starting
(`KeptBounded`). For the polling thread, readers hold their handles (`HandlesHeld`), so
the count it looks at is above two whenever one of them waits and the owner lives, and a
thread that read it earlier finds the token. `TimingsSound` puts the two together; the
one step that is not a step of `WgpuPoll` is the end of a profile that awaits nothing.

**Channel.** `ChannelInv` speaks of the log: what was applied followed by what is queued.
That operations are applied in program order is a statement about the log, which a
send extends at its end and the server only shifts its boundary in. It needs that
every call and cast that was issued is in the log while the task runs
(`SentIsIssued`), and that a future that was not polled is not (`FuturesAreIssued`).

**Exclusive pages.** Assumed: pools of whole alignment units, and sizes that some pool
takes (`MemoryAssumption`); `reserve` panics otherwise. `MemoryInv` is inductive as it
is; the work is in the arithmetic of padding (`Padding`, `AllocSizeFits`) and in
the choice of pool and page.

**Sections of a client.** `SectionsInv` is inductive with `LockMatches` (the thread in a
section has the lock, through its outermost section alone), `ProfilesOpen` (the
profiles of the server are those of the open sections, one token each) and `ModeOpen`
(static mode exactly in static sections, but for a nested one that ended).
`IntrudersWereEarly` is inductive: during a section of another thread a thread cannot
pass the guard, so whatever it sends was on the way when the section began.

**Tuner.** Assumed: at least one candidate, thread and key. `TunerInv` adds to what is
wanted (a key is benchmarked once; a call runs the default or what is cached for its
key, `RunsKnown`; which assertions may fail and why, `PanicsAccounted`) where a
result is on its way: with the thread that benchmarks, with a detached task, or in the
channel, in exactly one place for a tuner and a key (`OneResult`), and somewhere as
long as it is not cached and nothing panicked (`ResultComes`). `clear` replaces the
tuner, so messages, tasks and senders carry the tuner they belong to (`Generations`).

**Tune plan.** Assumed: finitely many priorities, which are natural numbers.
`ListsMatch` is the strengthening: a tunable not taken out is still listed at all of its
places, and one taken out, if listed once at a place, is nowhere. Hence the list that
`next` takes is that of the highest priority in the highest group (`TopPlace`), and
`cleanup` leaves no empty list or group behind (`CleanupEffect`).

**CPU launches.** Assumed: at least one worker, and cubes of at least one unit. The
chunks of `dispatch_execute` are shown to be disjoint and to cover the cube for all
numbers of units and workers (`ChunkShape`, `ChunksApart`, `ChunksCover`). `TasksWhole`
says what a worker's channel can look like, `AnswersAwaited` that `execute` waits for
exactly the workers that owe it an answer, `UnitsDealt` that a unit either ran once or is
in one place of one worker; when no answer is awaited any more, every unit therefore ran.
`CounterInv` describes the barrier as it is: for a cube of one unit the counter goes to 0
and is reset; for a larger one it starts at the number of the others and is counted up,
so that it never gets to 0 and nobody passes, early or at all.

Only model-checked, and why:

- all liveness: fairness and `ENABLED` are out of the prover's reach;
- `MissesOnlyCursorPage` of the sliced pool: it is about a whole search and the slices
  freed during it, with a history variable of the run;
- `GpuServer`: its launches and its device are folds over sequences, and what a fold
  computes for every sequence needs induction over data;
- the matmul modules: what they check is that unrolled and recursive definitions compute
  the right places and products, which is induction over data as well.

## Disagreements between comments and code

Five are checked by a run of their own. A comment at `stream.rs:378` says that "a buffer we copy
to MUST not have any outstanding compute work associated with it". `create` and
`register` respect it by excluding the pending pages when they reserve.
`create_tensors` (`cubecl-wgpu/src/compute/server.rs:205`) reserves through
`empty_tensors`, which excludes nothing, and then copies: the run
`wgpu_stream_tensors` finds a write that overtakes a recorded task on a slice
whose last handle was dropped and which was reserved again.

The documentation of the tilewise strategy for half a stage
(`sync_partial_tilewise.rs:23`) says that a plane which would write to the opposite
stage "continues on the next row or column of the same stage, skipping over the
memory region of the other stage". The tiles of the other stage are skipped twice,
for the first tile of the plane (line 125) and for those counted from there (line
178), so that a plane which starts in the middle of a row goes on in the other stage.
The run `matmul_tilewise` finds an element of the output that is not its dot product.

A comment at `cubecl-hip/src/compute/storage.rs:89` says of what `get` returns: "The ptr
needs to stay alive until we send the task to the server." It points into the values of
a hash map, into which the next `get` for the same launch inserts, and an insert that
finds the map full moves them. The run `gpu_hip` finds a launch whose first
argument is read from where the map was before. What follows is undefined, so
`BuffersAsCalled` ends there, and `LaunchedAsBound` is stated for CUDA.

The documentation of `sync_cube` (`cubecl-core/src/frontend/synchronization.rs:14`) says
that "all the invocations in the cube wait for each other to arrive at the barrier" and
(line 16) then "begin executing after the barrier". On the CPU runtime `fetch_sub(-1)`
counts upwards (`compute_task.rs:17`), and units of a cube of two or more wait for ever;
`cubecl-cpu/src/lib.rs:22` has a "TODO: Failing test that needs to be debugged probably
relied to sync_cube". The run `cpu_sync` finds the launch that does not return;
`LaunchReturns` is about the other launches.

A comment at `local.rs:216` says of the default index, where no result has come: "This
should only happen on wasm since we can't block waiting on the results there." A second
native thread that asks for a key while the first one benchmarks it gets an empty job
(`local.rs:191`), does not wait, and runs the default. The run `autotune_native` finds
it in four states; `DefaultOnlyMeanwhile` says what holds instead.

The following were met while modelling and have no run of their own. Each is an
exception in a property that a run checks, or a part of the state the property
leaves out. The exceptions are needed: without any one of them TLC finds a
counterexample in the instance of the run.

- `poll.rs:29` says "Do not cancel thread while someone still needs to poll". When
  the owner is gone a count of two may stand for the thread and a reader
  (`poll.rs:22`), and the thread ends. `PollInv` and `TimingsArrive` are about owners
  that live.
- `timings.rs:297` says "We only cleanup old query sets when creating a new one".
  `timings.rs:299` cleans up for passes without a new one too, so that the set a
  profile ends with may be gone (`timings.rs:179`). A task after a flush runs in a
  pass without timestamps (`stream.rs:128`). `WorkMeasured`, a part of `ProfilerInv`, is about profiles that
  no flush and no other profile cuts in two.
- `client.rs:406` says that the profiling lock is used "to make sure no other task is
  currently using the current device". `create_tensor` does not wait for the lock
  (`client.rs:219`), and an operation that has passed the guard may be sent later, a
  read long after it; `IntrudersWereEarly` bounds the second and leaves out the first. A static section nested
  in another ends static mode for both (`client.rs:415`): see `ModeOpen`. A panic
  in a section leaves the lock taken (`client.rs:472`): see `CallsServed`.
- `cache_file.rs:8` says "Multi-process safe append-only file". Two processes that
  both find no file may erase what one has written, and so may one that cannot tell
  whether the file exists, an error that counts as no (`cache_file.rs:29`); a write that
  takes a part of the entry is neither continued nor reported (`cache_file.rs:79`). See
  `Kept`, the condition of `AnswersKept` and of a part of `LockInv`. Two that find the same frozen lock may both hold it
  (`cache_file.rs:171`), though `cache_file.rs:86` says that there is no guarantee
  after the fixed duration: see `LockInv`. A process killed before it has dated its
  lock file leaves one that is never removed as frozen (`cache_file.rs:130`): see
  `OperationsEnd`.

We found no comment that these contradict:

- The page of a dispatch buffer becomes pending before the uniforms are written
  (`stream.rs:96`), which may flush and clear it (`stream.rs:438`); the task recorded
  afterwards reads a page that is not pending. `StreamInv` is about buffers and
  uniforms.
- A dropped future ends the server's task, which cannot answer it (`mpsc.rs:93`):
  see `Answered`.
- `clear` during a call makes the call panic (`local.rs:202`): see `PanicsAccounted`,
  a part of `TunerInv`. A benchmark that panics leaves its key without a result for good
  (`tuner.rs:348`): see `TuningEnds`.
- The operation that runs for want of a result was perhaps never measured, and panics
  the caller if it returns an error (`local.rs:232`): see `RunFails`.
- Nobody calls `perform_deallocations` (`cubecl-cuda/src/compute/storage.rs:66`): pages
  that the pools give back are never returned to the device. `BuffersAsCalled` only says
  that calls which panic for want of memory do no harm to the buffers.

For matmul, the instance of the run leaves out the configurations in which the following
happen; TLC finds each of the first four as soon as such a configuration is put in.

- `reader.rs:11` and `writer.rs:8` of `global_memory` say "Ensures safe access by
  preventing out-of-bounds errors". Whether to check is decided from the stage alone;
  with rows that fill the stages but not the global partition of a cube, the last cube
  reads and writes outside (`OutputIsProduct`). Batches that do not fill the partition
  are not checked either; `WorkInv` allows work outside the output in both cases.
- `event_listener.rs:101` says that "we need to synchronize the plane manually" where
  planes do not run in lockstep. The ordered kernel does so within a global matmul, but
  not before the first load of the next one of a partition (`RaceFree`).
- The barrier kernel clears its stages at the start of a global matmul
  (`async_full_loader.rs:102`), and nothing separates that from the last reads of the
  one before in a partition (`RaceFree`).
- `sync_partial_cyclic.rs:41` compares with `>` the largest position written with the
  number of elements, so that one line too many passes (`RaceFree`).
- `global_order.rs` says of `SwizzleCol` "Creates swizzle col global order if possible"
  and "Fallbacks to col global order otherwise"; `into_order` answers with row orders, of
  which `validate` may refuse the swizzled one. `GridInv` excepts it. It also
  says "`SwizzleColMajor(1)` is equivalent to `ColMajor`": strips of odd number run
  backwards in the first and not in the second. `canonicalize` hides the difference.
- `sm_allocation.rs:3` says that `Exact` divides 120 cubes as "4 SMs × 30 cubes"; it takes
  the greatest divisor of the number of processors that fits, 8 by 15.
- The batch axes of the output come out in reverse order (`problem.rs:28`); a launch uses their
  product only.

## What is not modelled

Compilers and front end (macros, IR, optimizer, WGSL, C++, SPIR-V and MLIR
generators) are sequential functions over large data, whose correctness needs a
semantics of the language. Of the kernel libraries only matmul is modelled; reduction,
convolution, random numbers and the others are not. Configuration, logging and
timing arithmetic have no state worth checking; the registry of clients, the mutex
channel and the storages of the wgpu and CPU servers are one lock or one call deep. The
timestamps' values, the order of candidates within a batch, numeric contents of buffers
and error texts are abstracted everywhere. Wasm is modelled for the tuner only.

The matmul modules assume what the code gets from elsewhere: an asynchronous copy has
landed when the wait for it ends (and may land at any time before), lines hold one
element, there is at least one column of the left input, cubes share nothing and so are
taken in order, and numbers wrap as in a release build. The contents of a tile matmul
are external.

## Plan

In this order:

1. **Composition**: `WgpuStream` over the state of `ExclusiveMemory` in place of
   its abstract reserve, and `ClientProfiling` over `MpscChannel`, to check that the
   assumptions each makes of the other hold.
2. **Abstract specifications**: an allocator that hands out disjoint extents,
   implemented by `SlicedPool` and by `ExclusiveMemory`; a lock with sections for
   `ClientProfiling`; a FIFO server for `MpscChannel`.
3. **Kernel libraries**: the reductions of `cubecl-reduce`, in the manner of
   `MatmulKernel`.
4. **Proofs** of `GpuServer`, with the loops of a launch as steps of their own.
5. **Violation runs** for the comments above that have none, where the exception of a
   property becomes the statement of the comment.
6. **Wasm** variants of `sync` and `regulate`, the construction of the default
   pools, and `LocalTuner::init`.
