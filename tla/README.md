# Verification of the GPU proving pipeline of Airbender

This directory holds TLA+ models of the core of the Airbender prover: the `execution` layer of
`src/gpu_prover`, the simulator and replayer it runs, and the CUDA streams it feeds. It simulates a
RISC-V binary on the CPU, replays its snapshots to write the witness, commits to the memory of every
circuit and proves every circuit on one or more GPUs. TLC checks the models on small instances. TLAPS
proves for all instances nearly every safety property that TLC checks: about the GPU manager, the
allocator, the calls of `get_result`, the simulator and its replays, and the split of work over threads.

Paths in this file are relative to the repository. `PROJECT.json` maps every definition to the
lines it models.

## 1. The system

```
   caller thread (ExecutionProver::get_result)                 rayon pool (worker::Worker)
   +-----------------------------------------+   WorkerResult   +--------------------------+
   | loop over work_results_receiver         |<-----------------| simulator task           |
   | trace cache                             |    snapshots     |     | snapshots          |
   |                                         |                  |     v                    |
   |                                         |<-----------------| replayer tasks           |
   +-----------------------------------------+                  +--------------------------+
        | GpuWorkBatch, requests    ^ GpuWorkResult     free_allocators, free_trace_chunks: two
        v                           |                   channels used as pools by all of these
   +-----------------------------------------+
   | GPU manager thread (crossbeam Select)   |    rendezvous channels, one pair per device
   +-----------------------------------------+------> GPU worker threads (two-stage pipelines)
```

| Component | State | Operations | Interaction | What is hard |
|---|---|---|---|---|
| GPU manager (`execution/gpu_manager.rs`) | maps of batch receivers and senders, batches to flush, work queue, one queue of batch ids per worker | one select over new batches, requests, results and worker slots; a drain by `try_select`; drop | channels to callers (unbounded) and to workers (capacity 0) | its queues are a copy of state inside other threads; the end of a batch is noticed by events in any order |
| GPU worker (`execution/gpu_worker.rs`) | two pipeline stages | one answer per message, for the message two before | rendezvous with the manager | a result only comes out when more messages go in |
| `get_result`, `commit_memory_and_prove` (`execution/prover.rs`) | unwritten tracing data, replayed snapshots, unpaired inits, counters, trace cache | one handler per message, trim, abort, clean-up | receives from all tasks and the GPU side, raises `abort` | messages in any order; an aborted simulation; each trace freed exactly once |
| Simulator task (`cpu_worker.rs`, `tracing.rs`) | trace chunk, rows reserved per circuit type | snapshot, reserve, send, inits and teardowns | takes allocators, sends snapshots and results | it announces memory that is written later |
| Replayer tasks (`cpu_worker.rs`) | the snapshot in work | receive, replay, announce, return the chunk | snapshots in, results out | shared memory without locks |
| JIT simulator (`riscv_transpiler/src/jit`) | machine state, memory holder with timestamps, trace chunk, runner | one compiled piece of code per instruction, delegations, snapshots, early exit, collection of what was touched | the compiled code calls back into the runner; the holder comes from a cache | timestamps inside a cycle, room in a chunk, a bound truncated to 32 bits |
| Replayer (`riscv_transpiler/src/replayer`) | machine state of one snapshot, rest of the log | one handler per instruction and delegation | reads the log, writes rows into memory laid out by counters | a second implementation of every instruction, without memory |
| Worker and its streams (`gpu_prover/src/prover`) | two streams, device buffers, events, host callbacks | transfers, setup, commitment, proof | the thread enqueues; the device executes later | buffers change hands while operations are still pending |
| Static allocator (`allocator/tracker.rs`) | free blocks by address and by length, allocations | `alloc` in three placements, `free`, peak | used under a mutex by host and device allocators | two maps kept in step, coalescing only inside a region |
| Thread pool (`src/worker`) | rayon threads | scopes, chunk geometry | runs the tasks above | blocking tasks in a shared pool |
| Interpreter VM, precomputations, CPU pipeline model, GPU kernels | tables, device buffers | - | - | numerics |
| Circuits, CPU prover, verifier, generators, Picus and LLZK back ends, fields, hashes, guest libraries, command line | - | - | sequential | numerics, translations |

What makes each of them correct:

- **Manager and workers.** Every answer goes to the call that asked, once. Popping a queue or
  looking up a sender never panics. A batch id may be used again. At shutdown no worker has work
  left. Calls return, and drop terminates.
- **`get_result`.** No request is sent before the rows of its trace are written. No trace is
  freed while a task holds a part of it. Every allocator returns exactly once, aborted or not.
  Every circuit of the run gets a result, also when the proving call stops its simulation early.
  None of the asserts and unwraps fails. The call returns although the pool of allocators is small.
- **Simulator and replayers.** Trace chunks are neither lost nor given to two tasks. The number of
  unified circuits without inits is right.
- **Replay.** From the log alone a replay reaches the recorded state, pops exactly the entries of the
  log, and writes exactly as many rows as there is room for. Over all rows, the inits and the
  teardowns, what is read is what was written: this is the memory argument. A memory holder that
  returns to the cache is as good as a new one. A run does not pass its bound by a whole delegation.
- **Streams.** No two pending operations race for a buffer, each kernel finds the data it was enqueued
  for, host memory is held until it was copied, a job that finishes has its result.
- **Allocator.** Allocations and free blocks partition the regions, both maps agree, free blocks
  are maximal inside a region and never span two regions.
- **Split of work.** The chunks of the threads are not empty and tile the work.

`PROJECT.json` lists the remaining parts under `components`, with the reason each is left out,
and the hazards with the line where each bites.

## 2. Modules

| Module | Content |
|---|---|
| `WorkBatches` | abstract specification: what the manager promises its callers, without channels or queues |
| `GpuManager` | manager, worker pipelines and callers; refines `WorkBatches` |
| `GpuManagerProofs` | TLAPS proofs about `GpuManager`: types, mirror, senders, clean exit, conservation of requests, the refinement of `WorkBatches` |
| `AllocationsTracker` | the static allocator: `AllocationsTracker` under `InnerStaticAllocator` |
| `AllocationsTrackerProofs` | TLAPS proofs about `AllocationsTracker` |
| `CpuWorkers` | simulator and replayer tasks, the channels they share |
| `GetResult` | extends `CpuWorkers` with the loop of `get_result`, the trace cache and `commit_memory_and_prove`; its GPU side is the promise of `WorkBatches` |
| `Replay` | the JIT simulator, its snapshots, the replayer, the collection of what a run touched |
| `ReplayProofs` | TLAPS proofs about `Replay`: types, the memory holder, the bound, the chunk, that a replay ends where its snapshot does, and that the memory argument balances |
| `GetResultDataProofs` | TLAPS proofs about `GetResult` and `CpuWorkers`: the trace chunks, when tracing data may leave, where the data of each circuit is, and the balance of host allocators |
| `GetResultCallProofs` | and on top of those: what is sent is written, the asserts hold, a call is complete when it returns, and the types |
| `SumTheorems` | lemmas about `SumFunction` over finite sets, for the counters and balances of the other proof modules |
| `GpuStreams` | one worker thread, its CUDA streams, events, buffers and callbacks |
| `GpuStreamsProofs` | TLAPS proofs about `GpuStreams`: the streams never race, kernels find their data, jobs have their results |
| `WorkerGeometry`, `WorkerGeometryProofs` | the split of work over the threads of the pool, and that it covers the work |
| `MC...` | instances for TLC |

The modules meet at their borders. `GetResult` takes the GPU side as `WorkBatches` promises it, and
`GpuManager` implements `WorkBatches`. `GpuManager` takes the CUDA work of a stage as one step, and
`GpuStreams` is that work. `CpuWorkers` takes a run as rows per snapshot, and `Replay` is the machine
that produces them; that a replay writes exactly the rows reserved for it (`RowsMatchCounters`) is what
`CpuWorkers` relies on.

### `GpuManager`

The state has one variable per variable of the code, under its name: `batch_receivers`,
`batch_senders`, `batches_to_flush`, `work_queue` and `worker_queues` of `gpu_manager`;
`phase_one` and `phase_two` are `current_phase_one` and `current_phase_two` of the worker.
`manager` says whether the thread is in `select`, in the drain after it, or gone. Each arm of the
select is an action: `ReceiveBatch` and `BatchesDisconnected`, `ReceiveRequest` and
`RequestsDisconnected`, `ReceiveResult`, `SendQueued` and `SendEmpty`. `Drain` is one round of the
`try_select` loop, and `EndTurn` leaves it. A channel of capacity 0 is a handshake: `Hand` requires
the worker to be `receiving`, `ReceiveResult` requires it to be `sending`. `Advance` and `Flush` are
the two reasons for which the manager sends an empty message. The CUDA work of a stage is the
single step `RunStages`. CUDA errors and failures at start-up end the process and are left out.

`Exclusive` selects the scenario: callers that take turns, or callers at the same time, which
`execution/prover.rs` allows ("in a multithreaded scenario").

### `CpuWorkers` and `GetResult`

A binary is reduced to `Run`: per snapshot, the rows each circuit type gets. `Rows`,
`Participants` and `TracingKeys` say which circuits that makes. The result of a simulation is the
same each time, because the values the first run read are recorded for the second.

The simulator takes a snapshot (`ProcessTrace`), reserves rows chunk by chunk (`Reserve` is a round
of the loop in `process_snapshot`), sends the snapshot, ends with the incomplete circuits and the
inits and teardowns, and then drops what it holds, in the order of the code, because that order
decides when the caller sees its channel disconnected. A replayer receives, checks the abort flag,
replays, announces, and returns the trace chunk.

`GetResult` has one action per `WorkerResult`. `Conclude` is what follows each message in the
loop: skip what was served from the cache, send the rest, close the request channel when
`NothingFollows`, or abort when the proving call has sent as many requests as the commitment call.
`caching` selects `commit_memory_and_prove`, otherwise it is a lone `commit_memory` or `prove`.
Memory is counted in allocators; the rows themselves are sets of snapshots.

The GPU side answers requests in any order. While the channel is open, up to `Withheld` requests
may stay unanswered forever: the pipelines hold two per device until something pushes them on.
This is the liveness that `gpu_manager_exclusive` establishes for a lone caller.

### `Replay`

One run of one program, from compilation to the cache. `hart` is `MachineState`, `memory` and
`timestamps` the memory holder, `trace` the chunk, `state` and `is_aborted` the runner,
`snapshots` the channel to the replayers. Every instruction is one action that moves the timestamp
through the offsets of its cycle with the helpers of the compiler (`touch_register_and_bump_timestamp`,
`pre_bump_timestamp_and_touch`), logs what it reads and ends with `check_to_save_trace`. The replayer
has one action per instruction as well; it knows the program and the log, never the memory, and settles
its rows in `balance` (writes minus reads). Snapshots are replayed in any order.

Compiling is part of the model because it decides where the machine may be. `labels` are the instructions for
which code was compiled (`initialized_jump_offsets`): the machine executes nothing else, loading fails when a
jump leads anywhere else, and a delegation of several cycles is compiled once, at its first marker, after the
assertion that its markers follow each other and are as many as either variant has rounds (`CallsFollow`,
`CallCounts`).

The instructions are one of each class that the compiler or the replayer treats in its own way: two
registers, none (`lui`), jumps, branches, loads, stores of words and of parts of words, the
non-determinism CSR, and both kinds of delegation: one that takes a cycle and whose result is logged
(bigint), one that takes a cycle per round (blake). Registers, words and values are small; values wrap.
Hash and sum are simple functions that depend on all their operands. A delegation logs one word per
operand instead of 8, 16 or 24, so operands with different pointers are apart, as they are in the code for bigint,
whose operands are aligned to their size.

The blake delegation has two variants, with all rounds and with fewer (`Rounds` and `ReducedRounds`, 10 and 7 in the
code). Two numbers follow from the variant. The compiler counts the marker instructions (`num_calls`): they
move the pc and the counters. The control word of the call says how many rounds it takes (`num_rounds`): they move the
timestamp, and the replayer takes all of its numbers from them. The simulator compares the two nowhere; the programs of the model ask for as
many rounds as they make calls (the guard of `Blake`).

Left out on purpose: guests that break the machine's rules, for which the code panics or the proof is
meant to fail (stores to the ROM, equal pointers, a wrong control word, a jump into the middle of a
delegation); the keccak delegation; unaligned accesses. The programs of the instance do not contain
them.

### `GpuStreams`

The worker thread is a sequence of phases as in `gpu_worker`; each phase enqueues all its operations in
one step, because only the order inside a stream and the events between streams matter to the device.
`Execute` takes the head of a stream when it is ready. A buffer is a number, allocated from the bottom
or the top of what is free, with the placement reversed for every second request, and is free again
when the thread drops it, which may be long before the streams have used it. A kernel names the data it
expects in each buffer it reads, so that reading too early, too late, or from a buffer that was given
away shows as a wrong value. A stage of a proof is one kernel.

The semantics of streams, events and host functions are CUDA's and are modelled from their use
(`Ready`, `Recorded`, `Execute`: external). A host function whose `HostFn` was dropped does nothing.

Two observations that are not findings. The closures that `Transfer::schedule` registers to keep the
host memory alive bind it to `_` and so capture nothing; only the request keeps it until its answer,
which is enough (`SourcesAreHeld`). The wait for the `allocated` event and the wait of `prove` for its
own spill overlap: leaving the second out changes no property.

### `AllocationsTracker`

Both maps of free blocks are state and are updated separately, as in the code. `alloc` takes the
first fitting block, from the bottom or the top, or the smallest sufficient block, and `free`
coalesces with either neighbour unless a region border lies between. Addresses are small integers. As in the
code, the lengths of the regions are multiples of the chunk size and their starts may be anywhere; those of the
instance are not multiples.

### `WorkerGeometry`

`get_geometry_for_num_cores` as a function, branch by branch. `Covers` is its specification: positions
and sizes of the chunks, as `get_chunk_start_pos` and `get_chunk_size` give them, tile the work.
`MCReplay` evaluates it on small numbers because the collection of the touched words runs on that split.

## 3. Runs

| Run | Instance | States | Shows |
|---|---|---|---|
| `gpu_manager_concurrent` | 2 batches at once, 2 devices, 2 requests each | 334,837 | queues mirror the pipelines, senders outlive requests, reused ids are fresh, the shutdown is clean, requests are neither lost nor duplicated, `WorkBatches` is implemented |
| `gpu_manager_exclusive` | 1 batch id used again and again, 2 devices, 3 requests | 8,701 | the call returns, drop completes, the fair `WorkBatches` is implemented |
| `gpu_manager_progress` | 2 batches at once, 1 device | 24,153 | every request of a closed batch is answered |
| `gpu_manager_stuck` | the same | violation | the call itself may not return (finding 1) |
| `allocations_tracker` | two touching regions and one apart, of unequal length | 9,161 | the partition, both maps, coalescing, the counter of used memory |
| `get_result_unified` | 2 snapshots, unified and delegation circuits, a circuit that spans snapshots, 2 replayers, 6 allocators, trimming at almost every step | 1.03 M | conservation of allocators and trace chunks, no early send, no early free, all asserts, completeness; pairing of inits and teardowns, and circuits that have none |
| `get_result_progress` | unrolled machine, 3 circuits in 3 snapshots, 3 allocators | 278 k | the call returns although the run needs more allocators than there are, and no assert fails |
| `get_result_source` | unrolled machine, one replayer | violation | finding 2 |
| `get_result_ragged` | 4 rows, 2 words, circuits of 3 | violation | finding 3 |
| `replay` | every program of three blocks out of 14, two sets of pointers, three bounds, chunks of 2 entries, aborted at any time | 1.73 M | a replay reaches the recorded state, rows match their buffers, accesses go forward, the memory argument balances, the holder is clean, chunks and bound hold |
| `replay_compile` | a program with the canonical nop | violation | finding 4 |
| `gpu_streams` | 3 requests of different circuits, commitments or proofs, setup known or not, 7 buffers | 534 k | no race, no stale read, sources held, results there, every request answered |

### Bounds, and why they are enough

- *Two devices* give the manager a choice, so the sort of the queues matters; one device is
  enough where a batch must be held back by the pipeline. *Three requests* fill a pipeline (two
  stages and the message in work). Batch ids are used again without bound.
- *Two batches* are what the end-of-batch race needs. The proofs cover any number.
- *Three snapshots and two replayers* let replays finish out of order, with a circuit that needs
  snapshots of both. The trace chunks are `2 * replayers` as in the code.
- `Allocators` is just above, or below, what one simulation needs, so that the simulator waits for
  the loop and the cache is trimmed. The unified run trims for nearly every message, so any prefix of
  the circuits may be missing from the cache when the proving call starts.
- *Programs of three blocks* after a prologue let a chunk of 2 entries be given up inside, at the end
  of and between instructions; a bound of 4 cycles falls inside most programs, on a delegation in some;
  one of 7 does not fit `BoundModulus`, which stands for 2^32, and ends the program early, as
  `cycles_bound >= 2^30 - 1` does in the code. A program that goes on for ever is cut off by its bound
  or excluded by `Valid`.
- *Three requests* fill the two stages of a worker and the message in work, so all three phases of a
  round concern different requests; with 7 buffers, one that the thread
  has dropped goes to the next request at once. The three circuits need different transfers, so a buffer is
  reused for other data. An allocation that
  fails ends the process; `DeviceBlocksAssumption` says that there are buffers enough, and how many that is.
- `MaxRequests` is the only bound in a guard. The rest of the state is finite because `Run` is.

Each of these cases was confirmed to be reached: an abort before, during and after the last
snapshot; a simulator that sees the abort and one that does not; data left behind by an abort and
freed; requests served from the cache while the simulation runs. A mutant of the code per property
(the definitions marked "A slip") shows that each property can fail.

`CHECK_DEADLOCK FALSE` stands only where the system stops by itself: a run of a program ends
(`Replay.cfg`).

### Fairness

- Threads are scheduled: weak fairness of the worker threads, of the manager's drain, of the tasks
  and of the loop of `get_result`.
- `crossbeam_channel::Select` starts its scan of ready operations at a random one, so an operation
  that is ready again and again is eventually taken: strong fairness, for each operation.
- A caller only has to read its results once it has closed its batch. How long it takes to open
  one, or to send the next request, is not constrained. Only `gpu_manager_stuck`, which shows a
  violation, adds that callers send and close (`DiligentSpec`), so that its counterexample is no
  caller's fault.
- The GPU side of `GetResult`: see `Withheld` above.
- `GpuStreams`: the thread goes on, requests arrive, and the device executes each stream.
- `Replay`: the simulator goes on (only `replay_compile` uses it).
- The thread pool is assumed to have a thread for every task (see section 6).

## 4. Proofs

### `GpuManagerProofs`

For every set of batches and workers and every number of requests:

- `TypeCorrect`: `Spec => []TypeOK`
- `QueuesMirrorPipelines`: `Spec => []QueueMirrorsPipeline`
- `SendersOutliveFlights`: `Spec => []InFlightBatchesHaveSenders`
- `ReusedIdsAreFresh`: `Spec => []ReusedIdIsFresh`

The assumptions are those of `GpuManager`: batches and workers are natural numbers (the code
orders queues by them), `MaxRequests` is positive, `Exclusive` is Boolean, and `None` is neither a
batch nor a request. Nothing is assumed to be finite.

The argument. `TypeOK` is not inductive alone: `ReceiveResult` takes the front of a queue, which has
the right type only if the queue is not empty, and that is what the mirror says. `Shapes` is
`QueueMirrorsPipeline` written slot by slot (`MirrorIsShapes` proves them equivalent): two or three
slots, each the batch of a named variable of the worker. `TypeOK /\ Shapes` is inductive: a queue
changes only where a message is pushed (`PushShape`) or an answer popped (`PopShape`), and a worker's
stages only where its pipeline keeps its order (`WorkerShapes`).

`InFlightBatchesHaveSenders` needs `FlightInv` on top of that, which adds two facts about what is
still on its way to the manager: a batch is announced once, by a caller that is not idle, and is not
yet known to the manager (`AnnouncedOnce`); and a request channel carries requests of its own batch
only (`RequestsTagged`). The step that matters is `ReceiveResult` (`ReceiveResultSenders`): a sender is
removed only when the batch is drained from the queue of requests and from every worker, the one just
popped included. `ReusedIdIsFresh` follows from the same invariant: an announced batch has no sender,
and whatever is in flight belongs to a batch with one.

Under the same assumptions, and from the invariants above:

- `ExitsClean`: `Spec => []CleanExit`
- `RequestsAreConserved`: `Spec => []RequestsConserved`
- `ManagerImplementsWorkBatches`: `Spec => ImplementsWorkBatches`

`CleanExit` needs to know that a worker is busy only for the sake of some batch (`BusyForBatch`): an
empty message is sent only to a worker whose queue holds one. The senders of those batches keep the
manager in its loop.

`RequestsConserved` speaks of the set `Places(r)` of slots a request is at. It is inductive together
with `AnsweredWereSent` (a new request has a fresh id), `CallsKnown` (a channel with contents is
known, or about to be, to the manager) and the earlier invariants. A step that only moves requests
maps the places of each onto its new ones (`KeepsPlaces`: `ReceiveRequestPlaces`, `HandQueuedPlaces`),
so one place stays one place, and none stays none. A worker's own steps change no place, since
its `Pipeline` keeps its order (`WorkerPipeline`). Three steps do more: a new request gets its first place,
a received result loses its only one (`ReceiveResultPlaces`), and a call that returns has nothing
left anywhere (`NothingLeft`: whatever is anywhere has a sender, and the call saw its senders gone).

The refinement uses two of these: `ResultIsUnanswered` (a result that arrives is a step `Answer` of
`WorkBatches`) and `NothingLeft` (a call returns only when nothing is outstanding). It holds for any
number of concurrent callers; that a call does return is a different matter (finding 1).

### `AllocationsTrackerProofs`

For every finite set of regions that do not overlap, every chunk size and all requested sizes:

- `TypeCorrect`: `Spec => []TypeOK`
- `BlocksStayWithinRegions`: `Spec => []WithinRegions`
- `RegionsStayPartitioned`: `Spec => []RegionsPartitioned`
- `FreeBlocksStayCoalesced`: `Spec => []FullyCoalesced`
- `MapsStayInAgreement`: `Spec => []MapsAgree`

The argument. None of these is inductive alone: an allocation keeps the free blocks merged only because
blocks lie apart, and a free keeps them inside their region only because the block that it merges
touches it. `MemoryInv` joins them. Its core, `Layout(f, g)`, is a statement about two functions and no
variable: blocks of positive length, apart, inside regions, covering the regions. Three lemmas say what
the operations do to it: `Cut` (an allocation), `GiveBack` and `Join` (a free, which is at most one
`GiveBack` and two `Join`s, `FreeKeepsMemory`). `Neighbours` says that what `free` finds beside a block
lies in the block's own region, from `RegionOfInside`. `RemoveAgrees` and `AddAgrees` are the two
updates of the map by length. That a fitting block is found where there is one (`FreeBlockFits`)
needs the least number principle and that free blocks are finitely many.

- `UsedMemStaysExact`: `Spec => []UsedMemIsExact`

The counter is a sum over the blocks that are held, so this one rests on `SumTheorems`: a block that is
added to the table, or taken from it, changes the sum by its length.

### `SumTheorems`

`SumFunction` of the community modules is a fold, and a fold is a recursive function on the subsets of
its domain, with a `CHOOSE` for the order. What such a function is for *every* finite set would take an
induction with an operator as its parameter. A set of counterexamples needs no operator: if some subset of
the domain is one, there is a smallest (`LeastSubset`, from the least number principle), and that
one turns out not to be one. In this way `FoldExists` shows that the recursive definition has a value
on every subset, and `FoldTakesOut` that any element may be taken out first. From there follow the facts the
other modules cite: a sum with one argument less, one more, or one changed (`SumBut`, `SumAdd`,
`SumExcept`), over two parts (`SumSplit`), along a bijection (`SumAlong`), of two functions (`SumPlus`), and
of sequences (`SumAppend`, `SumCut`).

### `ReplayProofs`

For every program, image, bound, size of memory and numbers of rounds of the two variants of blake:

- `TypeCorrect`: `Spec => []TypeOK`
- `CachedHolderStaysClean`: `Spec => []CachedHolderIsClean`
- `BoundStaysKept`: `Spec => []BoundIsKept`
- `ChunksStayWithinCapacity`: `Spec => []ChunkWithinCapacity`
- `AccessesStayForward`: `Spec => []AccessesGoForward`

and for every set of programs in which no branch leads to itself:

- `ReplaysReachRecorded`: `BranchesMove` implies `Spec => []ReplayReachesRecorded`
- `RowsStayCounted`: `BranchesMove` implies `Spec => []RowsMatchCounters`
- `MemoryArgumentStaysBalanced`: `BranchesMove` and `NoneIsNoReplay` imply `Spec => []MemoryArgumentBalances`

`HolderInv` says that a word outside the ROM whose timestamp is zero is zero (`Untouched`), so
clearing what has a timestamp clears everything; that needs the timestamp an access sets to be positive,
hence how far each helper of the compiler moves it (`BumpTakes`, `TouchAndBumpTakes`, ...). Every
instruction is shown to take one cycle, and blake one per round of its variant (`InstructionTakes`); since the bound
is looked at before each and truncation only lowers it, the second theorem follows from the same facts.
`LogInv`, for the third, says that the chunk is below `TRACE_CHUNK_LEN` before each instruction and every
chunk sent is below `MAX_TRACE_CHUNK_LEN`: an instruction adds at most three entries
(`InstructionKeepsLogs`) and the check that follows it empties a full chunk (`CheckKeepsLogs`). It needs
`MAX_TRACE_CHUNK_LEN >= TRACE_CHUNK_LEN + 3`: the slack of the code is likewise the entries of its
largest delegation, which the model shortens to three.

The theorems about replays compare two implementations of the instruction set. `Turn(code, log, a, u, b, v)`
is what they have in common: the instruction at the machine `a` leads to the machine `b` and takes the
entries `u + 1` to `v` of the log, all of them older than `a`. It speaks of a log and of no memory, and a longer
log changes nothing (`TurnInLongerLog`). A `Path` is a sequence of turns. Each side is compared with it:

- *The simulator.* `Recorded` says that the chunk is the log of a path from the last snapshot to where the
  machine is, and the chunk of each snapshot that of a path between its two states. There is one lemma per
  compiled instruction; what they read of the memory is what they log, so the turn can be stated without it.
  `Typed` gives the rest: a word's timestamp is below the machine's, and the machine is `Settled` between
  instructions (its timestamp is a multiple of four, x0 is zero, the cycles counted are those passed). The delicate
  step is the snapshot that a delegation takes in the middle of its last cycle: rounded up, it is the state that
  follows the call.
- *The replayer.* `Replaying` says that a replay `Stands` at some machine of the path of its snapshot: same pc,
  timestamp and registers, what is left of its log is what the path has not taken (`Rest`), no
  assertion has failed, each row reads what is older than what it writes (`Forward`), and what was counted is the
  difference of the counters (`Tally`). There is one lemma per replayed instruction, and
  for blake an induction over the rounds, in the form of a least round that is wrong.

At the end of the path the two agree in everything, which is `ReplayReachesRecorded` and the first half of
`RowsMatchCounters`; the second half, that the rows of all families add up to the cycles, is the sum kept by
`Settled` (with `SumPlus`). Everything executed is in `labels`: an instruction of the
program that is not one of those the compiler never gets past (finding 4).

The assumptions used are the shape of decoded instructions (`ProgramsAssumption`), that words have two parts
(`MaxAddress` is odd, as 2^32 - 1 is), and the sizes in `ReplayAssumption`.

The hypothesis `BranchesMove` is there because the proof does not go through without it, for a reason in the
code: a replay stops at any instruction that leads to itself (`replayer/mod.rs:222`), the simulator only at a
jump with offset 0 (`jit/impls.rs:1287`). A taken branch to itself is executed again and again until the bound,
and the replay of that snapshot, which executes it once, then fails its assertion on the timestamp
(`cpu_worker.rs:222`). So the hypothesis cannot be dropped: with `beq r1, r1, 0` as a block and a bound of 4 cycles,
`ReplayReachesRecorded` is violated. No program of the run `replay` contains such a branch, and so no run would
catch it. `AccessesStayForward` needs no such hypothesis.

The balance of the memory argument is a property of the end of a run: when all snapshots have been replayed,
in whatever order, every value written was read once, but for what the teardowns take and the inits give. Before
the end nothing cancels, since a row that reads a word may settle long before the row that wrote it. What
can be said at every moment is an account of each entry (`Account`: a place, a value and a timestamp):

    balance + owed by waiting snapshots + rest of the running replay + chunk being filled + new = at hand

*New* is 1 for the zeros a run starts from, *at hand* is 1 for what a register or word now holds since when
(`Standing`). Terms may be negative, since a replay may read what has not been written yet. The equation rests on four
groups of lemmas:

- *Rows* (`Adds`, `InstructionSettles`, one lemma per replayed instruction). The rows of a replayed instruction write and read
  as its registers change from one machine of the path to the next, and as its entries of the log renew
  words (`WordsNet`). `TurnNet` is the sum of both, and depends on the path alone.
- *Words* (`Moved`, `InstructionMoves`, one lemma per compiled instruction that accesses memory). The same `WordsNet` is what changes in
  the memory of the simulator. This is where a delegation must not have its two operands in one word, and
  where the ROM, which is read as zero and never written, is masked alike on both sides.
- *Paths* (`Counts`, `Gains`). A path carries a count of what its turns add. A longer log changes no count
  (`WordsNetInLongerLog`), a chunk that is given up hands its count to its snapshot (`SavedIsOwed`), a replay takes over that
  of its snapshot and moves it to the balance turn by turn.
- *Snapshots* (`Owe`). What all waiting snapshots owe is a sum over them. Two equal snapshots would be
  counted once, and replayed once; `Steady` says that each starts at a later timestamp than those before it.

When `CollectInitsAndTeardowns` runs no chunk is being filled, though snapshots may still wait; the inits and teardowns have to cancel what is
at hand against what is new (`FinalRowsNet`). They do, as a word whose timestamp is zero is zero (`HolderInv`) and
the snapshot whose registers are torn down is the last (`Steady`). For this the model keeps `balance` without zeros, and
defines what rows do to it by what each entry holds afterwards (`Settle`), so that no order of rows is involved.

`NoneIsNoReplay` says that the value for "no replay in progress" is not the state of one. The instance
gives `None` a model value; as a statement about all values it is a hypothesis and no `ASSUME`.

### `GetResultDataProofs`

First, for every run (any rows per snapshot and circuit type), number of replayers, and sizes:

- `TraceChunksAreConserved`: `Spec => []TraceChunksConserved`
- `TracesLeaveAlone`: `Spec => NoTraceLeavesShared`

`Inv` has three parts. `ControlInv` says that an aborted simulator is past its loop and the flag still
raised, that a replayer has ended only if no snapshot is queued and none can follow, and that between
two calls no task can report to the next one: this is what lets `Prove` start over. `SnapshotInv` says
that every snapshot is in one place: with the simulator, queued, with one replayer, or replayed
(reported, in a message, or processed). The second theorem follows because the loop releases data only
for snapshots it knows to be replayed (`HandleSnapshotReplayed`) or when all tasks have ended
(`Return`, `DoneIsNotLive`). The first adds one count, in which an aborted simulator still holds a chunk
up to `FinishRun`. What a message becomes does not matter to either: `HandlersConclude` and
`ConcludeLeavesTasks` say that the loop leaves the tasks alone, but for the flag.

The only assumption used up to here is that there are finitely many replayers and at least one.

Then, for every run, number of allocators, size of chunks, circuits and partitions, and every capacity of the
cache, on both kinds of machine:

- `AllocatorsAreConserved`: `Spec => []AllocatorsConserved`

Each term of the balance is a sum over a set or a table, and most steps move data from one to another:
a message into a table, two halves of a circuit into one request, a request into an answer, an answer
into the cache. Sums only add up if what is added was not there before, and a set of requests loses one
if two are equal. So the balance needs to know where the data of every circuit is, and `DataInv` says so:

- `ProducerInv`: a producer has reserved complete circuits, and rows of one more exactly when it holds
  chunks; so the circuit it sends next was not sent before (`Issued`). This is arithmetic about
  `produced`, `CyclesPerCircuit` and the boundaries between circuits (`ReserveKeepsProducer`).
- `KeyInv`: the data of a circuit is in one place: on its way to the loop, waiting in the loop for a
  replay or for its other half (`Upstream`), at the GPU side, answered, or done (`Downstream`). A circuit
  served from the cache may be in both, and its second copy is freed and not sent. The inits and teardowns that
  a proving call fills in at its start are the leading ones of the machine, and are awaited only from
  `trivial` on.
- `OrderInv`: the simulation result is the simulator's last message, and the request channel is closed
  only when nothing waits; otherwise the end of a call would drop what the tables hold.
- `InitsInv` and `ReportInv`: only leading circuits have no inits, and a snapshot is reported once.

There is one lemma per step of the simulator and per message of the loop. `HandlerKeeps` states what all
handlers share, with the requests of a message as its parameter; `OfferKeeps` does the same for the two
handlers that release tracing data. `PartsOfWritten`, `JoinedSum` and `PartnersSum` split what they release into
three parts: requests that go out alone, requests that find their other half, and data that waits for it.
The assumptions used are the shape of the run and of its circuits (`RunAssumption`: the unified machine's
circuits are as large as a partition of inits and teardowns, `cpu_worker.rs:98`), positive sizes, and that a
unified run touches at most as many words as it has cycles.

### `GetResultCallProofs`

Under the same assumptions, and from the invariants above:

- `SentTracesStayWritten`: `Spec => []SentTracesAreWritten`
- `CallsAreComplete`: `Spec => []CallComplete`
- `AssertionsAlwaysHold`: `Spec => []AssertionsHold`
- `TypeCorrect`: `Spec => []TypeOK`

The first theorem is about rows that are written after the data was sent. A snapshot is `Open` while
its rows can still be written: it is live, or not yet taken by a simulator that still takes some. `CoverInv`
says that data the loop has not found written names every open snapshot with rows of its circuit, and
that data it has found written has none. `ReservedInv` is the producers' part of it: a producer has
noted every snapshot that has put rows into the circuit it is filling, so that a complete circuit, whose
last row lies before any snapshot still ahead, names all of them (`ReserveCovers`, `FinalizeCovers`).
The handlers let data go only when the snapshots it names are replayed, and a replayed snapshot is not open
(`ReplayedIsClosed`). An aborted simulator is the special case: its last snapshot is counted but never
traced, and the rows reserved are those of the snapshots before it.

The other two rest on `CountInv` and `CompleteInv`. `CountInv` says that the counters of the loop count
circuits: those sent are as many as the circuits that have reached the GPU side (`Downstream`), those
pending as many as the GPU side has not answered to the loop (`Pending`). Both are cardinalities of sets that
grow and shrink by requests, so this needs `KeyInv`: equal circuits would be counted twice. `CompleteInv`
says that before an abort the simulator leaves no circuit out and that every circuit it has issued is on
its way (`Upstream`) or has reached the GPU side: no handler drops one (`Passed`, stated once for all
handlers in `HandlerKeepsCount`). A call that returns without an abort has nothing upstream (`OrderInv`)
and nothing pending, so everything issued is done, and everything is issued (`CircuitIsIssued`). A call
aborts only when the number of requests sent is that of the first call; as `Downstream` is a subset of the
circuits of the run and has as many elements, it is all of them (`AllCounted`). The first call is what
makes that number right, and so the induction goes over both calls.

`AssertionsHold` needs both counters too: that nothing is sent without a sender follows because a closed
channel means nothing is upstream, or that all circuits have been sent.

`TypeCorrect` is the last theorem and not the first, because that the two pools never hold more than they were
created with is a consequence of their balances (`AllocatorsBound`, `TraceChunksBound`), and that a counter is
at most the number of circuits one of `CountInv`. `TypeInv` adds what no other invariant needed: the indexes of
snapshots everywhere are indexes of the run, tracing data names at least one snapshot, a producer with
chunks has room in the last of them, and the numbers of unified circuits are those of the run.

### `GpuStreamsProofs`

For every sequence of requests (any number, each with any transfers, proofs and commitments mixed, setups
known or not), every pool of buffers that is large enough, and every interleaving of the thread with the
two streams:

- `StreamsNeverRace`: `Spec => []StreamsDoNotRace`
- `KernelsFind`: `Spec => []KernelsFindTheirData`
- `SourcesStayHeld`: `Spec => []SourcesAreHeld`
- `JobsGetResults`: `Spec => []JobsHaveResults`
- `TypeCorrect`: `Spec => []TypeOK`

None of these is inductive: what runs next depends on all that is enqueued, and what is enqueued may use a
buffer that a later operation of the other stream will overwrite. The invariant therefore speaks of the two
queues `e` and `h` and the contents `c` as a whole, apart from the thread (`Sound`):

- `Ordered`: an operation of `e` and a copy of `h` that touch the same buffer are ordered by events. `After`:
  the copy is behind a wait for an `allocated` event that is recorded behind the operation. `Before`: the
  operation is behind a wait for the `transferred` event of the copy, which `Announced` puts behind it.
- `Sourced`: every operation of `e` finds what it should read (`Finds`): the last kernel before it that writes the
  buffer leaves it there (`FromKernel`), a copy it waits for does (`FromCopy`), or it is in the buffer
  already (`IsIn`), and no copy comes in between.

`ExecRuns` and `H2dRuns` show that executing the head of either queue keeps this, `ExecAdds` and `EventAdds`
that enqueuing does. A `Scene` adds to it what the thread relies on from one phase to the next: `keeps`, what
a later kernel will find in which buffer, and `open`, the copies that nothing enqueued waits for yet. `Leads` is the
Hoare triple of a piece of work, so that `TransfersLead`, `CommitLeads`, `ProveLeads` and `CapsLead` follow the
code call by call (`LeadsOn`). `ProveLeads` is where buffers that the proof has dropped are allocated again while
the witness kernel that reads them is pending.

The thread's part (`Inv`) says that each request is in one place of the pipeline (`Ages`), that the buffers of
phase one and of the request moving to phase two are disjoint (`Kinds`, from `BuffersAreFree`: the n-th free
buffer from one end is not the m-th from the other), and that the scene keeps the transfers of both
(`Stage`). `Waits` says that every wait of the exec stream has the `is_finished` event of its job behind it, so
when that event is over so are the copies of the job: this is why a request may be answered
(`SourcesStayHeld`). The exception is the first setup of a circuit, which belongs to no job, and for which the thread
synchronizes. `Dues` says that the callback of a job comes before that event, and that it stores the result
because the worker holds its callbacks until then.

The assumption used is that no allocation fails (`DeviceBlocksAssumption`: buffers for the transfers of two
requests in a row, with a setup each, and one more). The invariant was checked with TLC on the instance of
`gpu_streams` before it was proved.

### `WorkerGeometryProofs`

- `GeometryCovers`: for every number of threads and amount of work, the chunks tile the work.
- `RebalancedLastIsSmallest`: the assertion at `worker/src/lib.rs:462` never fails.

All branches come down to one equation between number, size and remainder (`AddsUp`), from which the
positions follow by distributivity (`AddsUpCovers`). Numbers are unbounded: the proofs do not cover
a `usize` overflow in `next_power_of_two` or the products.

### Only model-checked

- liveness and `ENABLED`, which the prover does not treat: `BatchReturns`, `DropCompletes`,
  `ClosedBatchIsAnswered`, `CallReturns`, `EveryRequestIsAnswered`, `CompilationEnds`, the fair
  refinement.

Every safety invariant of a passing run is stated by a theorem.

## 5. Findings

1. **A batch whose answers are all in may never end** (`gpu_manager_stuck`). The manager tests
   for the end of a batch when it forwards a result and not when it finds the request channel closed. If
   the requests of another batch push the last result out first, nothing removes the sender
   later, and the caller waits forever. With one caller at a time this does not happen
   (`gpu_manager_exclusive`).
2. **The non-determinism source may still be shared** (`get_result_source`).
   `commit_memory_and_prove` unwraps `Arc::into_inner` when the first call has returned, but the simulator task drops
   its share after the senders whose disconnection ends that call.
3. **Unified circuits and their inits may differ in number** (`get_result_ragged`). The count of
   circuits without inits is a floor of a difference of cycles, not the difference of two counts of
   circuits. When the last circuit is shorter than the remainder of the touched memory, the number of inits is
   one too small and the last circuit waits forever. The CPU code uses the difference of the counts.
4. **A pure instruction with target x0 is compiled for ever** (`replay_compile`). The loop over the
   text section advances at its end, which the `continue` for such instructions jumps over, although the
   comment above it calls them NOPs. It takes a program that contains such an instruction, for example
   the canonical nop.

## 6. Not modelled

- The rayon pool: tasks always run here. With too few threads for the tasks of concurrent calls,
  replayers may not start while simulators wait for them (`execution/prover.rs:614`), and
  `collect_inits_and_teardowns` runs a scope inside a task (`worker/src/lib.rs:473`). Which task a
  blocked thread picks up is decided inside rayon.
- The rest of the instruction set (shifts, multiplication, comparisons, `jalr`), which is
  treated like the classes that are modelled, and the keccak delegation.
- The interpreter in `riscv_transpiler/src/vm`, a second simulator that the execution prover does not run.
- The stages of a proof and of a commitment inside one kernel of `GpuStreams`, including the auxiliary
  stream that is forked and joined inside the execution stream.
- A guest that makes another number of blake calls than its control word asks rounds for. The simulator records it
  (see `Replay` above) and the replay fails its assertions. The guest library takes both from one constant
  (`blake2s_u32/src/state_with_extended_control.rs:131-150`).
- A blake input that begins inside the state, which the assertions on the pointers allow (`blake.rs:22-27`).
- What a bound of 2^30 cycles or more should do: its truncation ends the run early, which no property forbids.
- A delegation that touches more words than the run has cycles: `total_cycles - count` in
  `cpu_worker.rs` would underflow. `TouchedWordsAssumption` excludes it.
- `add_binary`, the start-up of the prover, and the transcript between the two calls: sequential.
- Numerics (fields, FFT, hashes, CUDA kernels), circuits, verifiers, generators, translators to
  other constraint languages: sequential computations over large data, outside what TLC evaluates.
- Wrappers of the allocator: a mutex around `AllocationsTracker`.

## 7. Plan

Done, in this order: `WorkBatches`, `GpuManager` and its proofs; `AllocationsTracker`; `CpuWorkers` and
`GetResult`; `Replay`; `GpuStreams`; `WorkerGeometry` and its proofs; the proofs about the allocator and
the memory holder; the proof that `GpuManager` implements `WorkBatches`; the proofs about `GetResult`;
sums, the counter of the allocator, the balance of host allocators, and what a call of `get_result` promises;
types, timestamps, rows and final states of replays; the streams of a GPU worker; the balance of a
finished run of `Replay`.

Next, models: a rayon pool with blocking tasks; the CPU's split of inits and teardowns
(`prover/src/tracers/oracles`) as reference for the unified counts; the keccak delegation, whose log
depends on its control word.

Next, proofs: of the models just named.
