------------------------------ MODULE GetResult -----------------------------
(***************************************************************************)
(* ExecutionProver::get_result, its caller commit_memory_and_prove and the *)
(* trace cache between the two calls it makes, on top of the CPU workers.  *)
(*                                                                         *)
(* The loop of get_result reads one WorkerResult at a time.  Tracing data  *)
(* becomes a GPU request when every snapshot it has rows of was replayed   *)
(* and, for the unified machine, when the inits and teardowns of the same  *)
(* circuit have arrived.  When nothing can follow, the request channel is  *)
(* closed; when a proving call has sent all requests its commitment call   *)
(* had sent, it aborts the simulation instead.                             *)
(*                                                                         *)
(* The GPU side is what WorkBatches promises to a lone caller: a request   *)
(* is answered in the end, except that while the channel is open a few     *)
(* may stay inside the pipelines of the GPU workers.                       *)
(***************************************************************************)
EXTENDS CpuWorkers

CONSTANTS
  MinFreeAllocators,  \* below this number of free allocators the cache is trimmed
  Withheld            \* requests that may stay inside GPU pipelines: two per device

ASSUME CachingAssumption == MinFreeAllocators \in Nat /\ Withheld \in Nat

VARIABLES
  main,               \* where the calling thread is
  caching,            \* in commit_memory_and_prove; else commit_memory or prove
  proving,            \* which call of get_result it is in
  gpu,                \* requests the GPU side has and has not answered
  gpu_work_requests_sender,  \* is_some()
  pending_requests_count,
  sent_requests_count,
  requests_served_from_cache,
  trivial,            \* trivial_unified_inits_and_teardowns_count
  simulation_result,  \* is_some()
  abort_signaled,
  uninitialized,      \* uninitialized_tracing_data: messages
  processed,          \* processed_snapshots
  unpaired_inits,     \* unpaired_unified_inits_and_teardowns: sequence id -> chunks
  unpaired_tracing,   \* unpaired_unified_tracing_data: sequence id -> chunks
  completed,          \* circuits with a result: the memory caps, or the proofs
  entries,            \* cache.entries
  total_requests_count,  \* of the cache
  cached_trivial         \* of the cache

requestVars == <<gpu_work_requests_sender, sent_requests_count, requests_served_from_cache,
                 abort_signaled>>
dataVars == <<trivial, simulation_result, uninitialized, processed, unpaired_inits,
              unpaired_tracing>>
resultVars == <<pending_requests_count, completed>>
cacheVars == <<entries, total_requests_count, cached_trivial>>
vars == <<main, caching, proving, gpu, requestVars, dataVars, resultVars, cacheVars, cpuVars>>

GpuWorkResult(request) ==
  [type |-> "GpuWorkResult", key |-> request.key, chunks |-> request.chunks]

NoData == [q \in {} |-> 0]

With(f, q, n) == [p \in DOMAIN f \cup {q} |-> IF p = q THEN n ELSE f[p]]

Without(f, q) == [p \in DOMAIN f \ {q} |-> f[p]]

TotalChunks(S) == SumFunction([request \in S |-> request.chunks])

\* Chunks of the first n entries of the cache.
ChunksOfFirst(list, n) == SumFunction([i \in 1..n |-> list[i].chunks])

-----------------------------------------------------------------------------
(* The start of a call. *)

Init ==
  /\ main = "start"
  /\ caching \in BOOLEAN
  /\ proving \in (IF caching THEN {FALSE} ELSE BOOLEAN)
  /\ gpu = {}
  /\ gpu_work_requests_sender = FALSE
  /\ sent_requests_count = 0
  /\ pending_requests_count = 0
  /\ requests_served_from_cache = {}
  /\ trivial = 0
  /\ simulation_result = FALSE
  /\ abort_signaled = FALSE
  /\ uninitialized = {}
  /\ processed = {}
  /\ unpaired_inits = NoData
  /\ unpaired_tracing = NoData
  /\ completed = {}
  /\ entries = <<>>
  /\ total_requests_count = 0
  /\ cached_trivial = 0
  /\ CpuInit

\* A slip: the last request is taken for sent.
AllButOneSent(sent) == sent + 1 >= total_requests_count

\* cache.total_requests_count == sent_requests_count
AllSent(sent) == sent = total_requests_count

\* The entries of the cache are drained and sent as proof requests before
\* anything else; if that is all there is, nothing is simulated.
Begin(drained, all_sent) ==
  /\ main' = "loop"
  /\ gpu' = ToSet(drained)
  /\ sent_requests_count' = Len(drained)
  /\ pending_requests_count' = Len(drained)
  /\ requests_served_from_cache' = {request.key : request \in ToSet(drained)}
  /\ gpu_work_requests_sender' = ~all_sent
  /\ simulation_result' = all_sent
  /\ abort_signaled' = all_sent
  /\ uninitialized' = {}
  /\ processed' = {}
  /\ unpaired_tracing' = NoData
  /\ completed' = {}
  /\ entries' = <<>>
  /\ UNCHANGED <<total_requests_count, cached_trivial, results, free_allocators>>
  /\ IF all_sent
     THEN UNCHANGED <<snapshots, free_trace_chunks, abort, simulatorVars, replayerVars>>
     ELSE Spawn

Start ==
  /\ main = "start"
  /\ Begin(<<>>, FALSE)
  /\ UNCHANGED <<caching, proving, trivial, unpaired_inits>>

\* commit_memory_and_prove goes on to prove: it takes the values read by the
\* first simulation out of the shared source, which panics while the simulator
\* task still holds its share (Arc::into_inner(..).unwrap()).
Prove ==
  /\ main = "committed"
  /\ ~SimulatorHoldsSource
  /\ proving' = TRUE
  /\ UNCHANGED caching
  /\ trivial' = cached_trivial
  /\ unpaired_inits' = [q \in 0..(cached_trivial - 1) |-> 0]
  /\ Begin(entries, AllSent(Len(entries)))

SourceShared ==
  /\ main = "committed"
  /\ SimulatorHoldsSource
  /\ main' = "source_shared"
  /\ UNCHANGED <<caching, proving, gpu, requestVars, dataVars, resultVars, cacheVars, cpuVars>>

-----------------------------------------------------------------------------
(* The loop: what follows every message. *)

Request(key, n) == [key |-> key, chunks |-> n]

\* A slip: requests that were served from the cache are sent again.
NeverServed(requests) == {}

Served(requests) == {request \in requests : request.key \in requests_served_from_cache}

\* A slip: tracing data that waits for a replay is forgotten.
NothingUnpaired(simulated) ==
  simulated /\ DOMAIN unpaired_inits' = {} /\ DOMAIN unpaired_tracing' = {}

\* A slip: the traces of requests already served are dropped, not freed.
NothingFreed(requests) == 0

\* free_traces on the requests that are skipped.
Freed(requests) == TotalChunks(Served(requests))

\* Every message that leads to a request has been handled.
NothingFollows(simulated) ==
  /\ simulated
  /\ uninitialized' = {}
  /\ DOMAIN unpaired_inits' = {}
  /\ DOMAIN unpaired_tracing' = {}

\* The requests a message led to are sent, those already served from the cache
\* are dropped; then the channel is closed if nothing can follow, or the
\* simulation is aborted if nothing else is needed of it.  `released` counts
\* the allocators the message itself set free, `simulated` says whether a
\* simulation result is known.  Sending without a sender panics.
Conclude(requests, released, simulated) ==
  LET fresh == requests \ Served(requests)
      sent == sent_requests_count + Cardinality(fresh)
      open == gpu_work_requests_sender /\ ~NothingFollows(simulated)
      stop == caching /\ proving /\ ~abort_signaled /\ open /\ AllSent(sent)
  IN  /\ results' = Tail(results)
      /\ main' = IF fresh # {} /\ ~gpu_work_requests_sender THEN "panicked" ELSE "loop"
      /\ gpu' = gpu \cup fresh
      /\ sent_requests_count' = sent
      /\ gpu_work_requests_sender' = (open /\ ~stop)
      /\ simulation_result' = (simulated \/ stop)
      /\ abort_signaled' = (abort_signaled \/ stop)
      /\ abort' = (abort \/ stop)
      /\ free_allocators' = free_allocators + released + Freed(requests)
      /\ UNCHANGED <<caching, proving, requests_served_from_cache, total_requests_count,
                     cached_trivial, snapshots, free_trace_chunks, simulatorVars,
                     replayerVars>>

Sent(requests) == pending_requests_count' = pending_requests_count + Cardinality(requests \ Served(requests))

-----------------------------------------------------------------------------
(* The loop: one action per kind of message. *)

Message(type) == main = "loop" /\ results # <<>> /\ Head(results).type = type

\* A slip: the cache is never trimmed.
NoneEvicted(list) == 0

\* How many entries trim_cache evicts, oldest first.
Evicted(list) ==
  Min({n \in 0..Len(list) :
         \/ n = Len(list)
         \/ free_allocators + ChunksOfFirst(list, n) >= MinFreeAllocators})

Trim(list) ==
  LET n == Evicted(list)
  IN  /\ entries' = SubSeq(list, n + 1, Len(list))
      /\ Conclude({}, ChunksOfFirst(list, n), simulation_result)

HandleSnapshotProduced ==
  /\ Message("SnapshotProduced")
  /\ UNCHANGED <<trivial, uninitialized, processed, unpaired_inits, unpaired_tracing,
                 resultVars>>
  /\ IF ~proving /\ caching
     THEN Trim(entries)
     ELSE Conclude({}, 0, simulation_result) /\ UNCHANGED entries

HandleInits ==
  /\ Message("InitsAndTeardownsData") /\ ~Unified
  /\ UNCHANGED <<trivial, uninitialized, processed, unpaired_inits, unpaired_tracing,
                 completed, entries>>
  /\ LET data == Head(results)
         requests == {Request(data.key, data.chunks)}
     IN  Conclude(requests, 0, simulation_result) /\ Sent(requests)

\* Circuits without inits of their own are counted by the commitment call and
\* need not be awaited by the proving call.
HandleUnifiedInits ==
  /\ Message("InitsAndTeardownsData") /\ Unified
  /\ UNCHANGED <<uninitialized, processed, completed, entries>>
  /\ LET data == Head(results)
         q == data.key[2]
         awaited == ~proving \/ ~caching \/ q >= trivial
         paired == q \in DOMAIN unpaired_tracing
         requests == IF awaited /\ paired
                     THEN {Request(data.key, data.chunks + unpaired_tracing[q])} ELSE {}
     IN  /\ trivial' = IF awaited /\ q >= trivial /\ data.chunks = 0 THEN q + 1 ELSE trivial
         /\ unpaired_tracing' = IF awaited /\ paired THEN Without(unpaired_tracing, q)
                                ELSE unpaired_tracing
         /\ unpaired_inits' = IF awaited /\ ~paired THEN With(unpaired_inits, q, data.chunks)
                              ELSE unpaired_inits
         /\ Conclude(requests, 0, simulation_result) /\ Sent(requests)

\* Tracing data whose rows are written becomes requests, except that data of the
\* unified machine waits for the inits and teardowns of its circuit.
Offer(written) ==
  LET waiting == {data \in written :
                    data.key[1] = "Unified" /\ data.key[2] \notin DOMAIN unpaired_inits}
      paired == {data \in written \ waiting : data.key[1] = "Unified"}
      indexes == {data.key[2] : data \in paired}
      requests ==
        {Request(data.key, data.chunks) : data \in written \ (waiting \cup paired)}
          \cup {Request(data.key, data.chunks + unpaired_inits[data.key[2]]) : data \in paired}
  IN  /\ unpaired_inits' = [q \in DOMAIN unpaired_inits \ indexes |-> unpaired_inits[q]]
      /\ unpaired_tracing' =
           [q \in DOMAIN unpaired_tracing \cup {data.key[2] : data \in waiting} |->
              IF q \in DOMAIN unpaired_tracing THEN unpaired_tracing[q]
              ELSE (CHOOSE data \in waiting : data.key[2] = q).chunks]
      /\ Conclude(requests, 0, simulation_result) /\ Sent(requests)

\* A slip: one replayed snapshot is enough.
PartlyWritten(data, replayed) == data.snapshots \cap replayed # {}

\* participating_snapshot_indexes.is_subset(&processed_snapshots)
Written(data, replayed) == data.snapshots \subseteq replayed

HandleTracingData ==
  /\ Message("TracingData")
  /\ LET data == Head(results)
     IN  IF Written(data, processed)
         THEN UNCHANGED uninitialized /\ Offer({data})
         ELSE uninitialized' = uninitialized \cup {data} /\ Offer({})
  /\ UNCHANGED <<trivial, processed, completed, entries>>

HandleSnapshotReplayed ==
  /\ Message("SnapshotReplayed")
  /\ LET index == Head(results).index
         replayed == processed \cup {index}
         written == {data \in uninitialized :
                       index \in data.snapshots /\ Written(data, replayed)}
     IN  /\ processed' = replayed
         /\ uninitialized' = uninitialized \ written
         /\ Offer(written)
  /\ UNCHANGED <<trivial, completed, entries>>

HandleSimulationResult ==
  /\ Message("SimulationResult")
  /\ UNCHANGED <<trivial, uninitialized, processed, unpaired_inits, unpaired_tracing,
                 resultVars, entries>>
  /\ Conclude({}, 0, TRUE)

\* A memory commitment keeps its trace in the cache, for the proof; without a
\* cache, and after a proof, the trace is freed.
HandleGpuWorkResult ==
  /\ Message("GpuWorkResult")
  /\ UNCHANGED <<trivial, uninitialized, processed, unpaired_inits, unpaired_tracing>>
  /\ LET done == Request(Head(results).key, Head(results).chunks)
     IN  /\ pending_requests_count' = pending_requests_count - 1
         /\ completed' = completed \cup {done.key}
         /\ IF proving \/ ~caching
            THEN Conclude({}, done.chunks, simulation_result) /\ UNCHANGED entries
            ELSE IF simulation_result
            THEN Conclude({}, 0, simulation_result) /\ entries' = Append(entries, done)
            ELSE Trim(Append(entries, done))

-----------------------------------------------------------------------------
(* The end of a call. *)

\* A slip: what an aborted simulation left behind is not freed.
NothingLeft == 0

\* Allocators of the data an aborted simulation left behind.
LeftBehind ==
  IF abort_signaled
  THEN TotalChunks(uninitialized) + SumFunction(unpaired_inits) + SumFunction(unpaired_tracing)
  ELSE 0

\* Every sender of results has been dropped.
Disconnected ==
  /\ main = "loop"
  /\ results = <<>>
  /\ CpuDone
  /\ ~gpu_work_requests_sender /\ gpu = {}

\* The loop ends.
Return ==
  /\ Disconnected
  /\ main' = IF caching /\ ~proving THEN "committed" ELSE "done"
  /\ free_allocators' = free_allocators + LeftBehind
  /\ uninitialized' = {} /\ unpaired_inits' = NoData /\ unpaired_tracing' = NoData
  /\ IF caching /\ ~proving
     THEN total_requests_count' = sent_requests_count /\ cached_trivial' = trivial
     ELSE UNCHANGED <<total_requests_count, cached_trivial>>
  /\ UNCHANGED <<caching, proving, gpu, requestVars, trivial, simulation_result, processed,
                 resultVars, entries, results, snapshots, free_trace_chunks, abort,
                 simulatorVars, replayerVars>>

\* The GPU side answers a request.
Answer(request) ==
  /\ request \in gpu
  /\ gpu' = gpu \ {request}
  /\ Send(GpuWorkResult(request))
  /\ UNCHANGED <<main, caching, proving, requestVars, dataVars, resultVars, cacheVars,
                 snapshots, sharedVars, simulatorVars, replayerVars>>

-----------------------------------------------------------------------------

Loop ==
  \/ HandleSnapshotProduced \/ HandleInits \/ HandleUnifiedInits \/ HandleTracingData
  \/ HandleSnapshotReplayed \/ HandleSimulationResult \/ HandleGpuWorkResult
  \/ Return

GetResult == Start \/ Prove \/ SourceShared \/ Loop

clientVars == <<main, caching, proving, gpu, requestVars, dataVars, resultVars, cacheVars>>

CpuWorkers == (Simulator \/ \E r \in Replayers : Replayer(r)) /\ UNCHANGED clientVars

Finished == main \in {"done", "source_shared", "panicked"} /\ UNCHANGED vars

Next ==
  \/ GetResult
  \/ CpuWorkers
  \/ \E request \in gpu : Answer(request)
  \/ Finished

(***************************************************************************)
(* The tasks run, and the GPU side answers: all requests once the channel  *)
(* is closed, and those beyond the capacity of its pipelines before that.  *)
(***************************************************************************)
Fairness ==
  /\ WF_vars(GetResult)
  /\ WF_vars(Simulator /\ UNCHANGED clientVars)
  /\ \A r \in Replayers : WF_vars(Replayer(r) /\ UNCHANGED clientVars)
  /\ WF_vars(/\ ~gpu_work_requests_sender \/ Cardinality(gpu) > Withheld
             /\ \E request \in gpu : Answer(request))

Spec == Init /\ [][Next]_vars
FairSpec == Spec /\ Fairness

-----------------------------------------------------------------------------
(* Correctness. *)

Positions == {"start", "loop", "committed", "done", "source_shared", "panicked"}

\* Type correctness of the state of the caller, the loop, the cache and the
\* CPU tasks.
TypeOK ==
  /\ CpuTypeOK
  /\ main \in Positions
  /\ \A flag \in {caching, proving, gpu_work_requests_sender, simulation_result, abort_signaled} :
       flag \in BOOLEAN
  /\ \A request \in gpu \cup ToSet(entries) :
       request.key \in AllKeys /\ request.chunks \in 0..Allocators
  /\ requests_served_from_cache \subseteq AllKeys /\ completed \subseteq AllKeys
  /\ \A n \in {pending_requests_count, sent_requests_count, total_requests_count} :
       n \in 0..Cardinality(AllKeys)
  /\ trivial \in Nat /\ cached_trivial \in Nat
  /\ \A data \in uninitialized :
       data.type = "TracingData" /\ data.key \in TracingKeys /\ data.snapshots # {}
  /\ processed \subseteq DOMAIN Run
  /\ DOMAIN unpaired_inits \subseteq 0..(EmptyCircuits + Partitions)
  /\ DOMAIN unpaired_tracing \subseteq 0..(EmptyCircuits + Partitions)

ChunksIn(message) == IF "chunks" \in DOMAIN message THEN message.chunks ELSE 0

\* No host allocator is lost or returned twice: all of them are free, with the
\* simulator, in a message, waiting in the loop, on the GPU side or in the
\* cache.  (recv and send on free_allocators; free_traces, trim_cache, the skip
\* of cached requests and the clean-up after an abort.)
AllocatorsConserved ==
  free_allocators + inits_chunks + SumFunction(chunks)
    + SumFunction([i \in DOMAIN results |-> ChunksIn(results[i])])
    + TotalChunks(uninitialized) + TotalChunks(gpu)
    + SumFunction(unpaired_inits) + SumFunction(unpaired_tracing)
    + ChunksOfFirst(entries, Len(entries))
  = Allocators

\* The trace chunks a call starts with are all there when its tasks have ended,
\* aborted or not, and never handed to two tasks: the simulator's task asserts
\* trace_chunks.len() == trace_chunks_count before it puts them back.
TraceChunksConserved ==
  main \notin {"start"} =>
    TraceChunks =
      free_trace_chunks + Len(snapshots)
        + Cardinality({r \in Replayers : replayer[r] = "replaying"})
        + (IF \/ simulator \in {"run", "trace"}
              \/ is_aborted /\ simulator \in {"finalize", "exit"} THEN 1 ELSE 0)

Replies == {results[i].key : i \in {j \in DOMAIN results : results[j].type = "GpuWorkResult"}}

\* What was sent to the GPU is written: no snapshot with rows of a requested
\* circuit is being simulated, queued or replayed, so the GPU never reads the
\* rows a replayer still writes (TracingData is sent before the replay; the
\* memory is shared without a lock).
SentTracesAreWritten ==
  \A key \in ({request.key : request \in gpu} \cup Replies) \ requests_served_from_cache :
    key \in TracingKeys => Participants(key[1], key[2]) \cap Live = {}

\* Tracing data leaves the loop -- for the GPU, or freed because its request was
\* served from the cache or its simulation aborted -- only when no task holds
\* ranges of its chunks: into_allocators takes the chunks out of their Arcs and
\* panics on a shared one.
NoTraceLeavesShared ==
  [][\A data \in uninitialized :
       data \notin uninitialized' => data.snapshots \cap Live = {}]_vars

\* The asserts and unwraps of get_result: no request after the channel was
\* closed, no answer too many, nothing twice, no inits and teardowns for a
\* circuit known to have none, and nothing left at the end of a call that was
\* not aborted.
AssertionsHold ==
  /\ main # "panicked"
  /\ Message("GpuWorkResult") =>
       pending_requests_count # 0 /\ Head(results).key \notin completed
  /\ Message("SnapshotReplayed") => Head(results).index \notin processed
  /\ Message("TracingData") =>
       LET key == Head(results).key
       IN  /\ \A data \in uninitialized : data.key # key
           /\ key[1] = "Unified" => key[2] \notin DOMAIN unpaired_tracing
  /\ Message("InitsAndTeardownsData") /\ Unified =>
       LET q == Head(results).key[2]
           n == Head(results).chunks
       IN  IF proving /\ caching
           THEN IF q < trivial THEN n = 0 ELSE n # 0 /\ q \notin DOMAIN unpaired_inits
           ELSE (q < trivial => n = 0) /\ q \notin DOMAIN unpaired_inits
  /\ Disconnected =>
       /\ pending_requests_count = 0
       /\ simulation_result
       /\ proving => entries = <<>>
       /\ ~abort_signaled => uninitialized = {} /\ unpaired_inits = NoData
                               /\ unpaired_tracing = NoData

\* A call that returns has the memory caps, or the proof, of every circuit of
\* the run, also when the proving call aborted its simulation and took the rest
\* from the cache.
CallComplete == main \in {"committed", "done"} => completed = AllKeys

\* A call returns: no waiting for an allocator, a trace chunk, a pairing or the
\* GPU lasts forever.
CallReturns == main = "loop" ~> main # "loop"

\* Arc::into_inner(non_determinism_source).unwrap(): when the commitment call
\* has returned, nobody else holds the source.
SourceIsReturned == main # "source_shared"

=============================================================================
