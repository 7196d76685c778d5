----------------------------- MODULE CpuWorkers -----------------------------
(***************************************************************************)
(* The CPU side of one call of ExecutionProver::get_result: the SIMULATOR  *)
(* task, which runs the binary and cuts the run into snapshots, and the    *)
(* REPLAYER tasks, which replay the snapshots and so write the witness.    *)
(*                                                                         *)
(* While it runs, the simulator only reserves room for the witness: for    *)
(* every snapshot it hands each circuit type a range of rows in chunks of  *)
(* host memory, each taken from the pool of free allocators, and sends the *)
(* TracingData of a circuit as soon as its last row is reserved.  The rows *)
(* are written later, by whichever replayer gets the snapshot.             *)
(***************************************************************************)
EXTENDS Integers, Sequences, SequencesExt, FiniteSets, FiniteSetsExt

CONSTANTS
  Unified,          \* execution_kind = ExecutionKind::Unified
  Types,            \* circuit types with rows, in the order of process_snapshot
  Run,              \* per snapshot: type -> rows (the differences of the counters)
  CyclesPerCircuit, \* type -> get_num_cycles()
  TouchedWords,     \* words of memory with a nonzero timestamp after the run
  PartitionSize,    \* words of one circuit's inits and teardowns
  ChunkCapacity,    \* rows or words that fit one host allocator
  Allocators,       \* host allocators of the prover
  Replayers         \* replay_worker_threads_count

ASSUME RunAssumption ==
  /\ Unified \in BOOLEAN
  /\ Types \in Seq(ToSet(Types))
  /\ Run \in Seq([ToSet(Types) -> Nat]) /\ Run # <<>>
  /\ CyclesPerCircuit \in [ToSet(Types) -> Nat \ {0}]
  /\ Unified <=> "Unified" \in ToSet(Types)
  /\ Unified => CyclesPerCircuit["Unified"] = PartitionSize
  /\ "InitsAndTeardowns" \notin ToSet(Types)
ASSUME SizesAssumption ==
  /\ TouchedWords \in Nat /\ PartitionSize \in Nat \ {0}
  /\ ChunkCapacity \in Nat \ {0} /\ Allocators \in Nat
ASSUME ReplayersAssumption == IsFiniteSet(Replayers) /\ Replayers # {}

VARIABLES
  results,            \* the channel of WorkerResults
  snapshots,          \* the channel of snapshots: their indexes
  free_allocators,    \* number of allocators in the channel of that name
  free_trace_chunks,  \* number of chunks in the channel of that name
  abort,              \* the flag get_result raises
  simulator,          \* where the simulator task is
  snapshot_index,     \* number of snapshots taken
  is_aborted,
  produced,           \* type -> rows reserved so far
  chunks,             \* type -> chunks of the circuit being filled
  room,               \* type -> spare capacity of the last of them
  participating,      \* type -> participating_snapshot_indexes
  inits_index,        \* number of inits and teardowns sent
  inits_chunks,       \* chunks filled for the next of them
  replayer,           \* per replayer: where its task is
  replaying,          \* per replayer: the snapshot it has received
  replayer_aborted    \* per replayer: its is_aborted

sharedVars    == <<free_allocators, free_trace_chunks, abort>>
producerVars  == <<produced, chunks, room, participating>>
simulatorVars == <<simulator, snapshot_index, is_aborted, producerVars,
                   inits_index, inits_chunks>>
replayerVars  == <<replayer, replaying, replayer_aborted>>
cpuVars == <<results, snapshots, sharedVars, simulatorVars, replayerVars>>

TraceChunks == 2 * Cardinality(Replayers)

-----------------------------------------------------------------------------
(* The shape of the run. *)

CeilDiv(a, b) == (a + b - 1) \div b

\* Rows of type t in the first n snapshots.
Rows(t, n) == SumFunction([i \in 1..n |-> Run[i][t]])

\* The snapshots with rows in circuit q of type t.
Participants(t, q) ==
  {i \in DOMAIN Run : /\ Rows(t, i - 1) < Rows(t, i)
                      /\ Rows(t, i - 1) < (q + 1) * CyclesPerCircuit[t]
                      /\ Rows(t, i) > q * CyclesPerCircuit[t]}

\* The circuits of the run: a type and a sequence id.
TracingKeys ==
  UNION {{<<t, q>> : q \in 0..(CeilDiv(Rows(t, Len(Run)), CyclesPerCircuit[t]) - 1)}
           : t \in ToSet(Types)}

InitsCircuit == IF Unified THEN "Unified" ELSE "InitsAndTeardowns"

Partitions == CeilDiv(TouchedWords, PartitionSize)

InitsKeys == IF Unified THEN {} ELSE {<<InitsCircuit, q>> : q \in 0..(Partitions - 1)}

AllKeys == TracingKeys \cup InitsKeys

\* Leading circuits of the unified machine that initialize no memory.
EmptyCircuits ==
  IF Unified THEN (Rows("Unified", Len(Run)) - TouchedWords) \div PartitionSize ELSE 0

\* total_cycles - count does not underflow: not true of every binary, since one
\* call of a delegation touches many words in one cycle.
ASSUME TouchedWordsAssumption == Unified => TouchedWords <= Rows("Unified", Len(Run))

\* Words of partition q: the first takes what is left over.
PartitionWords(q) ==
  IF q = 0 THEN TouchedWords - (Partitions - 1) * PartitionSize ELSE PartitionSize

-----------------------------------------------------------------------------
(* WorkerResult *)

SnapshotProduced == [type |-> "SnapshotProduced"]
TracingData(key, n, indexes) ==
  [type |-> "TracingData", key |-> key, chunks |-> n, snapshots |-> indexes]
InitsAndTeardownsData(q, n) ==
  [type |-> "InitsAndTeardownsData", key |-> <<InitsCircuit, q>>, chunks |-> n]
SimulationResult == [type |-> "SimulationResult"]
SnapshotReplayed(i) == [type |-> "SnapshotReplayed", index |-> i]

Send(message) == results' = Append(results, message)

-----------------------------------------------------------------------------

NoRows == [t \in ToSet(Types) |-> 0]

\* The tasks have not been spawned.
CpuInit ==
  /\ results = <<>>
  /\ snapshots = <<>>
  /\ free_allocators = Allocators
  /\ free_trace_chunks = 0
  /\ abort = FALSE
  /\ simulator = "done"
  /\ snapshot_index = 0
  /\ is_aborted = FALSE
  /\ produced = NoRows /\ chunks = NoRows /\ room = NoRows
  /\ participating = [t \in ToSet(Types) |-> {}]
  /\ inits_index = 0 /\ inits_chunks = 0
  /\ replayer = [r \in Replayers |-> "done"]
  /\ replaying = [r \in Replayers |-> 0]
  /\ replayer_aborted = [r \in Replayers |-> FALSE]

\* get_result spawns the tasks: the simulator puts its set of trace chunks into
\* the channel and takes the first.
Spawn ==
  /\ snapshots' = <<>>
  /\ free_trace_chunks' = TraceChunks - 1
  /\ abort' = FALSE
  /\ simulator' = "run"
  /\ snapshot_index' = 0
  /\ is_aborted' = FALSE
  /\ produced' = NoRows /\ chunks' = NoRows /\ room' = NoRows
  /\ participating' = [t \in ToSet(Types) |-> {}]
  /\ inits_index' = 0 /\ inits_chunks' = 0
  /\ replayer' = [r \in Replayers |-> "waiting"]
  /\ replaying' = [r \in Replayers |-> 0]
  /\ replayer_aborted' = [r \in Replayers |-> FALSE]

-----------------------------------------------------------------------------
(* The simulator. *)

\* A trace chunk is full, or the binary has finished.
ProcessTrace ==
  /\ simulator = "run"
  /\ snapshot_index' = snapshot_index + 1
  /\ IF abort
     THEN is_aborted' = TRUE /\ simulator' = "finalize" /\ UNCHANGED results
     ELSE simulator' = "trace" /\ Send(SnapshotProduced) /\ UNCHANGED is_aborted
  /\ UNCHANGED <<snapshots, sharedVars, producerVars, inits_index, inits_chunks,
                 replayerVars>>

\* The types that still need rows for the current snapshot.
Unfinished == {i \in DOMAIN Types : produced[Types[i]] # Rows(Types[i], snapshot_index)}

NextBoundary(t) == (produced[t] \div CyclesPerCircuit[t] + 1) * CyclesPerCircuit[t]

\* One round of the loop in TracingDataProducer::process_snapshot: take a chunk
\* if the last one is full, reserve rows in it up to the end of the chunk, the
\* circuit or the snapshot.
Reserve ==
  /\ simulator = "trace"
  /\ Unfinished # {}
  /\ LET t == Types[Min(Unfinished)]
         fresh == chunks[t] = 0 \/ room[t] = 0
         spare == IF fresh THEN ChunkCapacity ELSE room[t]
         end == Min({Rows(t, snapshot_index), NextBoundary(t)})
         diff == Min({spare, end - produced[t]})
         full == produced[t] + diff = NextBoundary(t)
         grown == IF fresh THEN chunks[t] + 1 ELSE chunks[t]
         indexes == participating[t] \cup {snapshot_index}
     IN  /\ fresh => free_allocators > 0
         /\ free_allocators' = IF fresh THEN free_allocators - 1 ELSE free_allocators
         /\ produced' = [produced EXCEPT ![t] = @ + diff]
         /\ room' = [room EXCEPT ![t] = IF full THEN 0 ELSE spare - diff]
         /\ chunks' = [chunks EXCEPT ![t] = IF full THEN 0 ELSE grown]
         /\ participating' = [participating EXCEPT ![t] = IF full THEN {} ELSE indexes]
         /\ IF full
            THEN Send(TracingData(<<t, produced[t] \div CyclesPerCircuit[t]>>, grown, indexes))
            ELSE UNCHANGED results
  /\ UNCHANGED <<snapshots, free_trace_chunks, abort, simulator, snapshot_index, is_aborted,
                 inits_index, inits_chunks, replayerVars>>

\* Rows are reserved: the snapshot goes to the replayers, with its trace chunk.
SendSnapshot ==
  /\ simulator = "trace"
  /\ Unfinished = {}
  /\ snapshots' = Append(snapshots, snapshot_index)
  /\ simulator' = IF snapshot_index = Len(Run) THEN "finalize" ELSE "chunk"
  /\ UNCHANGED <<results, sharedVars, snapshot_index, is_aborted, producerVars,
                 inits_index, inits_chunks, replayerVars>>

ReceiveChunk ==
  /\ simulator = "chunk"
  /\ free_trace_chunks > 0
  /\ free_trace_chunks' = free_trace_chunks - 1
  /\ simulator' = "run"
  /\ UNCHANGED <<results, snapshots, free_allocators, abort, snapshot_index, is_aborted,
                 producerVars, inits_index, inits_chunks, replayerVars>>

\* Producers with rows of an incomplete circuit send them off, one by one.
Partial == {i \in DOMAIN Types : chunks[Types[i]] > 0}

FinalizeProducer ==
  /\ simulator = "finalize"
  /\ Partial # {}
  /\ LET t == Types[Min(Partial)]
     IN  /\ Send(TracingData(<<t, produced[t] \div CyclesPerCircuit[t]>>, chunks[t],
                             participating[t]))
         /\ chunks' = [chunks EXCEPT ![t] = 0]
         /\ room' = [room EXCEPT ![t] = 0]
         /\ participating' = [participating EXCEPT ![t] = {}]
  /\ UNCHANGED <<snapshots, sharedVars, simulator, snapshot_index, is_aborted, produced,
                 inits_index, inits_chunks, replayerVars>>

\* The producers are gone.  An aborted simulator drops its senders at once and
\* runs the binary to its end without reporting anything.
Finalized ==
  /\ simulator = "finalize"
  /\ Partial = {}
  /\ simulator' = "exit"
  /\ UNCHANGED <<results, snapshots, sharedVars, snapshot_index, is_aborted, producerVars,
                 inits_index, inits_chunks, replayerVars>>

\* The binary has finished.  An aborted simulator still holds a trace chunk.
\* The flag is read once more: raised, the memory is wiped and nothing is sent.
FinishRun ==
  /\ simulator = "exit"
  /\ free_trace_chunks' = IF is_aborted THEN free_trace_chunks + 1 ELSE free_trace_chunks
  /\ simulator' = IF abort THEN "drop" ELSE "inits"
  /\ UNCHANGED <<results, snapshots, free_allocators, abort, snapshot_index, is_aborted,
                 producerVars, inits_index, inits_chunks, replayerVars>>

SendEmptyInits ==
  /\ simulator = "inits"
  /\ inits_index < EmptyCircuits
  /\ Send(InitsAndTeardownsData(inits_index, 0))
  /\ inits_index' = inits_index + 1
  /\ UNCHANGED <<snapshots, sharedVars, simulator, snapshot_index, is_aborted, producerVars,
                 inits_chunks, replayerVars>>

\* Chunks of the partition that comes next.
NeededChunks == CeilDiv(PartitionWords(inits_index - EmptyCircuits), ChunkCapacity)

FillInitsChunk ==
  /\ simulator = "inits"
  /\ inits_index \in EmptyCircuits .. (EmptyCircuits + Partitions - 1)
  /\ inits_chunks < NeededChunks
  /\ free_allocators > 0
  /\ free_allocators' = free_allocators - 1
  /\ inits_chunks' = inits_chunks + 1
  /\ UNCHANGED <<results, snapshots, free_trace_chunks, abort, simulator, snapshot_index,
                 is_aborted, producerVars, inits_index, replayerVars>>

SendInits ==
  /\ simulator = "inits"
  /\ inits_index \in EmptyCircuits .. (EmptyCircuits + Partitions - 1)
  /\ inits_chunks = NeededChunks
  /\ Send(InitsAndTeardownsData(inits_index, inits_chunks))
  /\ inits_index' = inits_index + 1
  /\ inits_chunks' = 0
  /\ UNCHANGED <<snapshots, sharedVars, simulator, snapshot_index, is_aborted, producerVars,
                 replayerVars>>

SendSimulationResult ==
  /\ simulator = "inits"
  /\ inits_index = EmptyCircuits + Partitions
  /\ Send(SimulationResult)
  /\ simulator' = "drop"
  /\ UNCHANGED <<snapshots, sharedVars, snapshot_index, is_aborted, producerVars,
                 inits_index, inits_chunks, replayerVars>>

\* run_simulator returns: its locals and parameters are dropped one after the
\* other, the sender of results first, then the rest of the runner with the
\* sender of snapshots, and the shared non-determinism source last.
DropSender ==
  /\ simulator \in {"drop", "runner", "source"}
  /\ simulator' = CASE simulator = "drop" -> "runner"
                    [] simulator = "runner" -> "source"
                    [] simulator = "source" -> "done"
  /\ UNCHANGED <<results, snapshots, sharedVars, snapshot_index, is_aborted, producerVars,
                 inits_index, inits_chunks, replayerVars>>

Simulator ==
  \/ ProcessTrace \/ Reserve \/ SendSnapshot \/ ReceiveChunk
  \/ FinalizeProducer \/ Finalized \/ FinishRun
  \/ SendEmptyInits \/ FillInitsChunk \/ SendInits \/ SendSimulationResult
  \/ DropSender

\* An aborted simulator drops its senders after the producers have been finalized.
Silenced == is_aborted /\ simulator \notin {"run", "trace", "chunk", "finalize"}

SimulatorHoldsResults == simulator \notin {"runner", "source", "done"} /\ ~Silenced

SimulatorHoldsSnapshots == simulator \notin {"source", "done"} /\ ~Silenced

SimulatorHoldsSource == simulator # "done"

-----------------------------------------------------------------------------
(* The replayers. *)

\* A slip: an aborted replayer drops the trace chunk with the snapshot.
DropWhenAborted(r) ==
  free_trace_chunks' = IF replayer[r] = "waiting" THEN free_trace_chunks ELSE free_trace_chunks + 1

ReturnChunk(r) == free_trace_chunks' = free_trace_chunks + 1

\* The flag is read for every snapshot.  Once it was seen, snapshots are only
\* dropped and their trace chunks returned.
TakeSnapshot(r) ==
  /\ replayer[r] = "waiting"
  /\ snapshots # <<>>
  /\ snapshots' = Tail(snapshots)
  /\ replayer_aborted' = [replayer_aborted EXCEPT ![r] = @ \/ abort]
  /\ IF replayer_aborted'[r]
     THEN ReturnChunk(r) /\ UNCHANGED <<replayer, replaying>>
     ELSE /\ replayer' = [replayer EXCEPT ![r] = "replaying"]
          /\ replaying' = [replaying EXCEPT ![r] = Head(snapshots)]
          /\ UNCHANGED free_trace_chunks
  /\ UNCHANGED <<results, free_allocators, abort, simulatorVars>>

\* All rows of the snapshot are written; the tracer and its ranges are dropped.
FinishReplay(r) ==
  /\ replayer[r] = "replaying"
  /\ replayer' = [replayer EXCEPT ![r] = "reporting"]
  /\ ReturnChunk(r)
  /\ UNCHANGED <<results, snapshots, free_allocators, abort, simulatorVars,
                 replaying, replayer_aborted>>

ReportSnapshot(r) ==
  /\ replayer[r] = "reporting"
  /\ Send(SnapshotReplayed(replaying[r]))
  /\ replayer' = [replayer EXCEPT ![r] = "waiting"]
  /\ replaying' = [replaying EXCEPT ![r] = 0]
  /\ UNCHANGED <<snapshots, sharedVars, simulatorVars, replayer_aborted>>

\* The channel of snapshots is empty and its sender dropped.
FinishReplayer(r) ==
  /\ replayer[r] = "waiting"
  /\ snapshots = <<>>
  /\ ~SimulatorHoldsSnapshots
  /\ replayer' = [replayer EXCEPT ![r] = "done"]
  /\ UNCHANGED <<results, snapshots, sharedVars, simulatorVars, replaying, replayer_aborted>>

Replayer(r) ==
  TakeSnapshot(r) \/ FinishReplay(r) \/ ReportSnapshot(r) \/ FinishReplayer(r)

\* Snapshots whose rows are not all written: their ranges still share the chunks.
Live == ToSet(snapshots) \cup {replaying[r] : r \in {s \in Replayers : replayer[s] = "replaying"}}
             \cup (IF simulator = "trace" THEN {snapshot_index} ELSE {})

CpuDone == ~SimulatorHoldsResults /\ \A r \in Replayers : replayer[r] = "done"

CpuTypeOK ==
  /\ free_allocators \in 0..Allocators
  /\ free_trace_chunks \in 0..TraceChunks
  /\ abort \in BOOLEAN /\ is_aborted \in BOOLEAN
  /\ simulator \in {"run", "trace", "chunk", "finalize", "exit", "inits",
                    "drop", "runner", "source", "done"}
  /\ snapshot_index \in 0..Len(Run)
  /\ snapshots \in Seq(DOMAIN Run)
  /\ produced \in [ToSet(Types) -> Nat]
  /\ chunks \in [ToSet(Types) -> 0..Allocators]
  /\ room \in [ToSet(Types) -> 0..ChunkCapacity]
  /\ participating \in [ToSet(Types) -> SUBSET DOMAIN Run]
  /\ inits_index \in Nat /\ inits_chunks \in 0..Allocators
  /\ replayer \in [Replayers -> {"waiting", "replaying", "reporting", "done"}]
  /\ replaying \in [Replayers -> {0} \cup DOMAIN Run]
  /\ replayer_aborted \in [Replayers -> BOOLEAN]

=============================================================================
