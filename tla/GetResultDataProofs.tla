------------------------ MODULE GetResultDataProofs ------------------------
(***************************************************************************)
(* What happens to the data of a call, for any run of any binary, any      *)
(* number of replayers and any sizes: the trace chunks are conserved,      *)
(* tracing data leaves the loop only when no task shares it, and host      *)
(* allocators are conserved.                                               *)
(*                                                                         *)
(* The balance of allocators only survives a step if the step does not     *)
(* merge two requests or drop a table, so its proof needs to know where    *)
(* the data of every circuit is.  DataInv says that: a producer has        *)
(* reserved complete circuits and part of one more (ProducerInv), the data *)
(* of a circuit is in one place, and in none before it was sent (KeyInv),  *)
(* nothing of the simulator comes after its result (OrderInv), only the    *)
(* leading circuits have no inits and teardowns (InitsInv), and a snapshot *)
(* is reported once (ReportInv).                                           *)
(***************************************************************************)
EXTENDS GetResult, SumTheorems, FiniteSetTheorems, TLAPS

-----------------------------------------------------------------------------
(* The invariant of the trace chunks. *)

IsChannel(s) == \E S : s \in Seq(S)

StateInv ==
  /\ IsChannel(results) /\ snapshots \in Seq(Nat)
  /\ free_trace_chunks \in Nat /\ snapshot_index \in Nat
  /\ abort \in BOOLEAN /\ is_aborted \in BOOLEAN
  /\ simulator \in {"run", "trace", "chunk", "finalize", "exit", "inits",
                    "drop", "runner", "source", "done"}
  /\ replayer \in [Replayers -> {"waiting", "replaying", "reporting", "done"}]
  /\ replaying \in [Replayers -> Nat]

\* An aborted simulator reports nothing more, a replayer ends when no snapshot
\* can follow, and between two calls nothing is left of the first.
ControlInv ==
  /\ is_aborted => abort /\ simulator \notin {"run", "trace", "chunk", "inits"}
  /\ \A r \in Replayers : replayer[r] = "done" => snapshots = <<>> /\ ~SimulatorHoldsSnapshots
  /\ main \in {"start", "committed"} =>
       results = <<>> /\ gpu = {} /\ uninitialized = {} /\ CpuDone

Busy(stage) == {r \in Replayers : replayer[r] = stage}

Replaying == {replaying[r] : r \in Busy("replaying")}

Reported ==
  {results[i].index : i \in {j \in DOMAIN results : results[j].type = "SnapshotReplayed"}}

\* The snapshots whose rows are all written.
Replayed == processed \cup Reported \cup {replaying[r] : r \in Busy("reporting")}

\* A snapshot is in one place: with the simulator, queued, with one replayer, or
\* replayed.
SnapshotInv ==
  /\ \A i, j \in DOMAIN snapshots : i # j => snapshots[i] # snapshots[j]
  /\ ToSet(snapshots) \cap Replaying = {}
  /\ \A r, s \in Busy("replaying") : r # s => replaying[r] # replaying[s]
  /\ Live \cap Replayed = {}
  /\ Live \cup Replayed \subseteq 0..snapshot_index
  /\ simulator = "trace" => snapshot_index \notin ToSet(snapshots) \cup Replaying

Inv == StateInv /\ ControlInv /\ SnapshotInv

-----------------------------------------------------------------------------
(* Channels. *)

LEMMA ChannelGrows ==
  ASSUME NEW s, IsChannel(s), NEW m
  PROVE  /\ IsChannel(Append(s, m)) /\ Len(s) \in Nat
         /\ DOMAIN s = 1..Len(s) /\ DOMAIN Append(s, m) = 1..(Len(s) + 1)
         /\ \A i \in DOMAIN s : Append(s, m)[i] = s[i]
         /\ Append(s, m)[Len(s) + 1] = m
<1>1. PICK S : s \in Seq(S)
  BY DEF IsChannel
<1>2. PICK T : T = S \cup {m}
  OBVIOUS
<1>3. s \in Seq(T) /\ m \in T
  BY <1>1, <1>2
<1>4. Append(s, m) \in Seq(T)
  BY <1>3
<1> QED BY <1>3, <1>4 DEF IsChannel

LEMMA ChannelShrinks ==
  ASSUME NEW s, IsChannel(s), s # <<>>
  PROVE  /\ IsChannel(Tail(s))
         /\ 1 \in DOMAIN s /\ Head(s) = s[1]
         /\ Len(s) \in Nat \ {0} /\ Len(Tail(s)) = Len(s) - 1
         /\ DOMAIN Tail(s) = 1..(Len(s) - 1) /\ DOMAIN s = 1..Len(s)
         /\ \A i \in DOMAIN Tail(s) : i + 1 \in DOMAIN s /\ Tail(s)[i] = s[i + 1]
<1>1. PICK S : s \in Seq(S)
  BY DEF IsChannel
<1>2. Len(s) \in Nat \ {0} /\ Tail(s) \in Seq(S) /\ Len(Tail(s)) = Len(s) - 1
  BY <1>1
<1> QED BY <1>1, <1>2 DEF IsChannel

LEMMA EmptyChannel == IsChannel(<<>>) /\ Len(<<>>) = 0 /\ DOMAIN <<>> = {}
<1>1. <<>> \in Seq({})
  OBVIOUS
<1> QED BY <1>1 DEF IsChannel

\* Only the report of a replay adds a replayed snapshot.
LEMMA SendReports ==
  ASSUME StateInv, NEW m, Send(m)
  PROVE  /\ IsChannel(results')
         /\ m.type # "SnapshotReplayed" => Reported' = Reported
         /\ m.type = "SnapshotReplayed" => Reported' = Reported \cup {m.index}
<1>1. IsChannel(results) /\ results' = Append(results, m)
  BY DEF StateInv, Send
<1>2. /\ IsChannel(results') /\ DOMAIN results = 1..Len(results)
      /\ DOMAIN results' = 1..(Len(results) + 1) /\ Len(results) \in Nat
      /\ \A i \in DOMAIN results : results'[i] = results[i]
      /\ results'[Len(results) + 1] = m
  BY <1>1, ChannelGrows
<1>3. DOMAIN results' = DOMAIN results \cup {Len(results) + 1}
  BY <1>2
<1> QED BY <1>2, <1>3 DEF Reported

LEMMA ReceiveReports ==
  ASSUME StateInv, results # <<>>, results' = Tail(results)
  PROVE  /\ IsChannel(results') /\ Reported' \subseteq Reported
         /\ Head(results).type = "SnapshotReplayed" => Head(results).index \in Reported
<1>1. /\ IsChannel(results') /\ 1 \in DOMAIN results /\ Head(results) = results[1]
      /\ \A i \in DOMAIN results' : i + 1 \in DOMAIN results /\ results'[i] = results[i + 1]
  BY ChannelShrinks DEF StateInv
<1> QED BY <1>1 DEF Reported

\* What a queue of snapshots holds after one was sent or taken.
LEMMA QueueGrows ==
  ASSUME StateInv, NEW n \in Nat, snapshots' = Append(snapshots, n)
  PROVE  /\ snapshots' \in Seq(Nat) /\ Len(snapshots') = Len(snapshots) + 1
         /\ ToSet(snapshots') = ToSet(snapshots) \cup {n}
         /\ n \notin ToSet(snapshots)
              /\ (\A i, j \in DOMAIN snapshots : i # j => snapshots[i] # snapshots[j])
            => \A i, j \in DOMAIN snapshots' : i # j => snapshots'[i] # snapshots'[j]
<1>1. snapshots \in Seq(Nat) /\ IsChannel(snapshots)
  BY DEF StateInv, IsChannel
<1>2. /\ Len(snapshots) \in Nat /\ DOMAIN snapshots = 1..Len(snapshots)
      /\ DOMAIN snapshots' = DOMAIN snapshots \cup {Len(snapshots) + 1}
      /\ \A i \in DOMAIN snapshots : snapshots'[i] = snapshots[i]
      /\ snapshots'[Len(snapshots) + 1] = n
  BY <1>1, ChannelGrows
<1>3. ToSet(snapshots') = ToSet(snapshots) \cup {n}
  BY <1>2 DEF ToSet
<1>4. ASSUME n \notin ToSet(snapshots),
             \A i, j \in DOMAIN snapshots : i # j => snapshots[i] # snapshots[j]
      PROVE  \A i, j \in DOMAIN snapshots' : i # j => snapshots'[i] # snapshots'[j]
  BY <1>2, <1>4 DEF ToSet
<1> QED BY <1>1, <1>3, <1>4

LEMMA QueueShrinks ==
  ASSUME StateInv, snapshots # <<>>, snapshots' = Tail(snapshots)
  PROVE  /\ snapshots' \in Seq(Nat) /\ Head(snapshots) \in Nat
         /\ Len(snapshots) \in Nat /\ Len(snapshots') = Len(snapshots) - 1
         /\ ToSet(snapshots') \subseteq ToSet(snapshots) /\ Head(snapshots) \in ToSet(snapshots)
         /\ (\A i, j \in DOMAIN snapshots : i # j => snapshots[i] # snapshots[j])
            => /\ \A i, j \in DOMAIN snapshots' : i # j => snapshots'[i] # snapshots'[j]
               /\ Head(snapshots) \notin ToSet(snapshots')
<1>1. snapshots \in Seq(Nat) /\ IsChannel(snapshots)
  BY DEF StateInv, IsChannel
<1>2. /\ 1 \in DOMAIN snapshots /\ Head(snapshots) = snapshots[1]
      /\ Len(snapshots) \in Nat \ {0} /\ Len(snapshots') = Len(snapshots) - 1
      /\ DOMAIN snapshots' = 1..(Len(snapshots) - 1)
      /\ \A i \in DOMAIN snapshots' : i + 1 \in DOMAIN snapshots /\ snapshots'[i] = snapshots[i + 1]
  BY <1>1, ChannelShrinks
<1>3. snapshots' \in Seq(Nat) /\ Head(snapshots) \in Nat
  BY <1>1
<1>4. ToSet(snapshots') \subseteq ToSet(snapshots) /\ Head(snapshots) \in ToSet(snapshots)
  BY <1>2 DEF ToSet
<1>5. ASSUME \A i, j \in DOMAIN snapshots : i # j => snapshots[i] # snapshots[j]
      PROVE  /\ \A i, j \in DOMAIN snapshots' : i # j => snapshots'[i] # snapshots'[j]
             /\ Head(snapshots) \notin ToSet(snapshots')
  <2>1. \A i, j \in DOMAIN snapshots' : i # j => i + 1 # j + 1 /\ i + 1 # 1
    BY <1>2
  <2>2. \A i \in DOMAIN snapshots' : i + 1 # 1
    BY <1>2
  <2> QED BY <1>2, <1>5, <2>1, <2>2 DEF ToSet
<1> QED BY <1>2, <1>3, <1>4, <1>5

-----------------------------------------------------------------------------
(* What holds initially, and after the start of a call. *)

LEMMA InitHolds == Init => Inv /\ TraceChunksConserved
<1> SUFFICES ASSUME Init PROVE Inv /\ TraceChunksConserved
  OBVIOUS
<1> USE DEF Init, CpuInit
<1>1. StateInv
  <2>1. IsChannel(results) /\ snapshots \in Seq(Nat)
    BY EmptyChannel
  <2>2. /\ replayer \in [Replayers -> {"waiting", "replaying", "reporting", "done"}]
        /\ replaying \in [Replayers -> Nat]
    OBVIOUS
  <2> QED BY <2>1, <2>2 DEF StateInv
<1>2. ~SimulatorHoldsSnapshots /\ CpuDone
  BY DEF SimulatorHoldsSnapshots, SimulatorHoldsResults, CpuDone
<1>3. ControlInv
  BY <1>2 DEF ControlInv
<1>4. ToSet(snapshots) = {} /\ Busy("replaying") = {} /\ Busy("reporting") = {} /\ Reported = {}
  BY EmptyChannel DEF ToSet, Busy, Reported
<1>5. SnapshotInv
  BY <1>4, EmptyChannel DEF SnapshotInv, Replaying, Replayed, Live, Busy
<1>6. TraceChunksConserved
  BY DEF TraceChunksConserved
<1> QED BY <1>1, <1>3, <1>5, <1>6 DEF Inv

LEMMA TraceChunksType == TraceChunks \in Nat
  BY ReplayersAssumption, FS_CardinalityType DEF TraceChunks

\* When the tasks have ended nothing is live.
LEMMA DoneIsNotLive ==
  ASSUME StateInv, ControlInv, CpuDone
  PROVE  /\ snapshots = <<>> /\ Live = {} /\ ToSet(snapshots) = {}
         /\ Busy("replaying") = {} /\ Busy("reporting") = {} /\ simulator # "trace"
<1>1. snapshots = <<>> /\ ~SimulatorHoldsSnapshots
  BY ReplayersAssumption DEF ControlInv, CpuDone
<1>2. simulator # "trace"
  BY <1>1 DEF SimulatorHoldsSnapshots, Silenced
<1>3. Busy("replaying") = {} /\ Busy("reporting") = {}
  BY DEF Busy, CpuDone
<1>4. ToSet(snapshots) = {}
  BY <1>1, EmptyChannel DEF ToSet
<1> QED BY <1>1, <1>2, <1>3, <1>4 DEF Live, Busy

LEMMA BeginKeeps ==
  ASSUME Inv, TraceChunksConserved, NEW drained, NEW all_sent \in BOOLEAN,
         main \in {"start", "committed"}, main = "start" => ~all_sent, Begin(drained, all_sent)
  PROVE  Inv' /\ TraceChunksConserved' /\ uninitialized = {}
<1>1. /\ results = <<>> /\ results' = <<>> /\ uninitialized = {} /\ CpuDone
      /\ main' = "loop" /\ processed' = {}
  BY DEF Inv, ControlInv, Begin
<1>2. Reported = {} /\ Reported' = {}
  BY <1>1, EmptyChannel DEF Reported
<1>3. CASE all_sent
  <2>1. UNCHANGED <<snapshots, free_trace_chunks, abort, simulatorVars, replayerVars>>
    BY <1>3 DEF Begin
  <2> USE <2>1 DEF simulatorVars, producerVars, replayerVars
  <2>2. StateInv'
    BY <1>1 DEF Inv, StateInv
  <2>3. ControlInv'
    BY <1>1 DEF Inv, ControlInv, SimulatorHoldsSnapshots, Silenced
  <2>4. SnapshotInv'
    BY <1>1, <1>2, DoneIsNotLive DEF Inv, SnapshotInv, Replayed, Replaying, Live, Busy
  <2>5. TraceChunksConserved'
    BY <1>1, <1>3 DEF TraceChunksConserved
  <2> QED BY <1>1, <2>2, <2>3, <2>4, <2>5 DEF Inv
<1>4. CASE ~all_sent
  <2>1. Spawn
    BY <1>4 DEF Begin
  <2>2. Cardinality(Replayers) \in Nat \ {0} /\ TraceChunks - 1 \in Nat
    BY ReplayersAssumption, FS_CardinalityType, FS_EmptySet DEF TraceChunks
  <2> USE <2>1 DEF Spawn
  <2>3. StateInv'
    <3>1. IsChannel(results') /\ snapshots' \in Seq(Nat)
      BY <1>1, EmptyChannel
    <3>2. /\ replayer' \in [Replayers -> {"waiting", "replaying", "reporting", "done"}]
          /\ replaying' \in [Replayers -> Nat]
      OBVIOUS
    <3> QED BY <2>2, <3>1, <3>2 DEF StateInv
  <2>4. ControlInv'
    BY <1>1 DEF ControlInv
  <2>5. Busy("replaying")' = {} /\ Busy("reporting")' = {} /\ ToSet(snapshots)' = {}
    BY EmptyChannel DEF Busy, ToSet
  <2>6. SnapshotInv'
    BY <1>1, <1>2, <2>5, EmptyChannel DEF SnapshotInv, Replayed, Replaying, Live, Busy
  <2>7. TraceChunksConserved'
    <3>1. {r \in Replayers : replayer'[r] = "replaying"} = {}
      BY <2>5 DEF Busy
    <3>2. Cardinality({r \in Replayers : replayer'[r] = "replaying"}) = 0
      BY <3>1, FS_EmptySet
    <3>3. /\ Len(snapshots') = 0 /\ simulator' = "run" /\ is_aborted' = FALSE
          /\ free_trace_chunks' = TraceChunks - 1
      BY EmptyChannel
    <3> HIDE DEF Spawn
    <3> QED BY <3>2, <3>3, TraceChunksType DEF TraceChunksConserved
  <2> QED BY <1>1, <2>3, <2>4, <2>6, <2>7 DEF Inv
<1> QED BY <1>3, <1>4

-----------------------------------------------------------------------------
(* A step of the simulator. *)

\* Between two calls the simulator only drops what it holds.
LEMMA BetweenCalls ==
  ASSUME StateInv, ControlInv, main \in {"start", "committed"}
  PROVE  \/ simulator \in {"runner", "source", "done"}
         \/ simulator \in {"exit", "drop"} /\ is_aborted /\ abort
<1>1. ~SimulatorHoldsResults
  BY DEF ControlInv, CpuDone
<1> QED BY <1>1 DEF StateInv, ControlInv, SimulatorHoldsResults, Silenced

\* When a replayer has ended the simulator does not come back.
LEMMA AfterReplayers ==
  ASSUME StateInv, ControlInv, NEW r \in Replayers, replayer[r] = "done"
  PROVE  /\ snapshots = <<>>
         /\ \/ simulator \in {"source", "done"}
            \/ simulator \in {"exit", "drop", "runner"} /\ is_aborted /\ abort
<1>1. snapshots = <<>> /\ ~SimulatorHoldsSnapshots
  BY DEF ControlInv
<1> QED BY <1>1 DEF StateInv, ControlInv, SimulatorHoldsSnapshots, Silenced

\* A step of the simulator that takes, queues and replays no snapshot.
LEMMA QuietKeepsSnapshots ==
  ASSUME SnapshotInv, Reported' = Reported,
         UNCHANGED <<snapshots, replayer, replaying, snapshot_index, processed>>,
         simulator' = "trace" => simulator = "trace"
  PROVE  SnapshotInv'
  BY DEF SnapshotInv, Replayed, Replaying, Live, Busy

\* Steps in the middle of a call, which leave is_aborted and the flag alone.
LEMMA MidCallKeepsControl ==
  ASSUME StateInv, ControlInv,
         simulator \in {"run", "trace", "chunk", "finalize", "inits"},
         UNCHANGED <<main, replayer, abort>>,
         is_aborted' => abort /\ simulator' \notin {"run", "trace", "chunk", "inits"}
  PROVE  ControlInv'
<1>1. main \notin {"start", "committed"}
  BY BetweenCalls
<1>2. \A r \in Replayers : replayer[r] # "done"
  BY AfterReplayers
<1> QED BY <1>1, <1>2 DEF ControlInv

\* The numbers of places a trace chunk can be in.
LEMMA PlacesType ==
  ASSUME StateInv
  PROVE  /\ TraceChunks \in Nat /\ Len(snapshots) \in Nat
         /\ IsFiniteSet(Busy("replaying")) /\ Cardinality(Busy("replaying")) \in Nat
<1>1. IsFiniteSet(Busy("replaying")) /\ Cardinality(Busy("replaying")) \in Nat
  BY ReplayersAssumption, FS_Subset, FS_CardinalityType DEF Busy
<1> QED BY <1>1, TraceChunksType DEF StateInv

LEMMA SimulatorKeeps ==
  ASSUME Inv, TraceChunksConserved, Simulator, UNCHANGED clientVars
  PROVE  Inv' /\ TraceChunksConserved'
<1>0. /\ UNCHANGED <<main, gpu, uninitialized, processed>>
      /\ StateInv /\ ControlInv /\ SnapshotInv
  BY DEF clientVars, dataVars, Inv
<1>1. CASE ProcessTrace
  <2>1. /\ simulator = "run" /\ simulator' \in {"finalize", "trace"}
        /\ is_aborted' <=> simulator' = "finalize"
        /\ is_aborted' \in BOOLEAN
        /\ is_aborted' => abort
        /\ snapshot_index' = snapshot_index + 1 /\ snapshot_index \in Nat
        /\ UNCHANGED <<snapshots, free_trace_chunks, abort, replayer, replaying>>
    BY <1>0, <1>1 DEF ProcessTrace, StateInv, ControlInv, sharedVars, replayerVars
  <2>2. IsChannel(results') /\ Reported' = Reported
    <3>1. CASE abort
      BY <1>0, <1>1, <3>1 DEF ProcessTrace, StateInv, Reported
    <3>2. CASE ~abort
      BY <1>0, <1>1, <3>2, SendReports DEF ProcessTrace, SnapshotProduced
    <3> QED BY <3>1, <3>2
  <2>3. StateInv'
    <3>1. snapshot_index' \in Nat
      BY <2>1
    <3> QED BY <1>0, <2>1, <2>2, <3>1 DEF StateInv
  <2>4. ControlInv'
    BY <1>0, <2>1, MidCallKeepsControl
  <2>5. /\ Live' \subseteq Live \cup {snapshot_index'} /\ Replayed' = Replayed
        /\ ToSet(snapshots)' = ToSet(snapshots) /\ Replaying' = Replaying
        /\ Busy("replaying")' = Busy("replaying")
        /\ ToSet(snapshots) \cup Replaying \subseteq Live
    BY <1>0, <2>1, <2>2 DEF Live, Replayed, Replaying, Busy
  <2>6. /\ snapshot_index' \notin Live \cup Replayed
        /\ 0..snapshot_index \subseteq 0..snapshot_index' /\ snapshot_index' \in 0..snapshot_index'
    BY <1>0, <2>1 DEF SnapshotInv
  <2>7. SnapshotInv'
    BY <1>0, <2>1, <2>5, <2>6 DEF SnapshotInv
  <2>8. TraceChunksConserved'
    BY <1>0, <2>1 DEF TraceChunksConserved
  <2> QED BY <2>3, <2>4, <2>7, <2>8 DEF Inv
<1>2. CASE Reserve
  <2>1. /\ simulator = "trace"
        /\ UNCHANGED <<snapshots, free_trace_chunks, abort, simulator, snapshot_index, is_aborted,
                       replayer, replaying>>
    BY <1>2 DEF Reserve, replayerVars
  <2>2. IsChannel(results') /\ Reported' = Reported
    <3>1. results' = results \/ \E key, n, indexes : Send(TracingData(key, n, indexes))
      BY <1>2 DEF Reserve
    <3>2. CASE results' = results
      BY <1>0, <3>2 DEF StateInv, Reported
    <3>3. ASSUME NEW key, NEW n, NEW indexes, Send(TracingData(key, n, indexes))
          PROVE  IsChannel(results') /\ Reported' = Reported
      BY <1>0, <3>3, SendReports DEF TracingData
    <3> QED BY <3>1, <3>2, <3>3
  <2>3. StateInv'
    BY <1>0, <2>1, <2>2 DEF StateInv
  <2>4. ControlInv'
    BY <1>0, <2>1, MidCallKeepsControl DEF ControlInv
  <2>5. SnapshotInv'
    BY <1>0, <2>1, <2>2, QuietKeepsSnapshots
  <2>6. TraceChunksConserved'
    BY <1>0, <2>1 DEF TraceChunksConserved
  <2> QED BY <2>3, <2>4, <2>5, <2>6 DEF Inv
<1>3. CASE SendSnapshot
  <2>1. /\ simulator = "trace" /\ ~is_aborted /\ simulator' \in {"finalize", "chunk"}
        /\ snapshots' = Append(snapshots, snapshot_index) /\ snapshot_index \in Nat
        /\ UNCHANGED <<results, free_trace_chunks, abort, snapshot_index, is_aborted,
                       replayer, replaying>>
    BY <1>0, <1>3 DEF SendSnapshot, StateInv, ControlInv, sharedVars, replayerVars
  <2>2. /\ snapshots' \in Seq(Nat) /\ Len(snapshots') = Len(snapshots) + 1
        /\ ToSet(snapshots)' = ToSet(snapshots) \cup {snapshot_index}
        /\ \A i, j \in DOMAIN snapshots' : i # j => snapshots'[i] # snapshots'[j]
    BY <1>0, <2>1, QueueGrows DEF SnapshotInv
  <2>3. StateInv'
    BY <1>0, <2>1, <2>2 DEF StateInv
  <2>4. ControlInv'
    BY <1>0, <2>1, MidCallKeepsControl
  <2>5. /\ Live' = Live /\ Replayed' = Replayed /\ Replaying' = Replaying
        /\ Busy("replaying")' = Busy("replaying")
    BY <1>0, <2>1, <2>2 DEF Live, Replayed, Reported, Replaying, Busy
  <2>6. SnapshotInv'
    BY <1>0, <2>1, <2>2, <2>5 DEF SnapshotInv
  <2>7. TraceChunksConserved'
    BY <1>0, <2>1, <2>2, PlacesType DEF TraceChunksConserved, StateInv, Busy
  <2> QED BY <2>3, <2>4, <2>6, <2>7 DEF Inv
<1>4. CASE ReceiveChunk
  <2>1. /\ simulator = "chunk" /\ simulator' = "run" /\ ~is_aborted
        /\ free_trace_chunks > 0 /\ free_trace_chunks' = free_trace_chunks - 1
        /\ UNCHANGED <<results, snapshots, abort, snapshot_index, is_aborted, replayer, replaying>>
    BY <1>0, <1>4 DEF ReceiveChunk, ControlInv, replayerVars
  <2>2. free_trace_chunks \in Nat /\ free_trace_chunks' \in Nat
    BY <1>0, <2>1 DEF StateInv
  <2>3. StateInv'
    BY <1>0, <2>1, <2>2 DEF StateInv
  <2>4. ControlInv'
    BY <1>0, <2>1, MidCallKeepsControl
  <2>5. SnapshotInv'
    BY <1>0, <2>1, QuietKeepsSnapshots DEF Reported
  <2>6. TraceChunksConserved'
    BY <1>0, <2>1, <2>2, PlacesType DEF TraceChunksConserved, Busy
  <2> QED BY <2>3, <2>4, <2>5, <2>6 DEF Inv
<1>5. CASE FinalizeProducer \/ Finalized
  <2>1. /\ simulator = "finalize" /\ simulator' \in {"finalize", "exit"}
        /\ UNCHANGED <<snapshots, free_trace_chunks, abort, snapshot_index, is_aborted,
                       replayer, replaying>>
    BY <1>5 DEF FinalizeProducer, Finalized, sharedVars, replayerVars
  <2>2. IsChannel(results') /\ Reported' = Reported
    <3>1. results' = results \/ \E key, n, indexes : Send(TracingData(key, n, indexes))
      BY <1>5 DEF FinalizeProducer, Finalized
    <3>2. CASE results' = results
      BY <1>0, <3>2 DEF StateInv, Reported
    <3>3. ASSUME NEW key, NEW n, NEW indexes, Send(TracingData(key, n, indexes))
          PROVE  IsChannel(results') /\ Reported' = Reported
      BY <1>0, <3>3, SendReports DEF TracingData
    <3> QED BY <3>1, <3>2, <3>3
  <2>3. StateInv'
    BY <1>0, <2>1, <2>2 DEF StateInv
  <2>4. ControlInv'
    BY <1>0, <2>1, MidCallKeepsControl DEF ControlInv
  <2>5. SnapshotInv'
    BY <1>0, <2>1, <2>2, QuietKeepsSnapshots
  <2>6. TraceChunksConserved'
    BY <1>0, <2>1 DEF TraceChunksConserved
  <2> QED BY <2>3, <2>4, <2>5, <2>6 DEF Inv
<1>6. CASE FinishRun
  <2>1. /\ simulator = "exit" /\ simulator' \in {"drop", "inits"}
        /\ simulator' = "inits" => ~abort
        /\ free_trace_chunks' = IF is_aborted THEN free_trace_chunks + 1 ELSE free_trace_chunks
        /\ UNCHANGED <<results, snapshots, abort, snapshot_index, is_aborted, replayer, replaying>>
    BY <1>6 DEF FinishRun, replayerVars
  <2>2. free_trace_chunks \in Nat /\ free_trace_chunks' \in Nat
    BY <1>0, <2>1 DEF StateInv
  <2>3. StateInv'
    BY <1>0, <2>1, <2>2 DEF StateInv
  <2>4. ControlInv'
    <3>1. is_aborted => abort /\ simulator' = "drop"
      BY <1>0, <2>1 DEF ControlInv
    <3>2. ASSUME NEW r \in Replayers, replayer'[r] = "done"
          PROVE  snapshots' = <<>> /\ ~SimulatorHoldsSnapshots'
      BY <1>0, <2>1, <3>1, <3>2, AfterReplayers DEF SimulatorHoldsSnapshots, Silenced
    <3>3. ASSUME main' \in {"start", "committed"}
          PROVE  results' = <<>> /\ gpu' = {} /\ uninitialized' = {} /\ CpuDone'
      BY <1>0, <2>1, <3>1, <3>3, BetweenCalls
         DEF ControlInv, CpuDone, SimulatorHoldsResults, Silenced
    <3> QED BY <1>0, <2>1, <3>1, <3>2, <3>3 DEF ControlInv
  <2>5. SnapshotInv'
    BY <1>0, <2>1, QuietKeepsSnapshots DEF Reported
  <2>6. TraceChunksConserved'
    BY <1>0, <2>1, <2>2, PlacesType DEF TraceChunksConserved, Busy
  <2> QED BY <2>3, <2>4, <2>5, <2>6 DEF Inv
<1>7. CASE SendEmptyInits \/ FillInitsChunk \/ SendInits \/ SendSimulationResult
  <2>1. /\ simulator = "inits" /\ simulator' \in {"inits", "drop"} /\ ~is_aborted
        /\ UNCHANGED <<snapshots, free_trace_chunks, abort, snapshot_index, is_aborted,
                       replayer, replaying>>
    BY <1>0, <1>7 DEF SendEmptyInits, FillInitsChunk, SendInits, SendSimulationResult,
                      ControlInv, sharedVars, replayerVars
  <2>2. IsChannel(results') /\ Reported' = Reported
    <3>1. \/ results' = results
          \/ Send(SimulationResult)
          \/ \E q, n : Send(InitsAndTeardownsData(q, n))
      BY <1>7 DEF SendEmptyInits, FillInitsChunk, SendInits, SendSimulationResult
    <3>2. CASE results' = results
      BY <1>0, <3>2 DEF StateInv, Reported
    <3>3. CASE Send(SimulationResult)
      BY <1>0, <3>3, SendReports DEF SimulationResult
    <3>4. ASSUME NEW q, NEW n, Send(InitsAndTeardownsData(q, n))
          PROVE  IsChannel(results') /\ Reported' = Reported
      BY <1>0, <3>4, SendReports DEF InitsAndTeardownsData
    <3> QED BY <3>1, <3>2, <3>3, <3>4
  <2>3. StateInv'
    BY <1>0, <2>1, <2>2 DEF StateInv
  <2>4. ControlInv'
    BY <1>0, <2>1, MidCallKeepsControl
  <2>5. SnapshotInv'
    BY <1>0, <2>1, <2>2, QuietKeepsSnapshots
  <2>6. TraceChunksConserved'
    BY <1>0, <2>1 DEF TraceChunksConserved
  <2> QED BY <2>3, <2>4, <2>5, <2>6 DEF Inv
<1>8. CASE DropSender
  <2>1. /\ \/ simulator = "drop" /\ simulator' = "runner"
           \/ simulator = "runner" /\ simulator' = "source"
           \/ simulator = "source" /\ simulator' = "done"
        /\ UNCHANGED <<results, snapshots, free_trace_chunks, abort, snapshot_index, is_aborted,
                       replayer, replaying>>
    BY <1>8 DEF DropSender, sharedVars, replayerVars
  <2>3. StateInv'
    BY <1>0, <2>1 DEF StateInv
  <2>4. ControlInv'
    <3>2. ASSUME NEW r \in Replayers, replayer'[r] = "done"
          PROVE  snapshots' = <<>> /\ ~SimulatorHoldsSnapshots'
      BY <1>0, <2>1, <3>2, AfterReplayers DEF SimulatorHoldsSnapshots, Silenced
    <3>3. ASSUME main' \in {"start", "committed"}
          PROVE  results' = <<>> /\ gpu' = {} /\ uninitialized' = {} /\ CpuDone'
      BY <1>0, <2>1, <3>3, BetweenCalls DEF ControlInv, CpuDone, SimulatorHoldsResults, Silenced
    <3> QED BY <1>0, <2>1, <3>2, <3>3 DEF ControlInv
  <2>5. SnapshotInv'
    BY <1>0, <2>1, QuietKeepsSnapshots DEF Reported
  <2>6. TraceChunksConserved'
    BY <1>0, <2>1 DEF TraceChunksConserved
  <2> QED BY <2>3, <2>4, <2>5, <2>6 DEF Inv
<1> QED BY <1>1, <1>2, <1>3, <1>4, <1>5, <1>6, <1>7, <1>8 DEF Simulator

-----------------------------------------------------------------------------
(* A step of a replayer. *)

LEMMA ReplayerKeeps ==
  ASSUME Inv, TraceChunksConserved, NEW r \in Replayers, Replayer(r), UNCHANGED clientVars
  PROVE  Inv' /\ TraceChunksConserved'
<1>0. /\ UNCHANGED <<main, gpu, uninitialized, processed>>
      /\ StateInv /\ ControlInv /\ SnapshotInv
  BY DEF clientVars, dataVars, Inv
<1>1. /\ UNCHANGED <<abort, simulator, snapshot_index, is_aborted>>
      /\ replayer[r] # "done"
  BY DEF Replayer, TakeSnapshot, FinishReplay, ReportSnapshot, FinishReplayer,
         sharedVars, simulatorVars
<1>2. main \notin {"start", "committed"} /\ main' = main
  BY <1>0, <1>1 DEF ControlInv, CpuDone
<1>3. ASSUME snapshots' = snapshots,
             \A s \in Replayers : replayer'[s] = "done" => replayer[s] = "done"
      PROVE  ControlInv'
  BY <1>0, <1>1, <1>2, <1>3 DEF ControlInv, SimulatorHoldsSnapshots, Silenced
<1>4. CASE TakeSnapshot(r)
  <2>1. /\ replayer[r] = "waiting" /\ snapshots # <<>> /\ snapshots' = Tail(snapshots)
        /\ UNCHANGED results
    BY <1>4 DEF TakeSnapshot
  <2>2. /\ snapshots' \in Seq(Nat) /\ Head(snapshots) \in Nat
        /\ Len(snapshots) \in Nat /\ Len(snapshots') = Len(snapshots) - 1
        /\ ToSet(snapshots)' \subseteq ToSet(snapshots) /\ Head(snapshots) \in ToSet(snapshots)
        /\ \A i, j \in DOMAIN snapshots' : i # j => snapshots'[i] # snapshots'[j]
        /\ Head(snapshots) \notin ToSet(snapshots)'
    BY <1>0, <2>1, QueueShrinks DEF SnapshotInv
  <2>3. \A s \in Replayers : replayer[s] # "done"
    BY <1>0, <2>1 DEF ControlInv
  <2>4. CASE /\ free_trace_chunks' = free_trace_chunks + 1
             /\ UNCHANGED <<replayer, replaying>>
    <3>1. StateInv'
      <4>1. free_trace_chunks' \in Nat
        BY <1>0, <2>4 DEF StateInv
      <4> QED BY <1>0, <1>1, <2>1, <2>2, <2>4, <4>1 DEF StateInv
    <3>2. ControlInv'
      BY <1>2, <1>0, <1>1, <2>3, <2>4 DEF ControlInv
    <3>3. /\ Busy("replaying")' = Busy("replaying") /\ Busy("reporting")' = Busy("reporting")
          /\ Replaying' = Replaying /\ Replayed' = Replayed /\ Live' \subseteq Live
      BY <1>0, <1>1, <2>1, <2>2, <2>4 DEF Busy, Replaying, Replayed, Reported, Live
    <3>4. SnapshotInv'
      BY <1>0, <1>1, <2>1, <2>2, <2>4, <3>3 DEF SnapshotInv
    <3>5. TraceChunksConserved'
      BY <1>0, <1>1, <1>2, <2>2, <2>4, PlacesType DEF TraceChunksConserved, StateInv, Busy
    <3> QED BY <3>1, <3>2, <3>4, <3>5 DEF Inv
  <2>5. CASE /\ replayer' = [replayer EXCEPT ![r] = "replaying"]
             /\ replaying' = [replaying EXCEPT ![r] = Head(snapshots)]
             /\ UNCHANGED free_trace_chunks
    <3>1. /\ \A s \in Replayers : replayer'[s] = IF s = r THEN "replaying" ELSE replayer[s]
          /\ \A s \in Replayers : replaying'[s] = IF s = r THEN Head(snapshots) ELSE replaying[s]
      BY <1>0, <2>5 DEF StateInv
    <3>2. /\ Busy("replaying")' = Busy("replaying") \cup {r} /\ r \notin Busy("replaying")
          /\ Busy("reporting")' = Busy("reporting") /\ r \notin Busy("reporting")
      BY <2>1, <3>1 DEF Busy
    <3>3. Replaying' = Replaying \cup {Head(snapshots)}
      BY <3>1, <3>2 DEF Replaying, Busy
    <3>4. Replayed' = Replayed
      BY <1>0, <2>1, <3>1, <3>2 DEF Replayed, Reported, Busy
    <3>5. Live = ToSet(snapshots) \cup Replaying \cup (IF simulator = "trace" THEN {snapshot_index} ELSE {})
      BY DEF Live, Replaying, Busy
    <3>6. Live' \subseteq Live
      BY <1>1, <2>2, <3>3, <3>5 DEF Live, Replaying, Busy
    <3>7. StateInv'
      BY <1>0, <1>1, <2>1, <2>2, <2>5 DEF StateInv
    <3>8. ControlInv'
      BY <1>2, <1>0, <1>1, <2>3, <3>1 DEF ControlInv
    <3>9. SnapshotInv'
      <4>1. \A s \in Busy("replaying") : replaying[s] \in Replaying /\ replaying[s] # Head(snapshots)
        BY <1>0, <2>2 DEF SnapshotInv, Replaying
      <4>2. \A s, t \in Busy("replaying")' : s # t => replaying'[s] # replaying'[t]
        BY <1>0, <3>1, <3>2, <4>1 DEF SnapshotInv, Busy
      <4> QED BY <1>0, <1>1, <2>1, <2>2, <3>3, <3>4, <3>6, <4>2 DEF SnapshotInv
    <3>10. TraceChunksConserved'
      <4>1. Cardinality(Busy("replaying")') = Cardinality(Busy("replaying")) + 1
        BY <1>0, <3>2, PlacesType, FS_AddElement
      <4> QED BY <1>0, <1>1, <1>2, <2>2, <2>5, <4>1, PlacesType
              DEF TraceChunksConserved, StateInv, Busy
    <3> QED BY <3>7, <3>8, <3>9, <3>10 DEF Inv
  <2> QED BY <1>4, <2>4, <2>5 DEF TakeSnapshot, ReturnChunk
<1>5. CASE FinishReplay(r)
  <2>1. /\ replayer[r] = "replaying" /\ replayer' = [replayer EXCEPT ![r] = "reporting"]
        /\ free_trace_chunks' = free_trace_chunks + 1
        /\ UNCHANGED <<results, snapshots, replaying>>
    BY <1>5 DEF FinishReplay, ReturnChunk
  <2>2. \A s \in Replayers : replayer'[s] = IF s = r THEN "reporting" ELSE replayer[s]
    BY <1>0, <2>1 DEF StateInv
  <2>3. /\ Busy("replaying")' = Busy("replaying") \ {r} /\ r \in Busy("replaying")
        /\ Busy("reporting")' = Busy("reporting") \cup {r}
    BY <2>1, <2>2 DEF Busy
  <2>4. StateInv'
    <3>1. free_trace_chunks' \in Nat
      BY <1>0, <2>1 DEF StateInv
    <3> QED BY <1>0, <1>1, <2>1, <3>1 DEF StateInv
  <2>5. ControlInv'
    BY <1>3, <2>1, <2>2
  <2>6. /\ Replaying' \subseteq Replaying /\ replaying[r] \in Replaying
        /\ replaying[r] \notin Replaying'
    BY <1>0, <2>1, <2>3 DEF Replaying, SnapshotInv
  <2>7. Replayed' = Replayed \cup {replaying[r]}
    BY <1>0, <2>1, <2>3 DEF Replayed, Reported
  <2>8. /\ Live = ToSet(snapshots) \cup Replaying
                    \cup (IF simulator = "trace" THEN {snapshot_index} ELSE {})
        /\ Live' = ToSet(snapshots) \cup Replaying'
                    \cup (IF simulator = "trace" THEN {snapshot_index} ELSE {})
    BY <1>1, <2>1 DEF Live, Replaying, Busy
  <2>9. SnapshotInv'
    BY <1>0, <1>1, <2>1, <2>3, <2>6, <2>7, <2>8 DEF SnapshotInv
  <2>10. TraceChunksConserved'
    <3>1. Cardinality(Busy("replaying")') = Cardinality(Busy("replaying")) - 1
      BY <1>0, <2>3, PlacesType, FS_RemoveElement
    <3> QED BY <1>0, <1>1, <1>2, <2>1, <3>1, PlacesType DEF TraceChunksConserved, StateInv, Busy
  <2> QED BY <2>4, <2>5, <2>9, <2>10 DEF Inv
<1>6. CASE ReportSnapshot(r)
  <2>1. /\ replayer[r] = "reporting" /\ Send(SnapshotReplayed(replaying[r]))
        /\ replayer' = [replayer EXCEPT ![r] = "waiting"]
        /\ replaying' = [replaying EXCEPT ![r] = 0]
        /\ UNCHANGED <<snapshots, free_trace_chunks>>
    BY <1>6 DEF ReportSnapshot, sharedVars
  <2>2. /\ \A s \in Replayers : replayer'[s] = IF s = r THEN "waiting" ELSE replayer[s]
        /\ \A s \in Replayers : s # r => replaying'[s] = replaying[s]
    BY <1>0, <2>1 DEF StateInv
  <2>3. /\ Busy("replaying")' = Busy("replaying") /\ r \notin Busy("replaying")
        /\ Busy("reporting")' = Busy("reporting") \ {r} /\ r \in Busy("reporting")
    BY <2>1, <2>2 DEF Busy
  <2>4. IsChannel(results') /\ Reported' = Reported \cup {replaying[r]}
    BY <1>0, <2>1, SendReports DEF SnapshotReplayed
  <2>5. StateInv'
    BY <1>0, <1>1, <2>1, <2>4 DEF StateInv
  <2>6. ControlInv'
    BY <1>3, <2>1, <2>2
  <2>7. Replaying' = Replaying /\ \A s \in Busy("replaying") : replaying'[s] = replaying[s]
    BY <2>2, <2>3 DEF Replaying, Busy
  <2>8. Replayed' \subseteq Replayed
    BY <1>0, <2>2, <2>3, <2>4 DEF Replayed, Busy
  <2>9. Live' = Live
    BY <1>1, <2>1, <2>7 DEF Live, Replaying, Busy
  <2>10. SnapshotInv'
    BY <1>0, <1>1, <2>1, <2>3, <2>7, <2>8, <2>9 DEF SnapshotInv
  <2>11. TraceChunksConserved'
    BY <1>0, <1>1, <1>2, <2>1, <2>3 DEF TraceChunksConserved, Busy
  <2> QED BY <2>5, <2>6, <2>10, <2>11 DEF Inv
<1>7. CASE FinishReplayer(r)
  <2>1. /\ replayer[r] = "waiting" /\ snapshots = <<>> /\ ~SimulatorHoldsSnapshots
        /\ replayer' = [replayer EXCEPT ![r] = "done"]
        /\ UNCHANGED <<results, snapshots, free_trace_chunks, replaying>>
    BY <1>7 DEF FinishReplayer, sharedVars
  <2>2. \A s \in Replayers : replayer'[s] = IF s = r THEN "done" ELSE replayer[s]
    BY <1>0, <2>1 DEF StateInv
  <2>3. /\ Busy("replaying")' = Busy("replaying") /\ Busy("reporting")' = Busy("reporting")
    BY <2>1, <2>2 DEF Busy
  <2>4. StateInv'
    BY <1>0, <1>1, <2>1 DEF StateInv
  <2>5. ControlInv'
    BY <1>0, <1>1, <1>2, <2>1, <2>2 DEF ControlInv, SimulatorHoldsSnapshots, Silenced
  <2>6. /\ Replaying' = Replaying /\ Replayed' = Replayed
    BY <1>0, <2>1, <2>3 DEF Replaying, Replayed, Reported
  <2>7. Live' = Live
    BY <1>1, <2>1, <2>6 DEF Live, Replaying, Busy
  <2>8. SnapshotInv'
    BY <1>0, <1>1, <2>1, <2>3, <2>6, <2>7 DEF SnapshotInv
  <2>9. TraceChunksConserved'
    BY <1>0, <1>1, <1>2, <2>1, <2>3 DEF TraceChunksConserved, Busy
  <2> QED BY <2>4, <2>5, <2>8, <2>9 DEF Inv
<1> QED BY <1>4, <1>5, <1>6, <1>7 DEF Replayer

-----------------------------------------------------------------------------
(* A step of the loop. *)

tasksVars == <<snapshots, free_trace_chunks, simulatorVars, replayerVars>>

\* What no message changes: the tasks are left alone, but for the flag.
LEMMA ConcludeLeavesTasks ==
  ASSUME NEW requests, NEW released, NEW simulated, Conclude(requests, released, simulated)
  PROVE  /\ results' = Tail(results) /\ main' \in {"loop", "panicked"}
         /\ UNCHANGED tasksVars
         /\ abort' \in BOOLEAN
         /\ abort => abort'
<1> DEFINE fresh == requests \ Served(requests)
           sent == sent_requests_count + Cardinality(fresh)
           open == gpu_work_requests_sender /\ ~NothingFollows(simulated)
           stop == caching /\ proving /\ ~abort_signaled /\ open /\ AllSent(sent)
<1>1. abort' = (abort \/ stop)
  BY DEF Conclude
<1>2. /\ results' = Tail(results)
      /\ main' = IF fresh # {} /\ ~gpu_work_requests_sender THEN "panicked" ELSE "loop"
      /\ UNCHANGED tasksVars
  BY DEF Conclude, tasksVars
<1> HIDE DEF stop, fresh
<1>3. abort' \in BOOLEAN /\ (abort => abort')
  BY <1>1
<1> QED BY <1>2, <1>3

\* The handler of every message ends with Conclude.
LEMMA HandlersConclude ==
  ASSUME Loop, ~Return
  PROVE  /\ main = "loop" /\ results # <<>>
         /\ \E requests, released, simulated : Conclude(requests, released, simulated)
         /\ \/ UNCHANGED processed
                 /\ \A data \in uninitialized : data \in uninitialized'
            \/ HandleSnapshotReplayed
<1>1. CASE HandleSnapshotProduced
  BY <1>1 DEF HandleSnapshotProduced, Message, Trim
<1>2. CASE HandleInits
  BY <1>2 DEF HandleInits, Message
<1>3. CASE HandleUnifiedInits
  BY <1>3 DEF HandleUnifiedInits, Message
<1>4. CASE HandleTracingData
  BY <1>4 DEF HandleTracingData, Message, Offer
<1>5. CASE HandleSnapshotReplayed
  BY <1>5 DEF HandleSnapshotReplayed, Message, Offer
<1>6. CASE HandleSimulationResult
  BY <1>6 DEF HandleSimulationResult, Message
<1>7. CASE HandleGpuWorkResult
  BY <1>7 DEF HandleGpuWorkResult, Message, Trim
<1> QED BY <1>1, <1>2, <1>3, <1>4, <1>5, <1>6, <1>7 DEF Loop

\* The tasks are as they were, but for the flag that get_result raises.
LEMMA LoopKeepsTasks ==
  ASSUME Inv, TraceChunksConserved, UNCHANGED tasksVars,
         main = "loop", main' # "start",
         IsChannel(results'), abort' \in BOOLEAN, abort => abort',
         Reported' \cup processed' \subseteq Replayed,
         main' = "committed" => results' = <<>> /\ gpu' = {} /\ uninitialized' = {} /\ CpuDone
  PROVE  Inv' /\ TraceChunksConserved'
<1>1. /\ UNCHANGED <<snapshots, free_trace_chunks, simulator, snapshot_index, is_aborted,
                     replayer, replaying>>
      /\ StateInv /\ ControlInv /\ SnapshotInv
  BY DEF tasksVars, simulatorVars, replayerVars, Inv
<1>2. StateInv'
  BY <1>1 DEF StateInv
<1>3. ControlInv'
  <2>1. CpuDone' = CpuDone /\ SimulatorHoldsSnapshots' = SimulatorHoldsSnapshots
    BY <1>1 DEF CpuDone, SimulatorHoldsResults, SimulatorHoldsSnapshots, Silenced
  <2> QED BY <1>1, <2>1 DEF ControlInv
<1>4. /\ Live' = Live /\ Replayed' \subseteq Replayed /\ Replaying' = Replaying
      /\ Busy("replaying")' = Busy("replaying")
  BY <1>1 DEF Live, Replayed, Replaying, Busy
<1>5. SnapshotInv'
  BY <1>1, <1>4 DEF SnapshotInv
<1>6. TraceChunksConserved'
  BY <1>1 DEF TraceChunksConserved
<1> QED BY <1>2, <1>3, <1>5, <1>6 DEF Inv

\* Tracing data that leaves is not live.
LoneDataLeaves ==
  \A data \in uninitialized : data \notin uninitialized' => data.snapshots \cap Live = {}

LEMMA LoopKeeps ==
  ASSUME Inv, TraceChunksConserved, Loop
  PROVE  Inv' /\ TraceChunksConserved' /\ LoneDataLeaves
<1>0. StateInv /\ ControlInv /\ SnapshotInv
  BY DEF Inv
<1>1. CASE Return
  <2>1. /\ main = "loop" /\ results = <<>> /\ CpuDone /\ gpu = {} /\ UNCHANGED tasksVars
        /\ UNCHANGED <<results, gpu, abort, processed>> /\ uninitialized' = {}
        /\ main' \in {"committed", "done"}
    BY <1>1 DEF Return, Disconnected, tasksVars
  <2>2. LoneDataLeaves
    BY <1>0, <2>1, DoneIsNotLive DEF LoneDataLeaves
  <2>3. Reported' \cup processed' \subseteq Replayed
    BY <2>1 DEF Reported, Replayed
  <2>4. IsChannel(results') /\ abort' \in BOOLEAN /\ (abort => abort')
    BY <1>0, <2>1 DEF StateInv
  <2>5. Inv' /\ TraceChunksConserved'
    BY <2>1, <2>3, <2>4, LoopKeepsTasks
  <2> QED BY <2>2, <2>5
<1>2. CASE ~Return
  <2>1. PICK requests, released, simulated : Conclude(requests, released, simulated)
    BY <1>2, HandlersConclude
  <2>2. /\ results' = Tail(results) /\ main' \in {"loop", "panicked"} /\ UNCHANGED tasksVars
        /\ abort' \in BOOLEAN
        /\ abort => abort'
    BY <2>1, ConcludeLeavesTasks
  <2>3. main = "loop" /\ results # <<>>
    BY <1>2, HandlersConclude
  <2>4. /\ IsChannel(results') /\ Reported' \subseteq Reported
        /\ Head(results).type = "SnapshotReplayed" => Head(results).index \in Reported
    BY <1>0, <2>2, <2>3, ReceiveReports
  <2>5. processed' \subseteq Replayed /\ LoneDataLeaves
    <3>1. CASE UNCHANGED processed /\ \A data \in uninitialized : data \in uninitialized'
      BY <3>1 DEF Replayed, LoneDataLeaves
    <3>2. CASE HandleSnapshotReplayed
      <4>1. Head(results).type = "SnapshotReplayed"
        BY <3>2 DEF HandleSnapshotReplayed, Message
      <4>2. PICK replayed : replayed = processed \cup {Head(results).index}
        OBVIOUS
      <4>3. replayed \subseteq Replayed
        BY <2>4, <4>1, <4>2 DEF Replayed
      <4>4. /\ processed' = replayed
            /\ \A data \in uninitialized :
                 data \notin uninitialized' => data.snapshots \subseteq replayed
        BY <3>2, <4>2 DEF HandleSnapshotReplayed, Written
      <4> QED BY <1>0, <4>3, <4>4 DEF LoneDataLeaves, SnapshotInv
    <3> QED BY <1>2, <3>1, <3>2, HandlersConclude
  <2>6. Reported' \cup processed' \subseteq Replayed
    BY <2>4, <2>5 DEF Replayed
  <2>7. Inv' /\ TraceChunksConserved'
    BY <2>2, <2>3, <2>4, <2>6, LoopKeepsTasks
  <2> QED BY <2>5, <2>7
<1> QED BY <1>1, <1>2

-----------------------------------------------------------------------------
(* Every step. *)

\* The tasks, the caller and the GPU side leave the tracing data of the loop alone.
LEMMA NextKeeps ==
  ASSUME Inv, TraceChunksConserved, [Next]_vars
  PROVE  Inv' /\ TraceChunksConserved' /\ LoneDataLeaves
<1>0. StateInv /\ ControlInv /\ SnapshotInv
  BY DEF Inv
<1>1. CASE Start \/ Prove
  <2>1. CASE Start
    BY <2>1, BeginKeeps DEF Start, LoneDataLeaves
  <2>2. CASE Prove
    <3>1. AllSent(Len(entries)) \in BOOLEAN
      BY DEF AllSent
    <3>2. main = "committed" /\ Begin(entries, AllSent(Len(entries)))
      BY <2>2 DEF Prove
    <3> HIDE DEF AllSent
    <3> QED BY <3>1, <3>2, BeginKeeps DEF LoneDataLeaves
  <2> QED BY <1>1, <2>1, <2>2
<1>2. CASE Loop
  BY <1>2, LoopKeeps
<1>3. ASSUME Simulator \/ \E r \in Replayers : Replayer(r), UNCHANGED clientVars
      PROVE  Inv' /\ TraceChunksConserved' /\ LoneDataLeaves
  <2>1. Inv' /\ TraceChunksConserved'
    BY <1>3, SimulatorKeeps, ReplayerKeeps
  <2>2. LoneDataLeaves
    BY <1>3 DEF LoneDataLeaves, clientVars, dataVars
  <2> QED BY <2>1, <2>2
<1>4. ASSUME NEW request \in gpu, Answer(request)
      PROVE  Inv' /\ TraceChunksConserved' /\ LoneDataLeaves
  <2>1. /\ Send(GpuWorkResult(request))
        /\ UNCHANGED <<main, uninitialized, processed, snapshots, free_trace_chunks, abort,
                       simulator, snapshot_index, is_aborted, replayer, replaying>>
    BY <1>4 DEF Answer, dataVars, sharedVars, simulatorVars, replayerVars
  <2>2. IsChannel(results') /\ Reported' = Reported
    BY <1>0, <2>1, SendReports DEF GpuWorkResult
  <2>3. StateInv'
    BY <1>0, <2>1, <2>2 DEF StateInv
  <2>4. ControlInv'
    BY <1>0, <2>1 DEF ControlInv, SimulatorHoldsSnapshots, Silenced
  <2>5. SnapshotInv'
    BY <1>0, <2>1, <2>2, QuietKeepsSnapshots
  <2>6. TraceChunksConserved'
    BY <2>1 DEF TraceChunksConserved
  <2>7. LoneDataLeaves
    BY <2>1 DEF LoneDataLeaves
  <2> QED BY <2>3, <2>4, <2>5, <2>6, <2>7 DEF Inv
<1>5. CASE SourceShared
  <2>1. /\ main' = "source_shared"
        /\ UNCHANGED <<uninitialized, processed, results, snapshots, free_trace_chunks, abort,
                       simulator, snapshot_index, is_aborted, replayer, replaying>>
    BY <1>5 DEF SourceShared, dataVars, cpuVars, sharedVars, simulatorVars, replayerVars
  <2>2. main = "committed"
    BY <1>5 DEF SourceShared
  <2>3. Inv'
    <3>1. StateInv'
      BY <1>0, <2>1 DEF StateInv
    <3>2. ControlInv'
      BY <1>0, <2>1 DEF ControlInv, SimulatorHoldsSnapshots, Silenced
    <3>3. SnapshotInv'
      BY <1>0, <2>1, QuietKeepsSnapshots DEF Reported
    <3> QED BY <3>1, <3>2, <3>3 DEF Inv
  <2>4. TraceChunksConserved' /\ LoneDataLeaves
    BY <2>1, <2>2 DEF TraceChunksConserved, LoneDataLeaves
  <2> QED BY <2>3, <2>4
<1>6. CASE UNCHANGED vars
  <2>1. UNCHANGED <<main, gpu, uninitialized, processed, results, snapshots, free_trace_chunks,
                    abort, simulator, snapshot_index, is_aborted, replayer, replaying>>
    BY <1>6 DEF vars, dataVars, cpuVars, sharedVars, simulatorVars, replayerVars
  <2>2. StateInv'
    BY <1>0, <2>1 DEF StateInv
  <2>3. ControlInv'
    BY <1>0, <2>1 DEF ControlInv, CpuDone, SimulatorHoldsResults, SimulatorHoldsSnapshots, Silenced
  <2>4. SnapshotInv'
    BY <1>0, <2>1, QuietKeepsSnapshots DEF Reported
  <2>5. TraceChunksConserved' /\ LoneDataLeaves
    BY <2>1 DEF TraceChunksConserved, LoneDataLeaves
  <2> QED BY <2>2, <2>3, <2>4, <2>5 DEF Inv
<1> QED
  BY <1>1, <1>2, <1>3, <1>4, <1>5, <1>6 DEF Next, GetResult, CpuWorkers, Finished

\* The trace chunks of a call are conserved, aborted or not: when its tasks have
\* ended all of them are back (the assertion on trace_chunks.len() in prover.rs),
\* for any run, any number of replayers and any point of the abort.
THEOREM TraceChunksAreConserved == Spec => []TraceChunksConserved
<1>1. Init => Inv /\ TraceChunksConserved
  BY InitHolds
<1>2. Inv /\ TraceChunksConserved /\ [Next]_vars => Inv' /\ TraceChunksConserved'
  BY NextKeeps
<1> QED BY <1>1, <1>2, PTL DEF Spec

\* Tracing data leaves the loop only when no task holds ranges of its chunks, so
\* that into_allocators never finds a shared Arc.
THEOREM TracesLeaveAlone == Spec => NoTraceLeavesShared
<1>1. Init => Inv /\ TraceChunksConserved
  BY InitHolds
<1>2. Inv /\ TraceChunksConserved /\ [Next]_vars => Inv' /\ TraceChunksConserved'
  BY NextKeeps
<1>3. Inv /\ TraceChunksConserved /\ [Next]_vars
        => [\A data \in uninitialized :
              data \notin uninitialized' => data.snapshots \cap Live = {}]_vars
  BY NextKeeps DEF LoneDataLeaves
<1> QED BY <1>1, <1>2, <1>3, PTL DEF Spec, NoTraceLeavesShared

-----------------------------------------------------------------------------
(* Types. *)

Families == ToSet(Types)

Keys == (Families \cup {InitsCircuit}) \X Nat

TracingMessages ==
  [type : {"TracingData"}, key : Families \X Nat, chunks : Nat, snapshots : SUBSET Nat]
InitsMessages == [type : {"InitsAndTeardownsData"}, key : {InitsCircuit} \X Nat, chunks : Nat]
Answers == [type : {"GpuWorkResult"}, key : Keys, chunks : Nat]
Reports == [type : {"SnapshotReplayed"}, index : Nat]
Notices == [type : {"SnapshotProduced", "SimulationResult"}]
Messages == TracingMessages \cup InitsMessages \cup Answers \cup Reports \cup Notices

Requests == [key : Keys, chunks : Nat]

\* The image of a finite set.
LEMMA FiniteImage ==
  ASSUME NEW S, IsFiniteSet(S), NEW f, DOMAIN f = S, f = [x \in S |-> f[x]]
  PROVE  IsFiniteSet({f[x] : x \in S})
<1>1. PICK T : T = {f[x] : x \in S}
  OBVIOUS
<1>2. f \in Surjection(S, T)
  BY <1>1 DEF Surjection
<1>3. IsFiniteSet(T)
  BY <1>2, FS_Surjection
<1> QED BY <1>1, <1>3

\* There are finitely many circuit types.
LEMMA FamiliesFinite == IsFiniteSet(Families)
<1>1. PICK f : f = Types
  OBVIOUS
<1>2. PICK n \in Nat : n = Len(Types) /\ DOMAIN f = 1..n /\ f = [i \in 1..n |-> f[i]]
  <2>1. PICK T : Types \in Seq(T)
    BY RunAssumption
  <2>2. f \in Seq(T)
    BY <1>1, <2>1
  <2> QED BY <1>1, <2>2
<1>3. IsFiniteSet(1..n)
  BY FS_Interval
<1>4. PICK S : S = 1..n
  OBVIOUS
<1>5. IsFiniteSet({f[x] : x \in S})
  BY <1>2, <1>3, <1>4, FiniteImage
<1> QED BY <1>1, <1>2, <1>4, <1>5 DEF Families, ToSet

\* The type of a message says which record it is.
LEMMA MessageKinds ==
  ASSUME NEW m \in Messages
  PROVE  /\ m.type = "TracingData" => m \in TracingMessages
         /\ m.type = "InitsAndTeardownsData" => m \in InitsMessages
         /\ m.type = "GpuWorkResult" => m \in Answers
         /\ m.type = "SnapshotReplayed" => m \in Reports
         /\ m.type \notin {"TracingData", "InitsAndTeardownsData", "GpuWorkResult",
                           "SnapshotReplayed"} => m \in Notices
  BY DEF Messages, TracingMessages, InitsMessages, Answers, Reports, Notices

\* What a message carries.
LEMMA ChunksInMessages ==
  ASSUME NEW m \in Messages
  PROVE  /\ ChunksIn(m) \in Nat
         /\ m.type \in {"TracingData", "InitsAndTeardownsData", "GpuWorkResult"} => ChunksIn(m) = m.chunks
         /\ m.type \notin {"TracingData", "InitsAndTeardownsData", "GpuWorkResult"} => ChunksIn(m) = 0
  BY DEF ChunksIn, Messages, TracingMessages, InitsMessages, Answers, Reports, Notices

-----------------------------------------------------------------------------
(* Sums of chunks. *)

\* Of a finite set of data.
Sized(S) == IsFiniteSet(S) /\ \A d \in S : d.chunks \in Nat

\* The chunks of a finite set of requests are a number.
LEMMA TotalChunksType ==
  ASSUME NEW S, Sized(S)
  PROVE  TotalChunks(S) \in Nat
<1>1. PICK f : f = [d \in S |-> d.chunks]
  OBVIOUS
<1>2. f \in [S -> Nat] /\ IsFiniteSet(S)
  BY <1>1 DEF Sized
<1>3. SumFunction(f) \in Nat
  BY <1>2, SumNat
<1> QED BY <1>1, <1>3 DEF TotalChunks

\* No requests hold no chunks.
LEMMA TotalChunksEmpty == TotalChunks({}) = 0 /\ Sized({})
<1>1. PICK f : f = [d \in {} |-> d.chunks]
  OBVIOUS
<1>2. SumFunction(f) = 0
  BY <1>1, SumEmpty
<1> QED BY <1>1, <1>2, FS_EmptySet DEF TotalChunks, Sized

\* The parts of a set.
LEMMA TotalChunksSplit ==
  ASSUME NEW S, Sized(S), NEW A \in SUBSET S
  PROVE  TotalChunks(S) = TotalChunks(A) + TotalChunks(S \ A) /\ Sized(A) /\ Sized(S \ A)
<1>1. PICK f : f = [d \in S |-> d.chunks]
  OBVIOUS
<1>2. f \in [S -> Int] /\ IsFiniteSet(S)
  BY <1>1 DEF Sized
<1>3. SumFunction(f) = SumFunction(On(f, A)) + SumFunction(On(f, S \ A))
  BY <1>2, SumSplit
<1>4. On(f, A) = [d \in A |-> d.chunks] /\ On(f, S \ A) = [d \in S \ A |-> d.chunks]
  BY <1>1 DEF On
<1>5. Sized(A) /\ Sized(S \ A)
  BY FS_Subset DEF Sized
<1> QED BY <1>1, <1>3, <1>4, <1>5 DEF TotalChunks

\* Chunks of two disjoint sets add up.
LEMMA TotalChunksUnion ==
  ASSUME NEW S, Sized(S), NEW A, Sized(A), S \cap A = {}
  PROVE  TotalChunks(S \cup A) = TotalChunks(S) + TotalChunks(A) /\ Sized(S \cup A)
<1>1. PICK T : T = S \cup A
  OBVIOUS
<1>2. IsFiniteSet(T)
  BY <1>1, FS_Union DEF Sized
<1>3. Sized(T) /\ A \in SUBSET T /\ T \ A = S
  BY <1>1, <1>2 DEF Sized
<1>4. TotalChunks(T) = TotalChunks(A) + TotalChunks(T \ A)
  BY <1>3, TotalChunksSplit
<1>5. TotalChunks(S) \in Nat /\ TotalChunks(A) \in Nat
  BY TotalChunksType
<1>8. TotalChunks(T \ A) = TotalChunks(S)
  BY <1>3, Zenon
<1>6. TotalChunks(T) = TotalChunks(S) + TotalChunks(A)
  BY <1>4, <1>5, <1>8
<1>7. Sized(T)
  BY <1>3
<1> QED BY <1>1, <1>6, <1>7

\* The chunks of one request.
LEMMA TotalChunksOne ==
  ASSUME NEW d, d.chunks \in Nat
  PROVE  TotalChunks({d}) = d.chunks /\ Sized({d})
<1>1. PICK f, S : S = {d} /\ f = [x \in S |-> x.chunks]
  OBVIOUS
<1>2. f \in [S -> Int] /\ d \in S /\ f[d] = d.chunks
  BY <1>1
<1>6. IsFiniteSet(S)
  BY <1>1, FS_Singleton
<1>3. SumFunction(f) = f[d] + SumFunction(But(f, d))
  BY <1>2, <1>6, SumBut
<1>4. DOMAIN But(f, d) = {}
  BY <1>1 DEF But
<1>5. SumFunction(But(f, d)) = 0
  BY <1>4, SumEmpty
<1> QED BY <1>1, <1>2, <1>3, <1>5, <1>6 DEF TotalChunks, Sized

-----------------------------------------------------------------------------
(* The channel of results. *)

ChunksOnTheWay(s) == SumFunction([i \in DOMAIN s |-> ChunksIn(s[i])])

\* The keys of the messages of a kind.
KeysIn(s, type) == {s[i].key : i \in {j \in DOMAIN s : s[j].type = type}}

Keyed == {"TracingData", "InitsAndTeardownsData", "GpuWorkResult"}

\* No two messages of a kind about one circuit, no two reports of one snapshot.
DistinctMessages(s) ==
  \A i, j \in DOMAIN s :
    i # j /\ s[i].type = s[j].type =>
      /\ s[i].type \in Keyed => s[i].key # s[j].key
      /\ s[i].type = "SnapshotReplayed" => s[i].index # s[j].index

IndexesIn(s) == {s[i].index : i \in {j \in DOMAIN s : s[j].type = "SnapshotReplayed"}}

\* The elements of a queue after a message is sent.
LEMMA Grown ==
  ASSUME NEW s \in Seq(Messages), NEW m \in Messages
  PROVE  LET t == Append(s, m)
         IN  /\ t \in Seq(Messages) /\ Len(s) \in Nat /\ DOMAIN s = 1..Len(s)
             /\ DOMAIN t = 1..(Len(s) + 1) /\ DOMAIN t = DOMAIN s \cup {Len(s) + 1}
             /\ \A i \in DOMAIN s : t[i] = s[i]
             /\ t[Len(s) + 1] = m
  OBVIOUS

\* A message sent adds its chunks to those on the way ...
LEMMA SendChunks ==
  ASSUME NEW s \in Seq(Messages), NEW m \in Messages
  PROVE  ChunksOnTheWay(Append(s, m)) = ChunksOnTheWay(s) + ChunksIn(m)
<1>1. PICK t, n : t = Append(s, m) /\ n = Len(s)
  OBVIOUS
<1>2. /\ n \in Nat /\ DOMAIN s = 1..n /\ DOMAIN t = 1..(n + 1)
      /\ \A i \in 1..n : t[i] = s[i]
      /\ t[n + 1] = m
      /\ \A i \in 1..n : s[i] \in Messages
  BY <1>1, Grown
<1>3. PICK f : f = [i \in 1..n |-> ChunksIn(s[i])]
  OBVIOUS
<1>4. PICK g : g = [i \in 1..(n + 1) |-> ChunksIn(t[i])]
  OBVIOUS
<1>5. f \in [1..n -> Int]
  BY <1>2, <1>3, ChunksInMessages
<1>6. g \in [1..(n + 1) -> Int] /\ g[n + 1] = ChunksIn(m) /\ \A i \in 1..n : g[i] = f[i]
  <2>1. \A i \in 1..(n + 1) : t[i] \in Messages
    BY <1>2
  <2>2. \A i \in 1..(n + 1) : ChunksIn(t[i]) \in Int
    BY <2>1, ChunksInMessages
  <2>3. g[n + 1] = ChunksIn(t[n + 1])
    BY <1>2, <1>4
  <2>4. \A i \in 1..n : g[i] = ChunksIn(s[i])
    BY <1>2, <1>4
  <2> QED BY <1>2, <1>3, <1>4, <2>2, <2>3, <2>4
<1>7. SumFunction(g) = SumFunction(f) + g[n + 1]
  BY <1>2, <1>5, <1>6, SumAppend
<1> QED BY <1>1, <1>2, <1>3, <1>4, <1>6, <1>7 DEF ChunksOnTheWay

\* ... its key to those of its type ...
LEMMA SendKeys ==
  ASSUME NEW s \in Seq(Messages), NEW m \in Messages, NEW type
  PROVE  KeysIn(Append(s, m), type) =
           IF m.type = type THEN KeysIn(s, type) \cup {m.key} ELSE KeysIn(s, type)
<1>1. PICK t, n : t = Append(s, m) /\ n = Len(s)
  OBVIOUS
<1>2. /\ DOMAIN t = DOMAIN s \cup {n + 1} /\ n + 1 \notin DOMAIN s
      /\ \A i \in DOMAIN s : t[i] = s[i]
      /\ t[n + 1] = m
  BY <1>1, Grown
<1> QED BY <1>1, <1>2 DEF KeysIn

\* ... and the messages stay distinct, when its key was not on the way.
LEMMA SendDistinct ==
  ASSUME NEW s \in Seq(Messages), NEW m \in Messages, DistinctMessages(s),
         m.type \in Keyed => m.key \notin KeysIn(s, m.type),
         m.type = "SnapshotReplayed" => m.index \notin IndexesIn(s)
  PROVE  DistinctMessages(Append(s, m))
<1>1. PICK t, n : t = Append(s, m) /\ n = Len(s)
  OBVIOUS
<1>2. /\ DOMAIN t = DOMAIN s \cup {n + 1} /\ n + 1 \notin DOMAIN s
      /\ \A i \in DOMAIN s : t[i] = s[i]
      /\ t[n + 1] = m
  BY <1>1, Grown
<1>3. \A i \in DOMAIN s : s[i].type = m.type =>
         /\ m.type \in Keyed => s[i].key # m.key
         /\ m.type = "SnapshotReplayed" => s[i].index # m.index
  BY DEF KeysIn, IndexesIn
<1>4. DistinctMessages(t)
  BY <1>2, <1>3 DEF DistinctMessages
<1> QED BY <1>1, <1>4

\* The elements of a queue after a message is received.
LEMMA Shrunk ==
  ASSUME NEW s \in Seq(Messages), s # <<>>
  PROVE  /\ Tail(s) \in Seq(Messages) /\ Head(s) \in Messages /\ Head(s) = s[1]
         /\ Len(s) \in Nat \ {0} /\ DOMAIN s = 1..Len(s) /\ 1 \in DOMAIN s
         /\ DOMAIN Tail(s) = 1..(Len(s) - 1)
         /\ \A i \in DOMAIN Tail(s) : i + 1 \in DOMAIN s /\ i + 1 # 1 /\ Tail(s)[i] = s[i + 1]
         /\ \A i \in DOMAIN s : i = 1 \/ (i - 1 \in DOMAIN Tail(s) /\ Tail(s)[i - 1] = s[i])
<1>1. Len(s) \in Nat \ {0} /\ DOMAIN s = 1..Len(s) /\ Head(s) = s[1]
  OBVIOUS
<1>2. Tail(s) \in Seq(Messages) /\ Len(Tail(s)) = Len(s) - 1
  OBVIOUS
<1>3. \A i \in 1..(Len(s) - 1) : Tail(s)[i] = s[i + 1]
  OBVIOUS
<1>4. 1 \in DOMAIN s /\ s[1] \in Messages
  BY <1>1
<1>5. DOMAIN Tail(s) = 1..(Len(s) - 1)
  BY <1>1, <1>2
<1>6. \A i \in DOMAIN Tail(s) : i + 1 \in DOMAIN s /\ i + 1 # 1
  BY <1>1, <1>5
<1>7. \A i \in DOMAIN s : i = 1 \/ (i - 1 \in 1..(Len(s) - 1) /\ (i - 1) + 1 = i)
  BY <1>1
<1>8. ASSUME NEW i \in DOMAIN s
      PROVE  i = 1 \/ (i - 1 \in DOMAIN Tail(s) /\ Tail(s)[i - 1] = s[i])
  <2>1. PICK j : j = i - 1
    OBVIOUS
  <2>2. i = 1 \/ (j \in 1..(Len(s) - 1) /\ j + 1 = i)
    BY <1>7, <2>1
  <2>3. i = 1 \/ Tail(s)[j] = s[j + 1]
    BY <1>3, <2>2
  <2> QED BY <1>5, <2>1, <2>2, <2>3
<1> QED BY <1>1, <1>2, <1>3, <1>4, <1>5, <1>6, <1>8

\* A message received takes its chunks off the way ...
LEMMA ReceiveChunks ==
  ASSUME NEW s \in Seq(Messages), s # <<>>
  PROVE  ChunksOnTheWay(Tail(s)) = ChunksOnTheWay(s) - ChunksIn(Head(s))
<1>1. PICK t, n : t = Tail(s) /\ n = Len(s)
  OBVIOUS
<1>2. /\ n \in Nat \ {0} /\ DOMAIN s = 1..n /\ DOMAIN t = 1..(n - 1)
      /\ \A i \in 1..(n - 1) : t[i] = s[i + 1]
      /\ \A i \in 1..n : s[i] \in Messages
      /\ Head(s) = s[1]
  BY <1>1, Shrunk
<1>3. PICK f : f = [i \in 1..n |-> ChunksIn(s[i])]
  OBVIOUS
<1>4. f \in [1..n -> Int]
  BY <1>2, <1>3, ChunksInMessages
<1>5. PICK g : g = [i \in 1..(n - 1) |-> f[i + 1]]
  OBVIOUS
<1>6. PICK h : h = [i \in 1..1 |-> f[i]]
  OBVIOUS
<1>7. SumFunction(h) + SumFunction(g) = SumFunction(f) /\ SumFunction(g) \in Int
  <2>1. n \in Nat /\ 1 \in 0..n
    BY <1>2
  <2> QED BY <1>4, <1>5, <1>6, <2>1, SumCut
<1>8. SumFunction(h) = f[1]
  <2>1. PICK S : S = 1..1
    OBVIOUS
  <2>7. S = {1}
    BY <2>1
  <2>2. IsFiniteSet(S)
    BY <2>7, FS_Singleton
  <2>3. h \in [S -> Int] /\ 1 \in S /\ h[1] = f[1] /\ f[1] \in Int
    BY <1>2, <1>4, <1>6, <2>1
  <2>4. SumFunction(h) = h[1] + SumFunction(But(h, 1))
    BY <2>2, <2>3, SumBut
  <2>5. DOMAIN But(h, 1) = {}
    BY <2>1, <2>3 DEF But
  <2>6. SumFunction(But(h, 1)) = 0
    BY <2>5, SumEmpty
  <2> QED BY <2>3, <2>4, <2>6
<1>9. f[1] = ChunksIn(Head(s)) /\ f[1] \in Int
  BY <1>2, <1>3, <1>4
<1>10. g = [i \in DOMAIN t |-> ChunksIn(t[i])]
  BY <1>2, <1>3, <1>5
<1>11. ChunksOnTheWay(s) = SumFunction(f) /\ ChunksOnTheWay(t) = SumFunction(g)
  BY <1>2, <1>3, <1>10 DEF ChunksOnTheWay
<1>12. ChunksOnTheWay(t) = ChunksOnTheWay(s) - ChunksIn(Head(s))
  BY <1>7, <1>8, <1>9, <1>11
<1> QED BY <1>1, <1>12

\* ... and its key from those of its type.
LEMMA ReceiveKeys ==
  ASSUME NEW s \in Seq(Messages), s # <<>>, DistinctMessages(s), NEW type \in Keyed
  PROVE  /\ KeysIn(Tail(s), type) = IF Head(s).type = type THEN KeysIn(s, type) \ {Head(s).key}
                                    ELSE KeysIn(s, type)
         /\ Head(s).type = type => Head(s).key \in KeysIn(s, type)
<1>1. PICK t : t = Tail(s)
  OBVIOUS
<1>2. /\ Head(s) = s[1] /\ 1 \in DOMAIN s
      /\ \A i \in DOMAIN t : i + 1 \in DOMAIN s /\ i + 1 # 1 /\ t[i] = s[i + 1]
      /\ \A i \in DOMAIN s : i = 1 \/ (i - 1 \in DOMAIN t /\ t[i - 1] = s[i])
  BY <1>1, Shrunk
<1>3. KeysIn(t, type) \subseteq KeysIn(s, type)
  BY <1>2 DEF KeysIn
<1>4. \A k \in KeysIn(s, type) : k \in KeysIn(t, type) \/ (s[1].type = type /\ k = s[1].key)
  BY <1>2 DEF KeysIn
<1>5. s[1].type = type => s[1].key \notin KeysIn(t, type) /\ s[1].key \in KeysIn(s, type)
  BY <1>2 DEF KeysIn, DistinctMessages
<1>6. PICK K, L : K = KeysIn(s, type) /\ L = KeysIn(t, type)
  OBVIOUS
<1>7. CASE s[1].type = type
  <2>1. L = K \ {s[1].key} /\ s[1].key \in K
    BY ONLY <1>3, <1>4, <1>5, <1>6, <1>7
  <2> QED BY ONLY <1>1, <1>2, <1>6, <1>7, <2>1
<1>8. CASE s[1].type # type
  <2>1. L = K
    BY ONLY <1>3, <1>4, <1>6, <1>8
  <2> QED BY ONLY <1>1, <1>2, <1>6, <1>8, <2>1
<1> QED BY <1>7, <1>8

\* Distinct messages stay distinct when the first is received.
LEMMA ReceiveDistinct ==
  ASSUME NEW s \in Seq(Messages), s # <<>>, DistinctMessages(s)
  PROVE  /\ DistinctMessages(Tail(s)) /\ IndexesIn(Tail(s)) \subseteq IndexesIn(s)
         /\ Head(s).type = "SnapshotReplayed" =>
              Head(s).index \in IndexesIn(s) /\ Head(s).index \notin IndexesIn(Tail(s))
<1>1. PICK t : t = Tail(s)
  OBVIOUS
<1>2. /\ Head(s) = s[1] /\ 1 \in DOMAIN s
      /\ \A i \in DOMAIN t : i + 1 \in DOMAIN s /\ i + 1 # 1 /\ t[i] = s[i + 1]
  BY <1>1, Shrunk
<1>3. \A i, j \in DOMAIN t : i # j => i + 1 # j + 1
  BY <1>1, Shrunk
<1>4. DistinctMessages(t)
  BY <1>2, <1>3 DEF DistinctMessages
<1>5. IndexesIn(t) \subseteq IndexesIn(s)
  BY <1>2 DEF IndexesIn
<1>6. s[1].type = "SnapshotReplayed" => s[1].index \in IndexesIn(s) /\ s[1].index \notin IndexesIn(t)
  BY <1>2 DEF IndexesIn, DistinctMessages
<1> QED BY <1>1, <1>2, <1>4, <1>5, <1>6

-----------------------------------------------------------------------------
(* The shape of the run. *)

\* The assumptions on a run, in the terms the proofs use.
LEMMA RunShape ==
  /\ Len(Run) \in Nat \ {0} /\ DOMAIN Run = 1..Len(Run)
  /\ \A i \in 1..Len(Run), t \in Families : Run[i][t] \in Nat
  /\ \A t \in Families : CyclesPerCircuit[t] \in Nat \ {0}
  BY RunAssumption DEF Families

\* A type has a number of rows in the first snapshots.
LEMMA RowsType ==
  ASSUME NEW t \in Families, NEW n \in 0..Len(Run)
  PROVE  Rows(t, n) \in Nat
<1>1. PICK f, S : S = 1..n /\ f = [i \in 1..n |-> Run[i][t]]
  OBVIOUS
<1>2. n \in Int /\ 1..n \subseteq 1..Len(Run)
  BY RunShape
<1>3. IsFiniteSet(S)
  BY <1>1, <1>2, FS_Interval
<1>4. f \in [S -> Nat]
  BY <1>1, <1>2, RunShape
<1>5. SumFunction(f) \in Nat
  BY <1>3, <1>4, SumNat
<1> QED BY <1>1, <1>5 DEF Rows

\* The rows of a run only grow.
LEMMA RowsGrow ==
  ASSUME NEW t \in Families, NEW m \in 0..Len(Run), NEW n \in 0..Len(Run), m <= n
  PROVE  Rows(t, m) <= Rows(t, n)
<1>1. PICK f : f = [i \in 1..n |-> Run[i][t]]
  OBVIOUS
<1>2. n \in Nat /\ m \in 0..n /\ 1..n \subseteq 1..Len(Run)
  BY RunShape
<1>3. f \in [1..n -> Nat]
  BY <1>1, <1>2, RunShape
<1>4. PICK g : g = [i \in 1..m |-> f[i]]
  OBVIOUS
<1>5. PICK h : h = [i \in 1..(n - m) |-> f[i + m]]
  OBVIOUS
<1>6. /\ SumFunction(g) + SumFunction(h) = SumFunction(f)
      /\ SumFunction(g) \in Int
  <2>1. f \in [1..n -> Int]
    BY <1>3
  <2> QED BY <1>2, <1>4, <1>5, <2>1, SumCut
<1>7. SumFunction(h) \in Nat
  <2>1. PICK S : S = 1..(n - m)
    OBVIOUS
  <2>2. IsFiniteSet(S)
    BY <1>2, <2>1, FS_Interval
  <2>3. h \in [S -> Nat]
    <3>1. \A i \in 1..(n - m) : i + m \in 1..n
      BY <1>2
    <3> QED BY <1>3, <1>5, <2>1, <3>1
  <2> QED BY <2>2, <2>3, SumNat
<1>8. g = [i \in 1..m |-> Run[i][t]]
  BY <1>1, <1>2, <1>4
<1>9. SumFunction(g) = Rows(t, m) /\ SumFunction(f) = Rows(t, n)
  BY <1>1, <1>8 DEF Rows
<1> QED BY <1>6, <1>7, <1>9

\* No snapshot, no rows.
LEMMA NoRowsAtFirst ==
  ASSUME NEW t
  PROVE  Rows(t, 0) = 0
<1>1. PICK f : f = [i \in 1..0 |-> Run[i][t]]
  OBVIOUS
<1>2. SumFunction(f) = 0
  BY <1>1, SumEmpty
<1> QED BY <1>1, <1>2 DEF Rows

\* Division: a lies in its circuit.
LEMMA Division ==
  ASSUME NEW a \in Nat, NEW c \in Nat \ {0}
  PROVE  /\ a \div c \in Nat /\ (a \div c) * c <= a /\ a < (a \div c + 1) * c
         /\ (a \div c) * c \in Nat /\ (a \div c + 1) * c = (a \div c) * c + c
  OBVIOUS

\* The quotient is the one number whose multiples enclose a.
LEMMA DivisionIsUnique ==
  ASSUME NEW a \in Nat, NEW c \in Nat \ {0}, NEW q \in Nat, q * c <= a, a < (q + 1) * c
  PROVE  a \div c = q
  OBVIOUS

\* Order of numbers and of their multiples.
LEMMA Multiples ==
  ASSUME NEW p \in Nat, NEW q \in Nat, NEW c \in Nat \ {0}
  PROVE  /\ p < q <=> p * c < q * c
         /\ p < q <=> (p + 1) * c <= q * c
         /\ p * c \in Nat /\ (p + 1) * c = p * c + c
  OBVIOUS

-----------------------------------------------------------------------------
(* The invariant of the data. *)

\* A finite function from sequence ids to chunks.
Table(f) == f \in [DOMAIN f -> Nat] /\ DOMAIN f \subseteq Nat /\ IsFiniteSet(DOMAIN f)

DataType ==
  /\ results \in Seq(Messages) /\ main \in Positions
  /\ caching \in BOOLEAN /\ proving \in BOOLEAN /\ simulation_result \in BOOLEAN
  /\ gpu_work_requests_sender \in BOOLEAN /\ abort_signaled \in BOOLEAN
  /\ free_allocators \in Nat
  /\ uninitialized \subseteq TracingMessages /\ IsFiniteSet(uninitialized)
  /\ gpu \subseteq Requests /\ IsFiniteSet(gpu)
  /\ Table(unpaired_inits) /\ Table(unpaired_tracing)
  /\ entries \in Seq(Requests)
  /\ trivial \in Nat /\ cached_trivial \in Nat

At(t) == produced[t] \div CyclesPerCircuit[t]

Producing == simulator \in {"run", "trace", "chunk"}

\* What a producer has reserved: complete circuits, and rows of one more when it
\* holds chunks.
ProducerInv ==
  /\ produced \in [Families -> Nat] /\ chunks \in [Families -> Nat]
  /\ room \in [Families -> Nat] /\ participating \in [Families -> SUBSET Nat]
  /\ inits_index \in Nat /\ inits_chunks \in Nat
  /\ snapshot_index \in 0..Len(Run)
  /\ simulator \in {"run", "chunk"} => snapshot_index < Len(Run)
  /\ Producing => \A t \in Families : produced[t] <= Rows(t, snapshot_index)
  /\ simulator \in {"run", "chunk"} =>
       \A t \in Families : produced[t] = Rows(t, snapshot_index)
  /\ \A t \in Families :
       /\ chunks[t] # 0 => At(t) * CyclesPerCircuit[t] < produced[t]
       /\ Producing /\ chunks[t] = 0 => At(t) * CyclesPerCircuit[t] = produced[t]
       /\ simulator \notin {"run", "trace", "chunk", "finalize"} => chunks[t] = 0
  /\ inits_chunks # 0 =>
       simulator = "inits" /\ inits_index \in EmptyCircuits..(EmptyCircuits + Partitions - 1)
  /\ inits_index <= EmptyCircuits + Partitions
  /\ simulator \in {"run", "trace", "chunk", "finalize", "exit"} => inits_index = 0

UninitializedKeys == {data.key : data \in uninitialized}

UnpairedKeys == {<<"Unified", q>> : q \in DOMAIN unpaired_tracing}

GpuKeys == {request.key : request \in gpu}

EntryKeys == {request.key : request \in ToSet(entries)}

\* Circuits on the way to the GPU side, and those that have reached it.
Upstream ==
  KeysIn(results, "TracingData") \cup UninitializedKeys \cup UnpairedKeys
    \cup (IF Unified THEN {} ELSE KeysIn(results, "InitsAndTeardownsData"))

Downstream == GpuKeys \cup KeysIn(results, "GpuWorkResult") \cup completed

\* The simulator has sent the data of circuit k.
Issued(k) ==
  \/ /\ k \in Families \X Nat
     /\ k[2] * CyclesPerCircuit[k[1]] < produced[k[1]]
     /\ chunks[k[1]] # 0 => k[2] # At(k[1])
  \/ ~Unified /\ k \in {InitsCircuit} \X Nat /\ k[2] < inits_index

KeyedOnce(S) == \A d, e \in S : d.key = e.key => d = e

Apart(A, B, C) == A \cap B = {} /\ A \cap C = {} /\ B \cap C = {}

\* The data of a circuit is in one place.
KeyInv ==
  /\ DistinctMessages(results) /\ KeyedOnce(uninitialized) /\ KeyedOnce(gpu)
  /\ Apart(KeysIn(results, "TracingData"), UninitializedKeys, UnpairedKeys)
  /\ Apart(GpuKeys, KeysIn(results, "GpuWorkResult"), completed)
  /\ (Upstream \ requests_served_from_cache) \cap Downstream = {}
  /\ \A k \in Upstream \cup (Downstream \ requests_served_from_cache) : Issued(k)
  /\ \A k \in KeysIn(results, "InitsAndTeardownsData") : k[2] < inits_index
  /\ \A q \in DOMAIN unpaired_inits :
       \/ caching /\ proving /\ q < trivial
       \/ q < inits_index /\ <<InitsCircuit, q>> \notin KeysIn(results, "InitsAndTeardownsData")
  /\ \A i, j \in DOMAIN entries : i # j => entries[i].key # entries[j].key
  /\ EntryKeys \subseteq completed
  /\ main = "start" => entries = <<>>
  /\ main = "committed" => caching /\ ~proving

\* The circuits without inits and teardowns are the leading ones.
InitsInv ==
  /\ \A i \in DOMAIN results : results[i].type = "InitsAndTeardownsData" =>
       (results[i].chunks = 0 <=> results[i].key[2] < EmptyCircuits)
  /\ trivial <= EmptyCircuits /\ cached_trivial <= EmptyCircuits

FromSimulator == {"TracingData", "InitsAndTeardownsData", "SimulationResult"}

SimulatorOver == simulator \in {"drop", "runner", "source", "done"}

NothingWaits == uninitialized = {} /\ unpaired_inits = NoData /\ unpaired_tracing = NoData

\* The simulation result is the last message of the simulator; the channel of
\* requests is closed when nothing can follow.
OrderInv ==
  /\ \A i \in DOMAIN results : results[i].type = "SimulationResult" =>
       /\ SimulatorOver
       /\ \A j \in DOMAIN results : j > i => results[j].type \notin FromSimulator
  /\ main = "loop" /\ simulation_result /\ ~abort_signaled =>
       /\ SimulatorOver
       /\ \A j \in DOMAIN results : results[j].type \notin FromSimulator
  /\ main = "loop" /\ ~gpu_work_requests_sender /\ ~abort_signaled =>
       NothingWaits /\ simulation_result
  /\ main \in {"start", "committed"} => NothingWaits

Reporting == {replaying[r] : r \in Busy("reporting")}

\* A snapshot is reported once.
ReportInv ==
  /\ Apart(processed, IndexesIn(results), Reporting)
  /\ \A r, s \in Busy("reporting") : r # s => replaying[r] # replaying[s]

DataInv == DataType /\ ProducerInv /\ KeyInv /\ InitsInv /\ OrderInv /\ ReportInv

-----------------------------------------------------------------------------
(* A step of the simulator. *)

\* Min of a set of numbers is its least element.
LEMMA MinIsLeast ==
  ASSUME NEW S, S \subseteq Nat, S # {}
  PROVE  Min(S) \in S /\ \A x \in S : Min(S) <= x
<1>1. PICK n \in S : \A m \in Nat : m < n => m \notin S
  BY LeastNumber
<1>2. \A x \in S : n <= x
  BY <1>1
<1> QED BY <1>2 DEF Min

\* Min of two numbers.
LEMMA MinOfTwo ==
  ASSUME NEW a \in Nat, NEW b \in Nat
  PROVE  Min({a, b}) \in {a, b} /\ Min({a, b}) <= a /\ Min({a, b}) <= b
<1>1. PICK S : S = {a, b}
  OBVIOUS
<1>2. S \subseteq Nat /\ S # {}
  BY <1>1
<1>3. Min(S) \in S /\ \A x \in S : Min(S) <= x
  BY <1>2, MinIsLeast
<1> QED BY <1>1, <1>3

\* The least of the types chosen is a type.
LEMMA ChosenType ==
  ASSUME NEW S, S \subseteq DOMAIN Types, S # {}
  PROVE  Min(S) \in S /\ Types[Min(S)] \in Families
<1>1. DOMAIN Types \subseteq Nat
  BY RunAssumption
<1>2. Min(S) \in S
  BY <1>1, MinIsLeast
<1> QED BY <1>2 DEF Families, ToSet

\* Rows of type t are reserved up to p: the circuit, now of n chunks, grows, and is
\* sent off when full.
Reserves(t, p, n, indexes) ==
  /\ produced' = [produced EXCEPT ![t] = p]
  /\ produced[t] < p /\ p <= Rows(t, snapshot_index)
  /\ free_allocators' \in Nat /\ free_allocators' + n = free_allocators + chunks[t]
  /\ room' \in [Families -> Nat]
  /\ \A s \in Families : room'[s] <= room[s] \/ room'[s] <= ChunkCapacity
  /\ indexes = participating[t] \cup {snapshot_index}
  /\ \/ /\ p = (At(t) + 1) * CyclesPerCircuit[t]
        /\ Send(TracingData(<<t, At(t)>>, n, indexes))
        /\ chunks' = [chunks EXCEPT ![t] = 0]
        /\ participating' = [participating EXCEPT ![t] = {}]
     \/ /\ p < (At(t) + 1) * CyclesPerCircuit[t]
        /\ UNCHANGED results
        /\ chunks' = [chunks EXCEPT ![t] = n]
        /\ participating' = [participating EXCEPT ![t] = indexes]

\* A round of process_snapshot.
LEMMA ReserveEffect ==
  ASSUME ProducerInv, free_allocators \in Nat, Reserve
  PROVE  \E t \in Families, p \in Nat, n \in Nat \ {0}, indexes \in SUBSET Nat :
           Reserves(t, p, n, indexes)
<1>1. PICK t : t = Types[Min(Unfinished)]
  OBVIOUS
<1>2. t \in Families /\ produced[t] # Rows(t, snapshot_index)
  <2>1. Unfinished \subseteq DOMAIN Types /\ Unfinished # {}
    BY DEF Unfinished, Reserve
  <2> QED BY <1>1, <2>1, ChosenType DEF Unfinished
<1>3. /\ produced[t] \in Nat /\ chunks[t] \in Nat /\ room[t] \in Nat /\ snapshot_index \in 0..Len(Run)
      /\ CyclesPerCircuit[t] \in Nat \ {0} /\ Rows(t, snapshot_index) \in Nat
      /\ simulator = "trace" /\ produced[t] <= Rows(t, snapshot_index)
      /\ participating[t] \in SUBSET Nat /\ snapshot_index \in Nat
  <2>1. snapshot_index \in 0..Len(Run)
    BY DEF ProducerInv
  <2>2. CyclesPerCircuit[t] \in Nat \ {0} /\ snapshot_index \in Nat
    BY <1>2, <2>1, RunShape
  <2>3. Rows(t, snapshot_index) \in Nat
    BY <1>2, <2>1, RowsType
  <2>4. simulator = "trace"
    BY DEF Reserve
  <2> QED BY <1>2, <2>1, <2>2, <2>3, <2>4 DEF ProducerInv, Producing
<1>4. PICK fresh \in BOOLEAN : fresh = (chunks[t] = 0 \/ room[t] = 0)
  OBVIOUS
<1>5. PICK spare : spare = IF fresh THEN ChunkCapacity ELSE room[t]
  OBVIOUS
<1>6. PICK end : end = Min({Rows(t, snapshot_index), NextBoundary(t)})
  OBVIOUS
<1>7. PICK diff : diff = Min({spare, end - produced[t]})
  OBVIOUS
<1>8. PICK full \in BOOLEAN : full = (produced[t] + diff = NextBoundary(t))
  OBVIOUS
<1>9. PICK n : n = IF fresh THEN chunks[t] + 1 ELSE chunks[t]
  OBVIOUS
<1>10. PICK indexes : indexes = participating[t] \cup {snapshot_index}
  OBVIOUS
<1>11. /\ fresh => free_allocators > 0
       /\ free_allocators' = IF fresh THEN free_allocators - 1 ELSE free_allocators
       /\ produced' = [produced EXCEPT ![t] = @ + diff]
       /\ room' = [room EXCEPT ![t] = IF full THEN 0 ELSE spare - diff]
       /\ chunks' = [chunks EXCEPT ![t] = IF full THEN 0 ELSE n]
       /\ participating' = [participating EXCEPT ![t] = IF full THEN {} ELSE indexes]
       /\ IF full THEN Send(TracingData(<<t, produced[t] \div CyclesPerCircuit[t]>>, n, indexes))
          ELSE UNCHANGED results
  BY <1>1, <1>4, <1>5, <1>6, <1>7, <1>8, <1>9, <1>10 DEF Reserve
<1>12. /\ NextBoundary(t) = (At(t) + 1) * CyclesPerCircuit[t]
       /\ NextBoundary(t) \in Nat /\ produced[t] < NextBoundary(t)
  <2>1. PICK a, c : a = produced[t] /\ c = CyclesPerCircuit[t]
    OBVIOUS
  <2>3. a \in Nat /\ c \in Nat \ {0}
    BY <1>3, <2>1
  <2>4. /\ a < (a \div c + 1) * c /\ (a \div c) * c \in Nat
        /\ (a \div c + 1) * c = (a \div c) * c + c
    BY <2>3, Division
  <2>5. (a \div c) * c + c \in Nat
    BY <2>3, <2>4
  <2>2. a < (a \div c + 1) * c /\ (a \div c + 1) * c \in Nat
    BY <2>4, <2>5
  <2> QED BY <2>1, <2>2 DEF NextBoundary, At
<1>13. /\ end \in Nat /\ produced[t] < end /\ end <= Rows(t, snapshot_index) /\ end <= NextBoundary(t)
  <2>1. end \in {Rows(t, snapshot_index), NextBoundary(t)} /\ end <= Rows(t, snapshot_index) /\ end <= NextBoundary(t)
    BY <1>3, <1>6, <1>12, MinOfTwo
  <2> QED BY <1>2, <1>3, <1>12, <2>1
<1>14. spare \in Nat \ {0}
  BY <1>3, <1>4, <1>5, SizesAssumption
<1>15. diff \in Nat \ {0} /\ diff <= spare /\ produced[t] + diff <= end
  <2>1. end - produced[t] \in Nat \ {0}
    BY <1>3, <1>13
  <2>2. diff \in {spare, end - produced[t]} /\ diff <= spare /\ diff <= end - produced[t]
    BY <1>7, <1>14, <2>1, MinOfTwo
  <2> QED BY <1>3, <1>13, <1>14, <2>1, <2>2
<1>16. PICK p : p = produced[t] + diff
  OBVIOUS
<1>17. p \in Nat /\ produced[t] < p /\ p <= Rows(t, snapshot_index) /\ p <= NextBoundary(t)
  BY <1>3, <1>12, <1>13, <1>15, <1>16
<1>18. n \in Nat \ {0} /\ free_allocators' \in Nat /\ free_allocators' + n = free_allocators + chunks[t]
  <2>1. CASE fresh
    <3>1. free_allocators > 0 /\ free_allocators' = free_allocators - 1 /\ n = chunks[t] + 1
      BY <1>9, <1>11, <2>1
    <3> QED BY <1>3, <3>1
  <2>2. CASE ~fresh
    <3>1. chunks[t] # 0
      BY <1>4, <2>2
    <3>2. free_allocators' = free_allocators /\ n = chunks[t]
      BY <1>9, <1>11, <2>2
    <3> QED BY <1>3, <3>1, <3>2
  <2> QED BY <2>1, <2>2
<1>19. /\ room' \in [Families -> Nat]
       /\ \A s \in Families : room'[s] <= room[s] \/ room'[s] <= ChunkCapacity
  <2>1. PICK left \in Nat : left = IF full THEN 0 ELSE spare - diff
    BY <1>14, <1>15
  <2>2. left <= room[t] \/ left <= ChunkCapacity
    BY <1>3, <1>5, <1>14, <1>15, <2>1, SizesAssumption
  <2>3. room' = [room EXCEPT ![t] = left] /\ room \in [Families -> Nat]
    BY <1>11, <2>1 DEF ProducerInv
  <2> QED BY <1>2, <2>2, <2>3
<1>20. produced' = [produced EXCEPT ![t] = p]
  BY <1>11, <1>16
<1>21. indexes \in SUBSET Nat
  BY <1>3, <1>10
<1>22. CASE full
  <2>1. p = (At(t) + 1) * CyclesPerCircuit[t]
    BY <1>8, <1>12, <1>16, <1>22
  <2>2. /\ Send(TracingData(<<t, At(t)>>, n, indexes))
        /\ chunks' = [chunks EXCEPT ![t] = 0]
        /\ participating' = [participating EXCEPT ![t] = {}]
    BY <1>11, <1>22 DEF At
  <2>6. Reserves(t, p, n, indexes)
    BY <1>10, <1>17, <1>18, <1>19, <1>20, <2>1, <2>2 DEF Reserves
  <2> QED BY <1>2, <1>17, <1>18, <1>21, <2>6
<1>23. CASE ~full
  <2>3. p # NextBoundary(t)
    BY <1>8, <1>16, <1>23
  <2>4. PICK b : b = NextBoundary(t)
    OBVIOUS
  <2>5. p < b
    BY <1>12, <1>17, <2>3, <2>4
  <2>1. p < (At(t) + 1) * CyclesPerCircuit[t]
    BY <1>12, <2>4, <2>5
  <2>2. /\ UNCHANGED results
        /\ chunks' = [chunks EXCEPT ![t] = n]
        /\ participating' = [participating EXCEPT ![t] = indexes]
    BY <1>11, <1>23
  <2>6. Reserves(t, p, n, indexes)
    BY <1>10, <1>17, <1>18, <1>19, <1>20, <2>1, <2>2 DEF Reserves
  <2> QED BY <1>2, <1>17, <1>18, <1>21, <2>6
<1> QED BY <1>22, <1>23

\* The loop is left alone.
LEMMA ClientUnchanged ==
  ASSUME UNCHANGED clientVars
  PROVE  UNCHANGED <<main, caching, proving, gpu, gpu_work_requests_sender, sent_requests_count,
                     requests_served_from_cache, abort_signaled, trivial, simulation_result,
                     uninitialized, processed, unpaired_inits, unpaired_tracing,
                     pending_requests_count, completed, entries, total_requests_count,
                     cached_trivial>>
  BY DEF clientVars, requestVars, dataVars, resultVars, cacheVars

\* The places of keys that no message changes.
LEMMA ClientKeysUnchanged ==
  ASSUME UNCHANGED clientVars
  PROVE  /\ UninitializedKeys' = UninitializedKeys /\ UnpairedKeys' = UnpairedKeys
         /\ GpuKeys' = GpuKeys /\ EntryKeys' = EntryKeys
  BY ClientUnchanged DEF UninitializedKeys, UnpairedKeys, GpuKeys, EntryKeys

\* The circuits of the initial memory are no families.
LEMMA InitsCircuitKind ==
  /\ Unified => InitsCircuit = "Unified" /\ InitsCircuit \in Families
  /\ ~Unified => InitsCircuit = "InitsAndTeardowns" /\ InitsCircuit \notin Families
                   /\ "Unified" \notin Families
  BY RunAssumption DEF InitsCircuit, Families

\* No step takes back what was issued.
LEMMA QuietKeepsKeys ==
  ASSUME KeyInv, UNCHANGED clientVars, UNCHANGED results, inits_index \in Nat, inits_index' \in Nat,
         inits_index <= inits_index', DataType, \A k : Issued(k) => Issued(k)'
  PROVE  KeyInv'
<1>1. \A k \in KeysIn(results, "InitsAndTeardownsData") : k[2] \in Nat
  BY MessageKinds DEF KeysIn, DataType, InitsMessages
<1>2. \A q \in DOMAIN unpaired_inits : q \in Nat
  BY DEF DataType, Table
<1>3. \A k \in KeysIn(results, "InitsAndTeardownsData") : k[2] < inits_index'
  BY <1>1 DEF KeyInv
<1>4. \A q \in DOMAIN unpaired_inits : q < inits_index => q < inits_index'
  BY <1>2
<1>5. Upstream' = Upstream /\ Downstream' = Downstream
  BY ClientUnchanged, ClientKeysUnchanged DEF Upstream, Downstream
<1>6. \A k \in Upstream' \cup (Downstream' \ requests_served_from_cache') : Issued(k)'
  BY <1>5, ClientUnchanged DEF KeyInv
<1>7. /\ KeyedOnce(uninitialized)' /\ KeyedOnce(gpu)'
  BY ClientUnchanged DEF KeyInv, KeyedOnce
<1>8. \A q \in DOMAIN unpaired_inits' :
       \/ caching' /\ proving' /\ q < trivial'
       \/ q < inits_index' /\ <<InitsCircuit, q>> \notin KeysIn(results', "InitsAndTeardownsData")
  BY <1>4, ClientUnchanged DEF KeyInv
<1> QED
  BY <1>3, <1>5, <1>6, <1>7, <1>8, ClientUnchanged, ClientKeysUnchanged DEF KeyInv

\* Data of a circuit that was not issued is sent.
LEMMA SendKeepsKeys ==
  ASSUME KeyInv, UNCHANGED clientVars, inits_index \in Nat, inits_index' \in Nat,
         inits_index <= inits_index', DataType, \A k : Issued(k) => Issued(k)',
         NEW m \in Messages, Send(m), m.type # "GpuWorkResult",
         m.type = "SnapshotReplayed" => m.index \notin IndexesIn(results),
         m.type = "TracingData" => ~Issued(m.key) /\ Issued(m.key)',
         m.type = "InitsAndTeardownsData" =>
           m.key = <<InitsCircuit, inits_index>> /\ inits_index' = inits_index + 1
  PROVE  KeyInv'
<1>0. results' = Append(results, m) /\ results \in Seq(Messages)
  BY DEF Send, DataType
<1>1. \A type : KeysIn(results', type) = IF m.type = type THEN KeysIn(results, type) \cup {m.key}
                                         ELSE KeysIn(results, type)
  BY <1>0, SendKeys
<1>2. /\ \A k \in KeysIn(results, "InitsAndTeardownsData") : k[2] \in Nat
      /\ \A q \in DOMAIN unpaired_inits : q \in Nat
  <2>1. \A i \in DOMAIN results : results[i] \in Messages
    BY <1>0
  <2>2. \A i \in DOMAIN results : results[i].type = "InitsAndTeardownsData" => results[i] \in InitsMessages
    BY <2>1, MessageKinds
  <2> QED BY <2>2 DEF KeysIn, DataType, InitsMessages, Table
<1>3. m.type = "InitsAndTeardownsData" => m.key[2] = inits_index /\ m.key[1] = InitsCircuit
  OBVIOUS
<1>4. m.type = "InitsAndTeardownsData" => m.key \notin KeysIn(results, "InitsAndTeardownsData")
  BY <1>2, <1>3 DEF KeyInv
<1>5. m.type = "InitsAndTeardownsData" /\ ~Unified => ~Issued(m.key) /\ Issued(m.key)'
  <2> SUFFICES ASSUME m.type = "InitsAndTeardownsData", ~Unified
               PROVE  ~Issued(m.key) /\ Issued(m.key)'
    OBVIOUS
  <2>1. m.key[1] \notin Families
    BY <1>3, InitsCircuitKind
  <2>2. m.key \notin Families \X Nat
    BY <2>1
  <2>3. m.key[2] < inits_index' /\ ~(m.key[2] < inits_index)
    BY <1>3
  <2> QED BY <1>3, <2>2, <2>3 DEF Issued
<1>6. m.type = "TracingData" => m.key \notin Upstream \cup (Downstream \ requests_served_from_cache)
  BY DEF KeyInv
<1>7. m.type = "InitsAndTeardownsData" /\ ~Unified =>
        m.key \notin Upstream \cup (Downstream \ requests_served_from_cache)
  BY <1>5 DEF KeyInv
<1>8. /\ Downstream' = Downstream
      /\ Upstream' = IF m.type = "TracingData" \/ (m.type = "InitsAndTeardownsData" /\ ~Unified)
                     THEN Upstream \cup {m.key} ELSE Upstream
  BY <1>1, ClientUnchanged, ClientKeysUnchanged DEF Upstream, Downstream
<1>9. DistinctMessages(results')
  <2>1. m.type \in Keyed => m.key \notin KeysIn(results, m.type)
    BY <1>4, <1>6 DEF Keyed, Upstream
  <2> QED BY <1>0, <2>1, SendDistinct DEF KeyInv
<1>10. /\ KeyedOnce(uninitialized)' /\ KeyedOnce(gpu)'
  BY ClientUnchanged DEF KeyInv, KeyedOnce
<1>11. Apart(KeysIn(results, "TracingData"), UninitializedKeys, UnpairedKeys)'
  BY <1>1, <1>6, ClientUnchanged, ClientKeysUnchanged DEF KeyInv, Apart, Upstream
<1>12. Apart(GpuKeys, KeysIn(results, "GpuWorkResult"), completed)'
  BY <1>1, ClientUnchanged, ClientKeysUnchanged DEF KeyInv, Apart
<1>13. (Upstream' \ requests_served_from_cache') \cap Downstream' = {}
  BY <1>6, <1>7, <1>8, ClientUnchanged DEF KeyInv
<1>14. \A k \in Upstream' \cup (Downstream' \ requests_served_from_cache') : Issued(k)'
  BY <1>5, <1>8, ClientUnchanged DEF KeyInv
<1>15. \A k \in KeysIn(results', "InitsAndTeardownsData") : k[2] < inits_index'
  <2>1. \A k \in KeysIn(results, "InitsAndTeardownsData") : k[2] < inits_index'
    BY <1>2 DEF KeyInv
  <2>2. m.type = "InitsAndTeardownsData" => m.key[2] < inits_index'
    BY <1>3
  <2> QED BY <1>1, <2>1, <2>2
<1>16. \A q \in DOMAIN unpaired_inits' :
       \/ caching' /\ proving' /\ q < trivial'
       \/ q < inits_index' /\ <<InitsCircuit, q>> \notin KeysIn(results', "InitsAndTeardownsData")
  <2>1. \A q \in DOMAIN unpaired_inits : q < inits_index =>
          q < inits_index' /\ q # inits_index
    BY <1>2
  <2>2. \A q \in DOMAIN unpaired_inits : q < inits_index /\ m.type = "InitsAndTeardownsData" =>
          <<InitsCircuit, q>> # m.key
    BY <2>1
  <2> QED BY <1>1, <2>1, <2>2, ClientUnchanged DEF KeyInv
<1> HIDE DEF Issued
<1>17. /\ \A i, j \in DOMAIN entries' : i # j => entries'[i].key # entries'[j].key
       /\ EntryKeys' \subseteq completed'
       /\ main' = "start" => entries' = <<>>
       /\ main' = "committed" => caching' /\ ~proving'
  BY ClientUnchanged, ClientKeysUnchanged DEF KeyInv
<1> QED BY <1>9, <1>10, <1>11, <1>12, <1>13, <1>14, <1>15, <1>16, <1>17 DEF KeyInv

\* A step that sends nothing and moves the simulator forward keeps OrderInv ...
LEMMA QuietKeepsOrder ==
  ASSUME OrderInv, UNCHANGED clientVars, UNCHANGED results, SimulatorOver => SimulatorOver'
  PROVE  OrderInv'
  BY ClientUnchanged DEF OrderInv, NothingWaits

\* After its result the simulator sends nothing.
LEMMA SendKeepsOrder ==
  ASSUME DataType, OrderInv, UNCHANGED clientVars, SimulatorOver => SimulatorOver',
         NEW m \in Messages, Send(m),
         m.type \in FromSimulator => ~SimulatorOver,
         m.type = "SimulationResult" => SimulatorOver'
  PROVE  OrderInv'
<1>1. PICK s, t, n : s = results /\ t = results' /\ n = Len(results)
  OBVIOUS
<1>2. t = Append(s, m) /\ s \in Seq(Messages)
  BY <1>1 DEF Send, DataType
<1>3. /\ DOMAIN s = 1..n /\ n \in Nat /\ DOMAIN t = 1..(n + 1)
      /\ \A i \in 1..n : t[i] = s[i]
      /\ t[n + 1] = m
  BY <1>1, <1>2, Grown
<1>4. \A i \in 1..(n + 1) : i \in 1..n \/ i = n + 1
  BY <1>3
<1>5. \A i \in 1..n : i # n + 1 /\ i < n + 1 /\ ~(n + 1 < i) /\ ~(n + 1 > n + 1)
  BY <1>3
<1>6. ASSUME NEW i \in DOMAIN t, t[i].type = "SimulationResult"
      PROVE  SimulatorOver' /\ \A j \in DOMAIN t : j > i => t[j].type \notin FromSimulator
  <2>1. CASE i = n + 1
    <3>1. \A j \in 1..(n + 1) : ~(j > i)
      BY <1>3, <2>1
    <3> QED BY <1>3, <1>6, <2>1, <3>1
  <2>2. CASE i \in 1..n
    <3>1. SimulatorOver /\ \A j \in 1..n : j > i => s[j].type \notin FromSimulator
      BY <1>1, <1>3, <1>6, <2>2 DEF OrderInv
    <3> QED BY <1>3, <1>4, <3>1
  <2> QED BY <1>3, <1>4, <2>1, <2>2
<1>7. SimulatorOver /\ (\A j \in DOMAIN s : s[j].type \notin FromSimulator) =>
        SimulatorOver' /\ \A j \in DOMAIN t : t[j].type \notin FromSimulator
  BY <1>3, <1>4
<1>8. ASSUME main' = "loop", simulation_result', ~abort_signaled'
      PROVE  SimulatorOver' /\ \A j \in DOMAIN t : t[j].type \notin FromSimulator
  BY <1>1, <1>7, <1>8, ClientUnchanged DEF OrderInv
<1>9. /\ main' = "loop" /\ ~gpu_work_requests_sender' /\ ~abort_signaled' =>
           NothingWaits' /\ simulation_result'
      /\ main' \in {"start", "committed"} => NothingWaits'
  BY ClientUnchanged DEF OrderInv, NothingWaits
<1> QED BY <1>1, <1>6, <1>8, <1>9 DEF OrderInv

\* ... and InitsInv.
LEMMA QuietKeepsInits ==
  ASSUME InitsInv, UNCHANGED clientVars, UNCHANGED results
  PROVE  InitsInv'
  BY ClientUnchanged DEF InitsInv

\* So does a step that sends a message other than ill-formed inits and teardowns.
LEMMA SendKeepsInits ==
  ASSUME DataType, InitsInv, UNCHANGED clientVars, NEW m \in Messages, Send(m),
         m.type = "InitsAndTeardownsData" => (m.chunks = 0 <=> m.key[2] < EmptyCircuits)
  PROVE  InitsInv'
<1>1. PICK s, t, n : s = results /\ t = results' /\ n = Len(results)
  OBVIOUS
<1>2. t = Append(s, m) /\ s \in Seq(Messages)
  BY <1>1 DEF Send, DataType
<1>3. /\ DOMAIN s = 1..n /\ n \in Nat /\ DOMAIN t = 1..(n + 1)
      /\ \A i \in 1..n : t[i] = s[i]
      /\ t[n + 1] = m
  BY <1>1, <1>2, Grown
<1>4. \A i \in 1..(n + 1) : i \in 1..n \/ i = n + 1
  BY <1>3
<1>5. ASSUME NEW i \in DOMAIN t, t[i].type = "InitsAndTeardownsData"
      PROVE  t[i].chunks = 0 <=> t[i].key[2] < EmptyCircuits
  <2>1. CASE i = n + 1
    BY <1>3, <1>5, <2>1
  <2>2. CASE i \in 1..n
    BY <1>1, <1>3, <1>5, <2>2 DEF InitsInv
  <2> QED BY <1>3, <1>4, <2>1, <2>2
<1> QED BY <1>1, <1>5, ClientUnchanged DEF InitsInv

\* The simulator reports no replay.
LEMMA SimulatorKeepsReports ==
  ASSUME DataType, ReportInv, UNCHANGED clientVars, UNCHANGED <<replayer, replaying>>,
         \/ UNCHANGED results
         \/ \E m \in Messages : m.type # "SnapshotReplayed" /\ Send(m)
  PROVE  ReportInv'
<1>1. IndexesIn(results') = IndexesIn(results)
  <2>1. CASE UNCHANGED results
    BY <2>1
  <2>2. ASSUME NEW m \in Messages, m.type # "SnapshotReplayed", Send(m)
        PROVE  IndexesIn(results') = IndexesIn(results)
    <3>1. PICK s, t, n : s = results /\ t = results' /\ n = Len(results)
      OBVIOUS
    <3>2. t = Append(s, m) /\ s \in Seq(Messages)
      BY <2>2, <3>1 DEF Send, DataType
    <3>3. /\ DOMAIN t = DOMAIN s \cup {n + 1} /\ \A i \in DOMAIN s : t[i] = s[i]
          /\ t[n + 1] = m
      BY <3>1, <3>2, Grown
    <3> QED BY <2>2, <3>1, <3>3 DEF IndexesIn
  <2> QED BY <2>1, <2>2
<1>2. Reporting' = Reporting /\ Busy("reporting")' = Busy("reporting")
  BY DEF Reporting, Busy
<1> QED BY <1>1, <1>2, ClientUnchanged DEF ReportInv

\* The numbers the balance of the allocators adds up.
LEMMA TableSum ==
  ASSUME NEW f, Table(f)
  PROVE  SumFunction(f) \in Nat
<1>1. PICK S : S = DOMAIN f
  OBVIOUS
<1>2. IsFiniteSet(S) /\ f \in [S -> Nat]
  BY <1>1 DEF Table
<1> QED BY <1>2, SumNat

\* The chunks on the way are a number.
LEMMA WayType ==
  ASSUME NEW s \in Seq(Messages)
  PROVE  ChunksOnTheWay(s) \in Nat
<1>1. PICK n, S : n = Len(s) /\ S = 1..n
  OBVIOUS
<1>2. n \in Nat /\ DOMAIN s = S /\ \A i \in S : s[i] \in Messages
  BY <1>1
<1>3. PICK f : f = [i \in S |-> ChunksIn(s[i])]
  OBVIOUS
<1>4. f \in [S -> Nat]
  BY <1>2, <1>3, ChunksInMessages
<1>5. IsFiniteSet(S)
  BY <1>1, <1>2, FS_Interval
<1>6. SumFunction(f) \in Nat
  BY <1>4, <1>5, SumNat
<1> QED BY <1>2, <1>3, <1>6 DEF ChunksOnTheWay

\* So are the chunks of the first entries of the cache.
LEMMA FirstType ==
  ASSUME NEW list \in Seq(Requests), NEW n \in 0..Len(list)
  PROVE  ChunksOfFirst(list, n) \in Nat
<1>1. PICK S, f : S = 1..n /\ f = [i \in 1..n |-> list[i].chunks]
  OBVIOUS
<1>2. n \in Nat /\ \A i \in 1..n : list[i] \in Requests
  OBVIOUS
<1>3. f \in [S -> Nat]
  BY <1>1, <1>2 DEF Requests
<1>4. IsFiniteSet(S)
  BY <1>1, <1>2, FS_Interval
<1>5. SumFunction(f) \in Nat
  BY <1>3, <1>4, SumNat
<1> QED BY <1>1, <1>5 DEF ChunksOfFirst

\* Every term of the balance of allocators is a number.
LEMMA BalanceTerms ==
  ASSUME DataType
  PROVE  /\ ChunksOnTheWay(results) \in Nat
         /\ Sized(uninitialized) /\ TotalChunks(uninitialized) \in Nat
         /\ Sized(gpu) /\ TotalChunks(gpu) \in Nat
         /\ SumFunction(unpaired_inits) \in Nat /\ SumFunction(unpaired_tracing) \in Nat
         /\ Len(entries) \in Nat /\ ChunksOfFirst(entries, Len(entries)) \in Nat
<1>1. Sized(uninitialized) /\ Sized(gpu)
  BY DEF DataType, Sized, TracingMessages, Requests
<1>2. TotalChunks(uninitialized) \in Nat /\ TotalChunks(gpu) \in Nat
  BY <1>1, TotalChunksType
<1>3. entries \in Seq(Requests) /\ Len(entries) \in Nat /\ Len(entries) \in 0..Len(entries)
  BY DEF DataType
<1> QED BY <1>1, <1>2, <1>3, WayType, TableSum, FirstType DEF DataType

\* The chunks the producers hold are a number.
LEMMA FamilySum ==
  ASSUME NEW f \in [Families -> Nat]
  PROVE  SumFunction(f) \in Nat
  BY FamiliesFinite, SumNat

\* The allocators that the simulator holds or has sent.
LEMMA SimulatorBalance ==
  ASSUME DataType, ProducerInv, DataType', ProducerInv', UNCHANGED clientVars, AllocatorsConserved,
         free_allocators' + inits_chunks' + SumFunction(chunks') + ChunksOnTheWay(results')
           = free_allocators + inits_chunks + SumFunction(chunks) + ChunksOnTheWay(results)
  PROVE  AllocatorsConserved'
<1>1. /\ free_allocators \in Nat /\ free_allocators' \in Nat
      /\ inits_chunks \in Nat /\ inits_chunks' \in Nat
  BY DEF DataType, ProducerInv
<1>2. SumFunction(chunks) \in Nat /\ SumFunction(chunks') \in Nat
  BY FamilySum DEF ProducerInv
<1>3. ChunksOnTheWay(results) \in Nat /\ ChunksOnTheWay(results') \in Nat
  BY WayType DEF DataType
<1>4. /\ TotalChunks(uninitialized) \in Nat /\ TotalChunks(gpu) \in Nat
      /\ SumFunction(unpaired_inits) \in Nat /\ SumFunction(unpaired_tracing) \in Nat
      /\ ChunksOfFirst(entries, Len(entries)) \in Nat
  BY BalanceTerms
<1>5. UNCHANGED <<uninitialized, gpu, unpaired_inits, unpaired_tracing, entries>>
  BY ClientUnchanged
<1>6. AllocatorsConserved <=>
        free_allocators + inits_chunks + SumFunction(chunks) + ChunksOnTheWay(results)
        + TotalChunks(uninitialized) + TotalChunks(gpu)
        + SumFunction(unpaired_inits) + SumFunction(unpaired_tracing)
        + ChunksOfFirst(entries, Len(entries))
        = Allocators
  BY DEF AllocatorsConserved, ChunksOnTheWay
<1>7. AllocatorsConserved' <=>
        free_allocators' + inits_chunks' + SumFunction(chunks') + ChunksOnTheWay(results')
        + TotalChunks(uninitialized) + TotalChunks(gpu)
        + SumFunction(unpaired_inits) + SumFunction(unpaired_tracing)
        + ChunksOfFirst(entries, Len(entries))
        = Allocators
  BY <1>5 DEF AllocatorsConserved, ChunksOnTheWay
<1> QED BY <1>1, <1>2, <1>3, <1>4, <1>6, <1>7

\* The types of the loop's data, after a step of a task.
LEMMA TaskKeepsType ==
  ASSUME DataType, UNCHANGED clientVars, results' \in Seq(Messages), free_allocators' \in Nat
  PROVE  DataType'
  BY ClientUnchanged DEF DataType, Table

\* A message sent is one more message, with its chunks.
LEMMA SendKeepsType ==
  ASSUME DataType, NEW m \in Messages, Send(m)
  PROVE  /\ results' \in Seq(Messages)
         /\ ChunksOnTheWay(results') = ChunksOnTheWay(results) + ChunksIn(m)
  BY SendChunks DEF DataType, Send

\* Rounds of process_snapshot.
LEMMA GrowsWithinCircuit ==
  ASSUME NEW a \in Nat, NEW p \in Nat, NEW c \in Nat \ {0}, a < p, p < (a \div c + 1) * c
  PROVE  p \div c = a \div c /\ (a \div c) * c < p
<1>1. a \div c \in Nat /\ (a \div c) * c <= a /\ (a \div c) * c \in Nat
  BY Division
<1>2. (a \div c) * c < p
  BY <1>1
<1>3. PICK q \in Nat : q = a \div c
  BY <1>1
<1>4. q * c <= p /\ p < (q + 1) * c
  <2>1. PICK x \in Nat : x = (a \div c) * c
    BY <1>1
  <2>2. x <= p
    BY <1>2, <2>1
  <2> QED BY <1>3, <2>1, <2>2
<1> QED BY <1>2, <1>3, <1>4, DivisionIsUnique

\* Rows that end at the boundary of circuit q fill it.
LEMMA FillsCircuit ==
  ASSUME NEW q \in Nat, NEW c \in Nat \ {0}
  PROVE  ((q + 1) * c) \div c = q + 1 /\ q * c < (q + 1) * c /\ (q + 1) * c \in Nat
<1>1. (q + 1) * c = q * c + c /\ q * c \in Nat
  BY Multiples
<1>2. PICK p \in Nat : p = (q + 1) * c
  BY <1>1
<1>3. p < ((q + 1) + 1) * c
  <2>1. ((q + 1) + 1) * c = (q + 1) * c + c
    BY Multiples
  <2> QED BY <1>2, <2>1
<1>4. p \div c = q + 1
  BY <1>2, <1>3, DivisionIsUnique
<1> QED BY <1>1, <1>2, <1>4

\* Reserve takes a chunk, or sends the data of a circuit not sent before.
LEMMA ReserveKeepsProducer ==
  ASSUME ProducerInv, free_allocators \in Nat, Reserve
  PROVE  /\ ProducerInv' /\ free_allocators' \in Nat /\ \A k : Issued(k) => Issued(k)'
         /\ \/ /\ UNCHANGED results
               /\ free_allocators' + SumFunction(chunks') = free_allocators + SumFunction(chunks)
            \/ \E m \in TracingMessages :
                 /\ Send(m) /\ ~Issued(m.key) /\ Issued(m.key)'
                 /\ free_allocators' + SumFunction(chunks') + m.chunks
                      = free_allocators + SumFunction(chunks)
<1>0. PICK t \in Families, p \in Nat, n \in Nat \ {0}, indexes \in SUBSET Nat :
             Reserves(t, p, n, indexes)
  BY ReserveEffect
<1>1. /\ produced' = [produced EXCEPT ![t] = p]
      /\ produced[t] < p /\ p <= Rows(t, snapshot_index)
      /\ free_allocators' \in Nat /\ free_allocators' + n = free_allocators + chunks[t]
      /\ room' \in [Families -> Nat]
      /\ indexes = participating[t] \cup {snapshot_index}
      /\ \/ /\ p = (At(t) + 1) * CyclesPerCircuit[t]
            /\ Send(TracingData(<<t, At(t)>>, n, indexes))
            /\ chunks' = [chunks EXCEPT ![t] = 0]
            /\ participating' = [participating EXCEPT ![t] = {}]
         \/ /\ p < (At(t) + 1) * CyclesPerCircuit[t]
            /\ UNCHANGED results
            /\ chunks' = [chunks EXCEPT ![t] = n]
            /\ participating' = [participating EXCEPT ![t] = indexes]
  BY <1>0 DEF Reserves
<1>2. PICK c \in Nat \ {0} : c = CyclesPerCircuit[t]
  BY RunShape
<1>3. PICK a \in Nat : a = produced[t]
  BY DEF ProducerInv
<1>4. PICK q \in Nat : q = a \div c
  BY Division
<1>5. At(t) = q /\ q * c <= a /\ a < (q + 1) * c /\ q * c \in Nat
  <2>1. (a \div c) * c <= a /\ a < (a \div c + 1) * c /\ (a \div c) * c \in Nat
    BY Division
  <2> QED BY <1>2, <1>3, <1>4, <2>1 DEF At
<1>6. /\ simulator = "trace" /\ simulator' = "trace"
      /\ UNCHANGED <<snapshot_index, inits_index, inits_chunks>>
  BY DEF Reserve
<1>7. PICK old, new : old = chunks /\ new = chunks'
  OBVIOUS
<1>8. /\ old \in [Families -> Nat] /\ produced \in [Families -> Nat]
      /\ participating \in [Families -> SUBSET Nat]
  BY <1>7 DEF ProducerInv
<1>9. /\ old[t] # 0 => q * c < a
      /\ old[t] = 0 => q * c = a
  BY <1>2, <1>3, <1>5, <1>6, <1>7 DEF ProducerInv, Producing
<1>10. PICK n1 \in Nat : new = [old EXCEPT ![t] = n1] /\ n1 = new[t]
  BY <1>1, <1>7, <1>8
<1>11. /\ \A s \in Families : s # t =>
            new[s] = old[s] /\ produced'[s] = produced[s] /\ At(s)' = At(s)
       /\ produced'[t] = p
       /\ produced' \in [Families -> Nat] /\ new \in [Families -> Nat]
       /\ participating' \in [Families -> SUBSET Nat]
  BY <1>1, <1>8, <1>10 DEF At
<1>12. SumFunction(new) = SumFunction(old) - old[t] + n1 /\ SumFunction(old) \in Int /\ old[t] \in Nat
  <2>1. old \in [Families -> Int] /\ n1 \in Int /\ IsFiniteSet(Families)
    BY <1>8, FamiliesFinite
  <2>2. SumFunction([old EXCEPT ![t] = n1]) = SumFunction(old) - old[t] + n1
    BY <2>1, SumExcept
  <2>3. SumFunction(old) \in Int
    BY <1>8, FamilySum
  <2> QED BY <1>8, <1>10, <2>2, <2>3
<1>13. At(t)' = p \div c
  BY <1>2, <1>11 DEF At
<1>14. a < p
  BY <1>1, <1>3
<1>15. /\ n1 # 0 => p \div c = q /\ q * c < p
       /\ n1 = 0 => p \div c = q + 1 /\ (q + 1) * c = p /\ q * c < p
  <2>1. CASE n1 = 0
    <3>1. p = (q + 1) * c
      BY <1>1, <1>2, <1>5, <1>7, <1>8, <1>10, <2>1
    <3> QED BY <2>1, <3>1, FillsCircuit
  <2>2. CASE n1 # 0
    <3>1. p < (q + 1) * c
      BY <1>1, <1>2, <1>5, <1>7, <1>8, <1>10, <2>2
    <3>2. p < (a \div c + 1) * c
      BY <1>4, <3>1
    <3>3. p \div c = a \div c /\ (a \div c) * c < p
      BY <1>14, <3>2, GrowsWithinCircuit
    <3> QED BY <1>4, <2>2, <3>3
  <2> QED BY <2>1, <2>2
<1>16. ProducerInv'
  <2>1. \A s \in Families : produced'[s] <= Rows(s, snapshot_index)
    BY <1>1, <1>6, <1>11 DEF ProducerInv, Producing
  <2>2. ASSUME NEW s \in Families
        PROVE  /\ new[s] # 0 => At(s)' * CyclesPerCircuit[s] < produced'[s]
               /\ new[s] = 0 => At(s)' * CyclesPerCircuit[s] = produced'[s]
    <3>1. CASE s = t
      <4>1. n1 # 0 => At(t)' * c < p
        BY <1>13, <1>15
      <4>2. n1 = 0 => At(t)' * c = p
        BY <1>13, <1>15
      <4> QED BY <1>2, <1>10, <1>11, <3>1, <4>1, <4>2
    <3>2. CASE s # t
      BY <1>6, <1>7, <1>11, <3>2 DEF ProducerInv, Producing
    <3> QED BY <3>1, <3>2
  <2>3. snapshot_index \in 0..Len(Run) /\ inits_index \in Nat /\ inits_chunks \in Nat
        /\ inits_chunks = 0 /\ inits_index = 0
    BY <1>6 DEF ProducerInv
  <2> QED BY <1>1, <1>6, <1>7, <1>11, <2>1, <2>2, <2>3 DEF ProducerInv, Producing
<1>17. ASSUME NEW k, Issued(k)
       PROVE  Issued(k)'
  <2>1. CASE k \in Families \X Nat /\ k[1] = t
    <3>1. PICK j \in Nat : j = k[2] /\ j * c < a /\ (old[t] # 0 => j # q)
      BY <1>2, <1>3, <1>5, <1>7, <1>17, <2>1, InitsCircuitKind DEF Issued
    <3>2. j # q
      BY <1>9, <3>1
    <3>3. j * c < p
      <4>1. PICK x \in Nat : x = j * c
        BY <3>1
      <4> QED BY <1>14, <3>1, <4>1
    <3>4. k[2] * CyclesPerCircuit[k[1]] < produced'[k[1]]
      BY <1>2, <1>11, <2>1, <3>1, <3>3
    <3>5. chunks'[k[1]] # 0 => k[2] # At(k[1])'
      BY <1>7, <1>10, <1>13, <1>15, <2>1, <3>1, <3>2
    <3> QED BY <2>1, <3>4, <3>5 DEF Issued
  <2>2. CASE k \in Families \X Nat /\ k[1] # t
    BY <1>6, <1>7, <1>11, <1>17, <2>2 DEF Issued
  <2>3. CASE k \notin Families \X Nat
    BY <1>6, <1>17, <2>3 DEF Issued
  <2> QED BY <2>1, <2>2, <2>3
<1>18. CASE n1 # 0
  <2>1. UNCHANGED results /\ n1 = n
    BY <1>1, <1>7, <1>8, <1>10, <1>18
  <2>2. free_allocators' + SumFunction(new) = free_allocators + SumFunction(old)
    <3>1. free_allocators' + n = free_allocators + old[t] /\ free_allocators' \in Nat
      BY <1>1, <1>7
    <3> QED BY <1>12, <2>1, <3>1
  <2> QED BY <1>1, <1>7, <1>16, <1>17, <2>1, <2>2
<1>19. CASE n1 = 0
  <2>1. PICK m : m = TracingData(<<t, At(t)>>, n, indexes)
    OBVIOUS
  <2>2. Send(m)
    BY <1>1, <1>7, <1>8, <1>10, <1>19, <2>1
  <2>3. m \in TracingMessages /\ m.key = <<t, q>> /\ m.chunks = n
    BY <1>5, <2>1 DEF TracingData, TracingMessages
  <2>4. ~Issued(m.key)
    <3>1. m.key[1] # InitsCircuit \/ Unified
      BY <2>3, InitsCircuitKind
    <3>2. q * c < a => old[t] # 0
      BY <1>9
    <3> QED BY <1>2, <1>3, <1>5, <1>7, <2>3, <3>1, <3>2 DEF Issued
  <2>5. Issued(m.key)'
    <3>1. q * c < p
      BY <1>15, <1>19
    <3>2. m.key \in Families \X Nat /\ m.key[1] = t /\ m.key[2] = q
      BY <2>3
    <3>3. m.key[2] * CyclesPerCircuit[m.key[1]] < produced'[m.key[1]]
      BY <1>2, <1>11, <3>1, <3>2
    <3>4. chunks'[m.key[1]] = 0
      BY <1>7, <1>10, <1>19, <3>2
    <3> QED BY <3>2, <3>3, <3>4 DEF Issued
  <2>6. free_allocators' + SumFunction(new) + m.chunks = free_allocators + SumFunction(old)
    <3>1. free_allocators' + n = free_allocators + old[t] /\ free_allocators' \in Nat
      BY <1>1, <1>7
    <3> QED BY <1>12, <1>19, <2>3, <3>1
  <2> QED BY <1>1, <1>7, <1>16, <1>17, <2>2, <2>3, <2>4, <2>5, <2>6
<1> QED BY <1>18, <1>19

\* A step of the simulator that sends nothing.
LEMMA QuietStep ==
  ASSUME DataInv, AllocatorsConserved, UNCHANGED clientVars, UNCHANGED results,
         UNCHANGED <<replayer, replaying>>, ProducerInv', free_allocators' \in Nat,
         inits_index <= inits_index', \A k : Issued(k) => Issued(k)',
         SimulatorOver => SimulatorOver',
         free_allocators' + inits_chunks' + SumFunction(chunks')
           = free_allocators + inits_chunks + SumFunction(chunks)
  PROVE  DataInv' /\ AllocatorsConserved'
<1>1. DataType'
  BY TaskKeepsType DEF DataInv, DataType
<1>2. inits_index \in Nat /\ inits_index' \in Nat
  BY DEF DataInv, ProducerInv
<1>3. KeyInv'
  BY <1>2, QuietKeepsKeys DEF DataInv
<1>4. InitsInv' /\ OrderInv' /\ ReportInv'
  BY QuietKeepsInits, QuietKeepsOrder, SimulatorKeepsReports DEF DataInv
<1>5. AllocatorsConserved'
  BY <1>1, SimulatorBalance DEF DataInv
<1> QED BY <1>1, <1>3, <1>4, <1>5 DEF DataInv

\* One that sends a message.
LEMMA SendStep ==
  ASSUME DataInv, AllocatorsConserved, UNCHANGED clientVars, NEW m \in Messages, Send(m),
         UNCHANGED <<replayer, replaying>>, ProducerInv', free_allocators' \in Nat,
         m.type \notin {"GpuWorkResult", "SnapshotReplayed"},
         inits_index <= inits_index', \A k : Issued(k) => Issued(k)',
         SimulatorOver => SimulatorOver',
         m.type \in FromSimulator => ~SimulatorOver,
         m.type = "SimulationResult" => SimulatorOver',
         m.type = "TracingData" => ~Issued(m.key) /\ Issued(m.key)',
         m.type = "InitsAndTeardownsData" =>
           /\ m.key = <<InitsCircuit, inits_index>> /\ inits_index' = inits_index + 1
           /\ m.chunks = 0 <=> m.key[2] < EmptyCircuits,
         free_allocators' + inits_chunks' + SumFunction(chunks') + ChunksIn(m)
           = free_allocators + inits_chunks + SumFunction(chunks)
  PROVE  DataInv' /\ AllocatorsConserved'
<1>1. results' \in Seq(Messages) /\ ChunksOnTheWay(results') = ChunksOnTheWay(results) + ChunksIn(m)
  BY SendKeepsType DEF DataInv
<1>2. DataType'
  BY <1>1, TaskKeepsType DEF DataInv
<1>3. inits_index \in Nat /\ inits_index' \in Nat
  BY DEF DataInv, ProducerInv
<1>4. KeyInv'
  BY <1>3, SendKeepsKeys DEF DataInv
<1>5. InitsInv' /\ OrderInv'
  BY SendKeepsInits, SendKeepsOrder DEF DataInv
<1>6. ReportInv'
  BY SimulatorKeepsReports DEF DataInv
<1>7. free_allocators' + inits_chunks' + SumFunction(chunks') + ChunksOnTheWay(results')
        = free_allocators + inits_chunks + SumFunction(chunks) + ChunksOnTheWay(results)
  <2>1. /\ ChunksIn(m) \in Nat /\ ChunksOnTheWay(results) \in Nat
        /\ SumFunction(chunks) \in Nat /\ SumFunction(chunks') \in Nat
        /\ free_allocators \in Nat /\ inits_chunks \in Nat /\ inits_chunks' \in Nat
    BY ChunksInMessages, WayType, FamilySum DEF DataInv, ProducerInv, DataType
  <2>2. PICK u, v, w, x \in Nat : /\ u = SumFunction(chunks) /\ v = SumFunction(chunks')
                                 /\ w = ChunksOnTheWay(results) /\ x = ChunksIn(m)
    BY <2>1
  <2>3. PICK a, b, c, d \in Nat : /\ a = free_allocators /\ b = free_allocators'
                                 /\ c = inits_chunks /\ d = inits_chunks'
    BY <2>1
  <2>4. b + d + v + x = a + c + u
    BY ONLY <2>2, <2>3, free_allocators' + inits_chunks' + SumFunction(chunks') + ChunksIn(m)
                          = free_allocators + inits_chunks + SumFunction(chunks)
  <2>5. b + d + v + (w + x) = a + c + u + w
    BY ONLY <2>2, <2>3, <2>4
  <2> QED BY ONLY <1>1, <2>2, <2>3, <2>5
<1>8. AllocatorsConserved'
  BY <1>2, <1>7, SimulatorBalance DEF DataInv
<1> QED BY <1>2, <1>4, <1>5, <1>6, <1>8 DEF DataInv

\* Without a new row or chunk nothing else is issued.
LEMMA SameIssued ==
  ASSUME ProducerInv, UNCHANGED <<produced, chunks, inits_index>>
  PROVE  /\ \A k : Issued(k) => Issued(k)'
         /\ inits_index <= inits_index' /\ inits_index' \in Nat
  BY DEF Issued, At, ProducerInv

\* Words and chunks of a partition of the memory.
LEMMA CeilDivType ==
  ASSUME NEW a \in Nat, NEW b \in Nat \ {0}
  PROVE  CeilDiv(a, b) \in Nat /\ (a > 0 => CeilDiv(a, b) > 0 /\ (CeilDiv(a, b) - 1) * b < a)
<1>1. PICK p \in Nat : p = a + b - 1
  OBVIOUS
<1>2. PICK q \in Nat : q = p \div b
  BY Division
<1>3. q * b <= p /\ p < (q + 1) * b /\ q * b \in Nat /\ (q + 1) * b = q * b + b
  <2>1. (p \div b) * b <= p /\ p < (p \div b + 1) * b
    BY Division
  <2> QED BY <1>2, <2>1, Multiples
<1>4. CeilDiv(a, b) = q
  BY <1>1, <1>2 DEF CeilDiv
<1>5. ASSUME a > 0 PROVE q > 0 /\ (q - 1) * b < a
  <2>1. q # 0
    <3> SUFFICES ASSUME q = 0 PROVE FALSE
      OBVIOUS
    <3>1. q * b = 0
      OBVIOUS
    <3> QED BY <1>1, <1>3, <1>5, <3>1
  <2>2. (q - 1) * b = q * b - b
    <3>1. PICK r \in Nat : r = q - 1 /\ q = r + 1
      BY <2>1
    <3>2. (r + 1) * b = r * b + b /\ r * b \in Nat
      BY Multiples
    <3> QED BY <3>1, <3>2
  <2> QED BY <1>1, <1>3, <2>1, <2>2
<1> QED BY <1>4, <1>5

\* The numbers of empty circuits and of partitions are numbers.
LEMMA EmptyType == EmptyCircuits \in Nat /\ Partitions \in Nat
<1>1. Partitions \in Nat
  BY SizesAssumption, CeilDivType DEF Partitions
<1>2. Unified => Rows("Unified", Len(Run)) \in Nat
  <2>1. Len(Run) \in 0..Len(Run)
    BY RunShape
  <2> QED BY <2>1, RowsType, InitsCircuitKind
<1>3. ASSUME Unified PROVE (Rows("Unified", Len(Run)) - TouchedWords) \div PartitionSize \in Nat
  <2>1. PICK d \in Nat : d = Rows("Unified", Len(Run)) - TouchedWords
    BY <1>2, <1>3, TouchedWordsAssumption, SizesAssumption
  <2> QED BY <2>1, SizesAssumption, Division
<1> QED BY <1>1, <1>3 DEF EmptyCircuits

\* Every partition takes a chunk.
LEMMA PartitionsNeedChunks ==
  ASSUME inits_index \in EmptyCircuits..(EmptyCircuits + Partitions - 1)
  PROVE  NeededChunks \in Nat \ {0}
<1>1. PICK q \in Nat : q = inits_index - EmptyCircuits
  BY EmptyType
<1>2. Partitions > 0
  BY EmptyType
<1>3. TouchedWords > 0
  <2> SUFFICES ASSUME TouchedWords = 0 PROVE FALSE
    BY SizesAssumption
  <2>1. PICK b \in Nat \ {0} : b = PartitionSize
    BY SizesAssumption
  <2>2. (0 + b - 1) \div b = 0
    <3>1. b - 1 \in Nat /\ 0 * b <= b - 1 /\ b - 1 < (0 + 1) * b
      OBVIOUS
    <3>2. (b - 1) \div b = 0
      BY <3>1, DivisionIsUnique
    <3> QED BY <3>2
  <2>3. CeilDiv(TouchedWords, PartitionSize) = 0
    BY <2>1, <2>2 DEF CeilDiv
  <2> QED BY <1>2, <2>3 DEF Partitions
<1>4. (Partitions - 1) * PartitionSize < TouchedWords
  BY <1>3, SizesAssumption, CeilDivType DEF Partitions
<1>5. PICK w : w = PartitionWords(q)
  OBVIOUS
<1>6. w \in Nat /\ w > 0
  <2>1. PICK x : x = (Partitions - 1) * PartitionSize
    OBVIOUS
  <2>2. x \in Int
    BY <2>1, EmptyType, SizesAssumption
  <2>3. x < TouchedWords /\ TouchedWords \in Nat
    BY <1>4, <2>1, SizesAssumption
  <2>4. TouchedWords - x \in Nat \ {0}
    BY <2>2, <2>3
  <2>5. w \in {TouchedWords - x, PartitionSize}
    BY <1>5, <2>1 DEF PartitionWords
  <2> QED BY <2>4, <2>5, SizesAssumption
<1>7. CeilDiv(w, ChunkCapacity) \in Nat /\ CeilDiv(w, ChunkCapacity) > 0
  BY <1>6, SizesAssumption, CeilDivType
<1> QED BY <1>1, <1>5, <1>7 DEF NeededChunks

\* TracingDataProducer::process_snapshot keeps the invariant and the balance.
LEMMA ReserveKeeps ==
  ASSUME DataInv, AllocatorsConserved, UNCHANGED clientVars, Reserve
  PROVE  DataInv' /\ AllocatorsConserved'
<1>1. ProducerInv /\ free_allocators \in Nat
  BY DEF DataInv, DataType
<1>2. /\ ProducerInv' /\ free_allocators' \in Nat /\ \A k : Issued(k) => Issued(k)'
      /\ \/ /\ UNCHANGED results
            /\ free_allocators' + SumFunction(chunks') = free_allocators + SumFunction(chunks)
         \/ \E m \in TracingMessages :
              /\ Send(m) /\ ~Issued(m.key) /\ Issued(m.key)'
              /\ free_allocators' + SumFunction(chunks') + m.chunks
                   = free_allocators + SumFunction(chunks)
  BY <1>1, ReserveKeepsProducer
<1>3. /\ UNCHANGED <<replayer, replaying, inits_index, inits_chunks, simulator>>
      /\ simulator = "trace" /\ inits_chunks = 0 /\ inits_chunks' = 0 /\ inits_index \in Nat
  BY <1>1 DEF Reserve, replayerVars, ProducerInv
<1>4. /\ ~SimulatorOver /\ ~SimulatorOver' /\ inits_index <= inits_index'
      /\ SumFunction(chunks) \in Nat /\ SumFunction(chunks') \in Nat
  BY <1>1, <1>2, <1>3, FamilySum DEF SimulatorOver, ProducerInv
<1>5. CASE UNCHANGED results
           /\ free_allocators' + SumFunction(chunks') = free_allocators + SumFunction(chunks)
  <2>1. free_allocators' + inits_chunks' + SumFunction(chunks')
           = free_allocators + inits_chunks + SumFunction(chunks)
    BY <1>1, <1>2, <1>3, <1>4, <1>5
  <2> HIDE DEF DataInv
  <2> QED BY <1>2, <1>3, <1>4, <1>5, <2>1, QuietStep
<1>6. ASSUME NEW m \in TracingMessages, Send(m), ~Issued(m.key), Issued(m.key)',
             free_allocators' + SumFunction(chunks') + m.chunks
                   = free_allocators + SumFunction(chunks)
      PROVE  DataInv' /\ AllocatorsConserved'
  <2>1. m \in Messages /\ m.type = "TracingData" /\ m.chunks \in Nat
    BY DEF Messages, TracingMessages
  <2>2. ChunksIn(m) = m.chunks
    BY <2>1, ChunksInMessages
  <2>3. free_allocators' + inits_chunks' + SumFunction(chunks') + ChunksIn(m)
           = free_allocators + inits_chunks + SumFunction(chunks)
    BY <1>1, <1>2, <1>3, <1>4, <1>6, <2>1, <2>2
  <2> QED BY <1>2, <1>3, <1>4, <1>6, <2>1, <2>3, SendStep DEF FromSimulator
<1> QED BY <1>2, <1>5, <1>6

\* The producer of an incomplete circuit is finalized.
LEMMA FinalizeKeeps ==
  ASSUME DataInv, AllocatorsConserved, UNCHANGED clientVars, FinalizeProducer
  PROVE  DataInv' /\ AllocatorsConserved'
<1>1. ProducerInv /\ free_allocators \in Nat
  BY DEF DataInv, DataType
<1>2. PICK t : t = Types[Min(Partial)]
  OBVIOUS
<1>3. t \in Families /\ chunks[t] > 0
  <2>1. Partial \subseteq DOMAIN Types /\ Partial # {}
    BY DEF Partial, FinalizeProducer
  <2> QED BY <1>2, <2>1, ChosenType DEF Partial
<1>4. PICK old : old = chunks
  OBVIOUS
<1>5. /\ old \in [Families -> Nat] /\ room \in [Families -> Nat]
      /\ participating \in [Families -> SUBSET Nat] /\ produced \in [Families -> Nat]
      /\ inits_index \in Nat
  BY <1>1, <1>4 DEF ProducerInv
<1>6. PICK n \in Nat \ {0} : n = old[t]
  BY <1>3, <1>4, <1>5
<1>7. PICK indexes \in SUBSET Nat : indexes = participating[t]
  BY <1>3, <1>5
<1>8. PICK q \in Nat : q = At(t)
  BY <1>3, <1>5, RunShape, Division DEF At
<1>9. PICK m : m = TracingData(<<t, q>>, n, indexes)
  OBVIOUS
<1>10. /\ Send(m) /\ chunks' = [old EXCEPT ![t] = 0] /\ room' = [room EXCEPT ![t] = 0]
       /\ participating' = [participating EXCEPT ![t] = {}]
       /\ simulator = "finalize" /\ simulator' = "finalize"
       /\ UNCHANGED <<free_allocators, snapshot_index, produced, inits_index, inits_chunks,
                      replayer, replaying>>
  BY <1>2, <1>4, <1>6, <1>7, <1>8, <1>9 DEF FinalizeProducer, At, sharedVars, replayerVars
<1>11. m \in TracingMessages /\ m \in Messages /\ m.type = "TracingData" /\ m.key = <<t, q>> /\ m.chunks = n
  BY <1>3, <1>9 DEF TracingData, TracingMessages, Messages
<1>12. /\ chunks' \in [Families -> Nat] /\ chunks'[t] = 0
       /\ \A s \in Families : s # t => chunks'[s] = old[s]
       /\ \A s : At(s)' = At(s)
  BY <1>3, <1>5, <1>10 DEF At
<1>13. ProducerInv'
  <2>1. room' \in [Families -> Nat] /\ participating' \in [Families -> SUBSET Nat]
    BY <1>5, <1>10
  <2> QED BY <1>1, <1>4, <1>10, <1>12, <2>1 DEF ProducerInv, Producing
<1>14. \A k : Issued(k) => Issued(k)'
  BY <1>3, <1>4, <1>10, <1>12 DEF Issued
<1>15. ~Issued(m.key)
  <2>1. m.key[1] # InitsCircuit \/ Unified
    BY <1>3, <1>11, InitsCircuitKind
  <2> QED BY <1>3, <1>4, <1>8, <1>11, <2>1 DEF Issued
<1>16. Issued(m.key)'
  <2>1. q * CyclesPerCircuit[t] < produced[t]
    BY <1>1, <1>3, <1>8, <1>10 DEF ProducerInv
  <2>2. m.key \in Families \X Nat /\ m.key[1] = t /\ m.key[2] = q
    BY <1>3, <1>11
  <2> QED BY <1>10, <1>12, <2>1, <2>2 DEF Issued
<1>17. SumFunction(chunks') = SumFunction(old) - n /\ SumFunction(old) \in Int
  <2>1. old \in [Families -> Int] /\ IsFiniteSet(Families) /\ 0 \in Int
    BY <1>5, FamiliesFinite
  <2>2. SumFunction([old EXCEPT ![t] = 0]) = SumFunction(old) - old[t] + 0
    BY <1>3, <2>1, SumExcept
  <2>3. SumFunction(old) \in Int
    BY <1>5, FamilySum
  <2>4. SumFunction(chunks') = SumFunction(old) - n + 0
    BY <1>6, <1>10, <2>2
  <2> QED BY <2>3, <2>4
<1>18. ChunksIn(m) = n
  BY <1>11, ChunksInMessages
<1>19. inits_chunks \in Nat
  BY <1>1 DEF ProducerInv
<1>20. free_allocators' + inits_chunks' + SumFunction(chunks') + ChunksIn(m)
           = free_allocators + inits_chunks + SumFunction(chunks)
  BY <1>1, <1>4, <1>10, <1>17, <1>18, <1>19
<1>21. ~SimulatorOver /\ inits_index <= inits_index' /\ free_allocators' \in Nat
  BY <1>1, <1>5, <1>10 DEF SimulatorOver
<1> QED BY <1>10, <1>11, <1>13, <1>14, <1>15, <1>16, <1>20, <1>21, SendStep DEF FromSimulator

\* Steps that move on with the same producers.
LEMMA MoveKeeps ==
  ASSUME DataInv, AllocatorsConserved, UNCHANGED clientVars, UNCHANGED <<replayer, replaying>>,
         UNCHANGED <<free_allocators, produced, chunks, inits_index, inits_chunks>>,
         ProducerInv', SimulatorOver => SimulatorOver',
         \/ UNCHANGED results
         \/ Send(SnapshotProduced)
         \/ Send(SimulationResult) /\ ~SimulatorOver /\ SimulatorOver'
  PROVE  DataInv' /\ AllocatorsConserved'
<1>1. ProducerInv /\ free_allocators \in Nat /\ free_allocators' \in Nat
  BY DEF DataInv, DataType
<1>2. /\ \A k : Issued(k) => Issued(k)'
      /\ inits_index <= inits_index'
  BY <1>1, SameIssued
<1>3. free_allocators' + inits_chunks' + SumFunction(chunks')
           = free_allocators + inits_chunks + SumFunction(chunks)
  OBVIOUS
<1>4. CASE UNCHANGED results
  BY <1>1, <1>2, <1>3, <1>4, QuietStep
<1>5. /\ SnapshotProduced \in Messages /\ SnapshotProduced.type = "SnapshotProduced"
      /\ SimulationResult \in Messages /\ SimulationResult.type = "SimulationResult"
  BY DEF SnapshotProduced, SimulationResult, Messages, Notices
<1>6. ASSUME NEW m \in Messages, Send(m), m.type \in {"SnapshotProduced", "SimulationResult"},
             m.type = "SimulationResult" => ~SimulatorOver /\ SimulatorOver'
      PROVE  DataInv' /\ AllocatorsConserved'
  <2>1. ChunksIn(m) = 0
    BY <1>6, ChunksInMessages
  <2>2. free_allocators' + inits_chunks' + SumFunction(chunks') + ChunksIn(m)
           = free_allocators + inits_chunks + SumFunction(chunks)
    <3>1. inits_chunks \in Nat /\ SumFunction(chunks) \in Nat
      BY <1>1, FamilySum DEF ProducerInv
    <3> QED BY <1>1, <2>1, <3>1
  <2> QED BY <1>1, <1>2, <1>6, <2>2, SendStep DEF FromSimulator
<1> QED BY <1>4, <1>5, <1>6

\* The simulator takes an allocator for the initial memory.
LEMMA FillKeeps ==
  ASSUME DataInv, AllocatorsConserved, UNCHANGED clientVars, FillInitsChunk
  PROVE  DataInv' /\ AllocatorsConserved'
<1>1. ProducerInv /\ free_allocators \in Nat /\ inits_chunks \in Nat
  BY DEF DataInv, DataType, ProducerInv
<1>2. /\ simulator = "inits" /\ free_allocators > 0
      /\ inits_index \in EmptyCircuits..(EmptyCircuits + Partitions - 1)
      /\ free_allocators' = free_allocators - 1 /\ inits_chunks' = inits_chunks + 1
      /\ UNCHANGED <<results, simulator, produced, chunks, room, participating, inits_index,
                     replayer, replaying, snapshot_index>>
  BY DEF FillInitsChunk, producerVars, replayerVars
<1>3. ProducerInv'
  <2>1. \A t : At(t)' = At(t)
    BY <1>2 DEF At
  <2>2. inits_chunks' \in Nat
    BY <1>1, <1>2
  <2> QED BY <1>1, <1>2, <2>1, <2>2 DEF ProducerInv, Producing
<1>4. free_allocators' + inits_chunks' + SumFunction(chunks')
           = free_allocators + inits_chunks + SumFunction(chunks)
  <2>1. SumFunction(chunks) \in Nat
    BY <1>1, FamilySum DEF ProducerInv
  <2> QED BY <1>1, <1>2, <2>1
<1>5. free_allocators' \in Nat
  BY <1>1, <1>2
<1>6. /\ \A k : Issued(k) => Issued(k)'
      /\ inits_index <= inits_index'
  BY <1>1, <1>2, SameIssued
<1>7. ~SimulatorOver
  BY <1>2 DEF SimulatorOver
<1> QED BY <1>2, <1>3, <1>4, <1>5, <1>6, <1>7, QuietStep

\* The next inits and teardowns are sent: empty ones first.
LEMMA SendInitsKeeps ==
  ASSUME DataInv, AllocatorsConserved, UNCHANGED clientVars, SendEmptyInits \/ SendInits
  PROVE  DataInv' /\ AllocatorsConserved'
<1>1. ProducerInv /\ free_allocators \in Nat /\ inits_chunks \in Nat /\ inits_index \in Nat
  BY DEF DataInv, DataType, ProducerInv
<1>2. PICK m : m = InitsAndTeardownsData(inits_index, inits_chunks)
  OBVIOUS
<1>3. /\ simulator = "inits" /\ inits_index' = inits_index + 1 /\ inits_chunks' = 0
      /\ UNCHANGED <<simulator, produced, chunks, room, participating, free_allocators,
                     replayer, replaying, snapshot_index>>
      /\ Send(m) /\ inits_index < EmptyCircuits + Partitions
      /\ inits_chunks = 0 <=> inits_index < EmptyCircuits
  <2>1. CASE SendEmptyInits
    <3>1. /\ simulator = "inits" /\ inits_index' = inits_index + 1 /\ inits_index < EmptyCircuits
          /\ UNCHANGED <<simulator, produced, chunks, room, participating, free_allocators,
                         inits_chunks, replayer, replaying, snapshot_index>>
          /\ Send(InitsAndTeardownsData(inits_index, 0))
      BY <2>1 DEF SendEmptyInits, sharedVars, producerVars, replayerVars
    <3>2. inits_chunks = 0
      <4>1. inits_index \notin EmptyCircuits..(EmptyCircuits + Partitions - 1)
        BY <1>1, <3>1, EmptyType
      <4> QED BY <1>1, <4>1 DEF ProducerInv
    <3>3. inits_index < EmptyCircuits + Partitions
      BY <1>1, <3>1, EmptyType
    <3> QED BY <1>2, <3>1, <3>2, <3>3
  <2>2. CASE SendInits
    <3>1. /\ simulator = "inits" /\ inits_index' = inits_index + 1
          /\ inits_index \in EmptyCircuits..(EmptyCircuits + Partitions - 1)
          /\ inits_chunks' = 0 /\ inits_chunks = NeededChunks
          /\ UNCHANGED <<simulator, produced, chunks, room, participating, free_allocators,
                         replayer, replaying, snapshot_index>>
          /\ Send(m)
      BY <1>2, <2>2 DEF SendInits, sharedVars, producerVars, replayerVars
    <3>2. inits_chunks # 0
      BY <3>1, PartitionsNeedChunks
    <3>3. inits_index < EmptyCircuits + Partitions /\ ~(inits_index < EmptyCircuits)
      BY <1>1, <3>1, EmptyType
    <3> QED BY <3>1, <3>2, <3>3
  <2> QED BY <2>1, <2>2
<1>4. /\ m \in Messages /\ m.type = "InitsAndTeardownsData" /\ m.chunks = inits_chunks
      /\ m.key = <<InitsCircuit, inits_index>> /\ m.key[2] = inits_index
  BY <1>1, <1>2 DEF InitsAndTeardownsData, InitsMessages, Messages
<1>5. inits_index' \in Nat /\ inits_index <= inits_index' /\ inits_index' <= EmptyCircuits + Partitions
  BY <1>1, <1>3, EmptyType
<1>6. ProducerInv'
  <2>1. \A t : At(t)' = At(t)
    BY <1>3 DEF At
  <2> QED BY <1>1, <1>3, <1>5, <2>1 DEF ProducerInv, Producing
<1>7. \A k : Issued(k) => Issued(k)'
  <2> SUFFICES ASSUME NEW k, Issued(k) PROVE Issued(k)'
    OBVIOUS
  <2>1. CASE /\ k \in Families \X Nat
             /\ k[2] * CyclesPerCircuit[k[1]] < produced[k[1]]
             /\ chunks[k[1]] # 0 => k[2] # At(k[1])
    BY <1>3, <2>1 DEF Issued, At
  <2>2. CASE ~Unified /\ k \in {InitsCircuit} \X Nat /\ k[2] < inits_index
    <3>1. k[2] < inits_index'
      BY <1>1, <1>5, <2>2
    <3> QED BY <2>2, <3>1 DEF Issued
  <2> QED BY <2>1, <2>2 DEF Issued
<1>8. ChunksIn(m) = inits_chunks
  BY <1>4, ChunksInMessages
<1>9. free_allocators' + inits_chunks' + SumFunction(chunks') + ChunksIn(m)
           = free_allocators + inits_chunks + SumFunction(chunks)
  <2>1. SumFunction(chunks) \in Nat
    BY <1>1, FamilySum DEF ProducerInv
  <2> QED BY <1>1, <1>3, <1>8, <2>1
<1>10. ~SimulatorOver
  BY <1>3 DEF SimulatorOver
<1>11. free_allocators' \in Nat
  BY <1>1, <1>3
<1> QED BY <1>1, <1>3, <1>4, <1>5, <1>6, <1>7, <1>9, <1>10, <1>11, SendStep

\* Every step of the simulator.
LEMMA SimulatorKeepsData ==
  ASSUME StateInv, DataInv, AllocatorsConserved, Simulator, UNCHANGED clientVars
  PROVE  DataInv' /\ AllocatorsConserved'
<1>1. /\ ProducerInv /\ free_allocators \in Nat /\ inits_index \in Nat /\ inits_chunks \in Nat
      /\ snapshot_index \in 0..Len(Run)
  BY DEF DataInv, DataType, ProducerInv
<1>2. CASE ProcessTrace
  <2>1. /\ simulator = "run" /\ simulator' \in {"finalize", "trace"}
        /\ snapshot_index' = snapshot_index + 1
        /\ UNCHANGED <<free_allocators, produced, chunks, room, participating, inits_index,
                       inits_chunks, replayer, replaying>>
        /\ UNCHANGED results \/ Send(SnapshotProduced)
    BY <1>2 DEF ProcessTrace, sharedVars, producerVars, replayerVars
  <2>2. snapshot_index' \in 0..Len(Run) /\ snapshot_index <= snapshot_index'
    BY <1>1, <2>1, RunShape DEF ProducerInv
  <2>3. ASSUME NEW t \in Families PROVE produced'[t] <= Rows(t, snapshot_index')
    <3>1. produced[t] = Rows(t, snapshot_index)
      BY <1>1, <2>1 DEF ProducerInv
    <3>2. Rows(t, snapshot_index) <= Rows(t, snapshot_index')
      BY <1>1, <2>2, RowsGrow
    <3> QED BY <2>1, <3>1, <3>2
  <2>4. ProducerInv'
    <3>1. \A t : At(t)' = At(t)
      BY <2>1 DEF At
    <3> QED BY <1>1, <2>1, <2>2, <2>3, <3>1 DEF ProducerInv, Producing
  <2>5. ~SimulatorOver
    BY <2>1 DEF SimulatorOver
  <2> QED BY <2>1, <2>4, <2>5, MoveKeeps
<1>3. CASE Reserve
  BY <1>3, ReserveKeeps
<1>4. CASE SendSnapshot
  <2>1. /\ simulator = "trace" /\ simulator' \in {"finalize", "chunk"}
        /\ simulator' = "chunk" => snapshot_index # Len(Run)
        /\ Unfinished = {}
        /\ UNCHANGED <<results, free_allocators, produced, chunks, room, participating, inits_index,
                       inits_chunks, replayer, replaying, snapshot_index>>
    BY <1>4 DEF SendSnapshot, sharedVars, producerVars, replayerVars
  <2>2. snapshot_index # Len(Run) => snapshot_index < Len(Run)
    <3>1. PICK n \in Nat : n = Len(Run)
      BY RunShape
    <3>2. snapshot_index \in 0..n
      BY <1>1, <3>1
    <3> QED BY <3>1, <3>2
  <2>3. \A t \in Families : produced[t] = Rows(t, snapshot_index)
    BY <2>1 DEF Unfinished, Families, ToSet
  <2>4. ProducerInv'
    <3>1. \A t : At(t)' = At(t)
      BY <2>1 DEF At
    <3>2. \A t \in Families : produced[t] <= Rows(t, snapshot_index)
      BY <1>1, <2>1 DEF ProducerInv, Producing
    <3> QED BY <1>1, <2>1, <2>2, <2>3, <3>1, <3>2 DEF ProducerInv, Producing
  <2>5. ~SimulatorOver
    BY <2>1 DEF SimulatorOver
  <2> QED BY <2>1, <2>4, <2>5, MoveKeeps
<1>5. CASE ReceiveChunk \/ Finalized \/ FinishRun \/ DropSender
  <2>1. /\ UNCHANGED <<results, free_allocators, produced, chunks, room, participating, inits_index,
                       inits_chunks, replayer, replaying, snapshot_index>>
        /\ \/ simulator = "chunk" /\ simulator' = "run"
           \/ simulator = "finalize" /\ simulator' = "exit" /\ Partial = {}
           \/ simulator = "exit" /\ simulator' \in {"drop", "inits"}
           \/ simulator \in {"drop", "runner", "source"} /\ simulator' \in {"runner", "source", "done"}
    BY <1>5 DEF ReceiveChunk, Finalized, FinishRun, DropSender, sharedVars, producerVars, replayerVars
  <2>2. simulator' = "exit" => \A t \in Families : chunks[t] = 0
    <3> SUFFICES ASSUME simulator' = "exit", NEW t \in Families PROVE chunks[t] = 0
      OBVIOUS
    <3>1. Partial = {}
      BY <2>1
    <3>2. ~(chunks[t] > 0)
      BY <3>1 DEF Partial, Families, ToSet
    <3> QED BY <1>1, <3>2 DEF ProducerInv
  <2>3. ProducerInv'
    <3>1. \A t : At(t)' = At(t)
      BY <2>1 DEF At
    <3> QED BY <1>1, <2>1, <2>2, <3>1 DEF ProducerInv, Producing
  <2>5. SimulatorOver => SimulatorOver'
    BY <2>1 DEF SimulatorOver
  <2> QED BY <2>1, <2>3, <2>5, MoveKeeps
<1>6. CASE FinalizeProducer
  BY <1>6, FinalizeKeeps
<1>7. CASE SendSimulationResult
  <2>1. /\ simulator = "inits" /\ simulator' = "drop" /\ Send(SimulationResult)
        /\ inits_index = EmptyCircuits + Partitions
        /\ UNCHANGED <<free_allocators, produced, chunks, room, participating, inits_index,
                       inits_chunks, replayer, replaying, snapshot_index>>
    BY <1>7 DEF SendSimulationResult, sharedVars, producerVars, replayerVars
  <2>2. ~SimulatorOver /\ SimulatorOver'
    BY <2>1 DEF SimulatorOver
  <2>3. inits_chunks = 0
    <3>1. inits_index \notin EmptyCircuits..(EmptyCircuits + Partitions - 1)
      BY <1>1, <2>1, EmptyType
    <3> QED BY <1>1, <3>1 DEF ProducerInv
  <2>4. ProducerInv'
    <3>1. \A t : At(t)' = At(t)
      BY <2>1 DEF At
    <3> QED BY <1>1, <2>1, <2>3, <3>1 DEF ProducerInv, Producing
  <2> QED BY <2>1, <2>2, <2>4, MoveKeeps
<1>8. CASE FillInitsChunk
  BY <1>8, FillKeeps
<1>9. CASE SendEmptyInits \/ SendInits
  BY <1>9, SendInitsKeeps
<1> QED BY <1>2, <1>3, <1>4, <1>5, <1>6, <1>7, <1>8, <1>9 DEF Simulator

-----------------------------------------------------------------------------
(* A step of a replayer. *)

\* Replayers do not touch what the simulator has reserved ...
LEMMA ReplayerLeaves ==
  ASSUME NEW r \in Replayers, Replayer(r)
  PROVE  UNCHANGED <<free_allocators, simulator, snapshot_index, is_aborted, produced, chunks, room,
                     participating, inits_index, inits_chunks>>
  BY DEF Replayer, TakeSnapshot, FinishReplay, ReportSnapshot, FinishReplayer, sharedVars,
     simulatorVars, producerVars

\* ... so what it has sent is unchanged.
LEMMA SameProducer ==
  ASSUME ProducerInv, UNCHANGED <<simulator, snapshot_index, produced, chunks, room, participating,
                                  inits_index, inits_chunks>>
  PROVE  /\ ProducerInv' /\ \A k : Issued(k)' <=> Issued(k)
         /\ SimulatorOver' <=> SimulatorOver
<1>1. \A t : At(t)' = At(t)
  BY DEF At
<1> QED BY <1>1 DEF ProducerInv, Producing, Issued, SimulatorOver

\* A replay ends, and is reported once.
LEMMA ReplayerKeepsReports ==
  ASSUME Inv, ReportInv, DataType, NEW r \in Replayers, Replayer(r), UNCHANGED clientVars
  PROVE  ReportInv'
<1>0. /\ replayer \in [Replayers -> {"waiting", "replaying", "reporting", "done"}]
      /\ replaying \in [Replayers -> Nat] /\ processed' = processed /\ SnapshotInv
  BY ClientUnchanged DEF Inv, StateInv
<1>1. CASE TakeSnapshot(r) \/ FinishReplayer(r)
  <2>1. /\ UNCHANGED results /\ replayer[r] = "waiting"
        /\ \/ UNCHANGED <<replayer, replaying>>
           \/ replayer' = [replayer EXCEPT ![r] = "replaying"]
               /\ replaying' = [replaying EXCEPT ![r] = Head(snapshots)]
           \/ replayer' = [replayer EXCEPT ![r] = "done"] /\ UNCHANGED replaying
    BY <1>1 DEF TakeSnapshot, FinishReplayer
  <2>2. /\ \A s \in Replayers : s # r => replayer'[s] = replayer[s] /\ replaying'[s] = replaying[s]
        /\ replayer'[r] # "reporting"
    BY <1>0, <2>1
  <2>3. Busy("reporting")' = Busy("reporting") /\ r \notin Busy("reporting")
    BY <2>1, <2>2 DEF Busy
  <2>4. Reporting' = Reporting
    BY <2>2, <2>3 DEF Reporting, Busy
  <2> QED BY <1>0, <2>1, <2>2, <2>3, <2>4 DEF ReportInv, Busy
<1>2. CASE FinishReplay(r)
  <2>1. /\ UNCHANGED results /\ replayer[r] = "replaying" /\ UNCHANGED replaying
        /\ replayer' = [replayer EXCEPT ![r] = "reporting"]
    BY <1>2 DEF FinishReplay
  <2>2. Busy("reporting")' = Busy("reporting") \cup {r} /\ r \in Busy("replaying")
    BY <1>0, <2>1 DEF Busy
  <2>3. replaying[r] \in Live
    BY <2>1 DEF Live
  <2>4. replaying[r] \notin processed \cup IndexesIn(results) \cup Reporting
    BY <1>0, <2>3 DEF SnapshotInv, Replayed, Reported, IndexesIn, Reporting
  <2>5. Reporting' = Reporting \cup {replaying[r]}
    BY <2>1, <2>2 DEF Reporting
  <2>6. \A s \in Busy("reporting") : replaying[s] # replaying[r]
    BY <2>4 DEF Reporting
  <2>7. \A s, t \in Busy("reporting")' : s # t => replaying'[s] # replaying'[t]
    BY <2>1, <2>2, <2>6 DEF ReportInv
  <2> QED BY <1>0, <2>1, <2>4, <2>5, <2>7 DEF ReportInv, Apart
<1>3. CASE ReportSnapshot(r)
  <2>1. /\ replayer[r] = "reporting" /\ Send(SnapshotReplayed(replaying[r]))
        /\ replayer' = [replayer EXCEPT ![r] = "waiting"]
        /\ replaying' = [replaying EXCEPT ![r] = 0]
    BY <1>3 DEF ReportSnapshot
  <2>2. \A s \in Replayers : s # r => replayer'[s] = replayer[s] /\ replaying'[s] = replaying[s]
    BY <1>0, <2>1
  <2>3. Busy("reporting")' = Busy("reporting") \ {r} /\ r \in Busy("reporting")
    BY <1>0, <2>1, <2>2 DEF Busy
  <2>4. \A s \in Busy("reporting") : s # r => replaying'[s] = replaying[s] /\ replaying[s] # replaying[r]
    BY <2>2, <2>3 DEF ReportInv, Busy
  <2>5. replaying[r] \in Reporting /\ Reporting' = Reporting \ {replaying[r]}
    BY <2>3, <2>4 DEF Reporting
  <2>6. IndexesIn(results') = IndexesIn(results) \cup {replaying[r]}
    <3>1. PICK s, t, n, m : s = results /\ t = results' /\ n = Len(results) /\ m = SnapshotReplayed(replaying[r])
      OBVIOUS
    <3>2. m \in Messages /\ m.type = "SnapshotReplayed" /\ m.index = replaying[r]
      BY <1>0, <3>1 DEF SnapshotReplayed, Messages, Reports
    <3>3. t = Append(s, m) /\ s \in Seq(Messages)
      BY <2>1, <3>1 DEF Send, DataType
    <3>4. /\ DOMAIN t = DOMAIN s \cup {n + 1} /\ \A i \in DOMAIN s : t[i] = s[i]
          /\ t[n + 1] = m
      BY <3>1, <3>2, <3>3, Grown
    <3> QED BY <3>1, <3>2, <3>4 DEF IndexesIn
  <2>7. \A s, t \in Busy("reporting")' : s # t => replaying'[s] # replaying'[t]
    BY <2>3, <2>4 DEF ReportInv
  <2> QED BY <1>0, <2>5, <2>6, <2>7 DEF ReportInv, Apart
<1> QED BY <1>1, <1>2, <1>3 DEF Replayer

\* A step of a replayer keeps the invariant and the balance.
LEMMA ReplayerKeepsData ==
  ASSUME Inv, DataInv, AllocatorsConserved, NEW r \in Replayers, Replayer(r), UNCHANGED clientVars
  PROVE  DataInv' /\ AllocatorsConserved'
<1>1. DataType /\ ProducerInv /\ free_allocators \in Nat /\ StateInv /\ SnapshotInv
  BY DEF DataInv, DataType, Inv
<1>2. UNCHANGED <<free_allocators, simulator, snapshot_index, is_aborted, produced, chunks, room,
                  participating, inits_index, inits_chunks>>
  BY ReplayerLeaves
<1>3. /\ ProducerInv' /\ \A k : Issued(k)' <=> Issued(k)
      /\ SimulatorOver' <=> SimulatorOver
      /\ inits_index \in Nat /\ inits_index' \in Nat /\ inits_index <= inits_index'
  BY <1>1, <1>2, SameProducer DEF ProducerInv
<1>4. ReportInv'
  BY <1>1, ReplayerKeepsReports DEF DataInv
<1>5. CASE UNCHANGED results
  <2>1. DataType'
    BY <1>1, <1>2, <1>5, TaskKeepsType DEF DataType
  <2>2. KeyInv' /\ InitsInv' /\ OrderInv'
    BY <1>1, <1>3, <1>5, QuietKeepsKeys, QuietKeepsInits, QuietKeepsOrder DEF DataInv
  <2>3. free_allocators' + inits_chunks' + SumFunction(chunks') + ChunksOnTheWay(results')
          = free_allocators + inits_chunks + SumFunction(chunks) + ChunksOnTheWay(results)
    BY <1>2, <1>5
  <2>4. AllocatorsConserved'
    BY <1>1, <1>3, <2>1, <2>3, SimulatorBalance
  <2> QED BY <1>3, <1>4, <2>1, <2>2, <2>4 DEF DataInv
<1>6. CASE ReportSnapshot(r)
  <2>1. PICK m : m = SnapshotReplayed(replaying[r])
    OBVIOUS
  <2>2. replayer[r] = "reporting" /\ Send(m) /\ replaying[r] \in Nat
    BY <1>1, <1>6, <2>1 DEF ReportSnapshot, StateInv
  <2>3. m \in Messages /\ m.type = "SnapshotReplayed" /\ m.index = replaying[r]
    BY <2>1, <2>2 DEF SnapshotReplayed, Messages, Reports
  <2>4. m.index \notin IndexesIn(results)
    <3>1. replaying[r] \in Reporting
      BY <2>2 DEF Reporting, Busy
    <3> QED BY <2>3, <3>1 DEF DataInv, ReportInv, Apart
  <2>5. /\ results' \in Seq(Messages)
        /\ ChunksOnTheWay(results') = ChunksOnTheWay(results) + ChunksIn(m)
    BY <1>1, <2>2, <2>3, SendKeepsType
  <2>6. DataType'
    BY <1>1, <1>2, <2>5, TaskKeepsType
  <2>7. KeyInv'
    BY <1>1, <1>3, <2>2, <2>3, <2>4, SendKeepsKeys DEF DataInv
  <2>8. InitsInv'
    BY <1>1, <2>2, <2>3, SendKeepsInits DEF DataInv
  <2>9. OrderInv'
    BY <1>1, <1>3, <2>2, <2>3, SendKeepsOrder DEF DataInv, FromSimulator
  <2>10. ChunksIn(m) = 0
    BY <2>3, ChunksInMessages
  <2>11. free_allocators' + inits_chunks' + SumFunction(chunks') + ChunksOnTheWay(results')
          = free_allocators + inits_chunks + SumFunction(chunks) + ChunksOnTheWay(results)
    <3>1. ChunksOnTheWay(results) \in Nat
      BY <1>1, WayType DEF DataType
    <3>2. ChunksOnTheWay(results') = ChunksOnTheWay(results)
      BY <2>5, <2>10, <3>1
    <3> QED BY <1>2, <3>2
  <2>12. AllocatorsConserved'
    BY <1>1, <1>3, <2>6, <2>11, SimulatorBalance
  <2> QED BY <1>3, <1>4, <2>6, <2>7, <2>8, <2>9, <2>12 DEF DataInv
<1> QED BY <1>5, <1>6 DEF Replayer, TakeSnapshot, FinishReplay, FinishReplayer

-----------------------------------------------------------------------------
(* A step of the GPU side. *)

\* The chunks of one request and of the others.
LEMMA TotalChunksWithout ==
  ASSUME NEW S, Sized(S), NEW d \in S
  PROVE  TotalChunks(S) = d.chunks + TotalChunks(S \ {d}) /\ Sized(S \ {d}) /\ d.chunks \in Nat
<1>1. d.chunks \in Nat /\ {d} \in SUBSET S
  BY DEF Sized
<1>2. TotalChunks(S) = TotalChunks({d}) + TotalChunks(S \ {d}) /\ Sized(S \ {d})
  BY <1>1, TotalChunksSplit
<1>3. TotalChunks({d}) = d.chunks
  BY <1>1, TotalChunksOne
<1> QED BY <1>1, <1>2, <1>3

\* A request that is answered moves from the GPU side to the channel of results.
LEMMA AnswerKeepsData ==
  ASSUME DataInv, AllocatorsConserved, NEW request \in gpu, Answer(request)
  PROVE  DataInv' /\ AllocatorsConserved'
<1>1. DataType /\ ProducerInv /\ KeyInv /\ InitsInv /\ OrderInv /\ ReportInv
  BY DEF DataInv
<1>2. PICK m : m = GpuWorkResult(request)
  OBVIOUS
<1>3. /\ request \in Requests /\ gpu \subseteq Requests /\ Sized(gpu)
  BY <1>1, BalanceTerms DEF DataType
<1>4. /\ m \in Messages /\ m.type = "GpuWorkResult" /\ m.key = request.key /\ m.chunks = request.chunks
      /\ request.key \in Keys
  BY <1>2, <1>3 DEF GpuWorkResult, Answers, Messages, Requests
<1>5. /\ Send(m) /\ gpu' = gpu \ {request}
      /\ UNCHANGED <<main, caching, proving, gpu_work_requests_sender, sent_requests_count,
                     requests_served_from_cache, abort_signaled, trivial, simulation_result,
                     uninitialized, processed, unpaired_inits, unpaired_tracing, completed,
                     entries, cached_trivial, free_allocators, simulator, snapshot_index, produced,
                     chunks, room, participating, inits_index, inits_chunks, replayer, replaying>>
  BY <1>2 DEF Answer, requestVars, dataVars, resultVars, cacheVars, sharedVars, simulatorVars,
              producerVars, replayerVars
<1>6. /\ ProducerInv' /\ \A k : Issued(k)' <=> Issued(k)
      /\ SimulatorOver' <=> SimulatorOver
  BY <1>1, <1>5, SameProducer
<1>7. results' \in Seq(Messages) /\ ChunksOnTheWay(results') = ChunksOnTheWay(results) + ChunksIn(m)
  BY <1>1, <1>4, <1>5, SendKeepsType
<1>8. IsFiniteSet(gpu') /\ gpu' \subseteq Requests
  BY <1>3, <1>5, FS_Subset DEF Sized
<1>9. DataType'
  BY <1>1, <1>5, <1>7, <1>8 DEF DataType, Table
<1>10. results \in Seq(Messages) /\ results' = Append(results, m)
  BY <1>1, <1>5 DEF DataType, Send
<1>11. \A type : KeysIn(results', type) = IF m.type = type THEN KeysIn(results, type) \cup {m.key}
                                         ELSE KeysIn(results, type)
  BY <1>4, <1>10, SendKeys
<1>12. /\ UninitializedKeys' = UninitializedKeys /\ UnpairedKeys' = UnpairedKeys
       /\ EntryKeys' = EntryKeys
  BY <1>5 DEF UninitializedKeys, UnpairedKeys, EntryKeys
<1>13. GpuKeys' = GpuKeys \ {m.key} /\ m.key \in GpuKeys
  BY <1>1, <1>4, <1>5 DEF GpuKeys, KeyInv, KeyedOnce
<1>14. Upstream' = Upstream /\ Downstream' = Downstream
  BY <1>4, <1>5, <1>11, <1>12, <1>13 DEF Upstream, Downstream
<1>15. KeyInv'
  <2>1. m.key \notin KeysIn(results, "GpuWorkResult")
    BY <1>1, <1>13 DEF KeyInv, Apart
  <2>2. DistinctMessages(results')
    BY <1>1, <1>4, <1>10, <2>1, SendDistinct DEF KeyInv
  <2>3. KeyedOnce(uninitialized)' /\ KeyedOnce(gpu)'
    BY <1>1, <1>5 DEF KeyInv, KeyedOnce
  <2>4. Apart(KeysIn(results, "TracingData"), UninitializedKeys, UnpairedKeys)'
    BY <1>1, <1>4, <1>11, <1>12 DEF KeyInv, Apart
  <2>5. Apart(GpuKeys, KeysIn(results, "GpuWorkResult"), completed)'
    BY <1>1, <1>4, <1>5, <1>11, <1>13 DEF KeyInv, Apart
  <2>6. (Upstream' \ requests_served_from_cache') \cap Downstream' = {}
    BY <1>1, <1>5, <1>14 DEF KeyInv
  <2>7. \A k \in Upstream' \cup (Downstream' \ requests_served_from_cache') : Issued(k)'
    BY <1>1, <1>5, <1>6, <1>14 DEF KeyInv
  <2>8. KeysIn(results', "InitsAndTeardownsData") = KeysIn(results, "InitsAndTeardownsData")
    BY <1>4, <1>11
  <2>9. \A q \in DOMAIN unpaired_inits' :
       \/ caching' /\ proving' /\ q < trivial'
       \/ q < inits_index' /\ <<InitsCircuit, q>> \notin KeysIn(results', "InitsAndTeardownsData")
    BY <1>1, <1>5, <2>8 DEF KeyInv
  <2>10. \A k \in KeysIn(results', "InitsAndTeardownsData") : k[2] < inits_index'
    BY <1>1, <1>5, <2>8 DEF KeyInv
  <2> HIDE DEF Issued
  <2>11. /\ \A i, j \in DOMAIN entries' : i # j => entries'[i].key # entries'[j].key
         /\ EntryKeys' \subseteq completed'
         /\ main' = "start" => entries' = <<>>
         /\ main' = "committed" => caching' /\ ~proving'
    BY <1>1, <1>5, <1>12 DEF KeyInv
  <2> QED BY <2>2, <2>3, <2>4, <2>5, <2>6, <2>7, <2>9, <2>10, <2>11 DEF KeyInv
<1>16. PICK s, t, n : s = results /\ t = results' /\ n = Len(results)
  OBVIOUS
<1>17. /\ DOMAIN s = 1..n /\ n \in Nat /\ DOMAIN t = 1..(n + 1)
       /\ \A i \in 1..n : t[i] = s[i]
       /\ t[n + 1] = m
  BY <1>4, <1>10, <1>16, Grown
<1>18. \A i \in 1..(n + 1) : (i \in 1..n /\ t[i] = s[i]) \/ (i = n + 1 /\ t[i].type = "GpuWorkResult")
  BY <1>4, <1>17
<1>19. InitsInv'
  BY <1>1, <1>5, <1>16, <1>17, <1>18 DEF InitsInv
<1>20. OrderInv'
  <2>1. \A i \in DOMAIN t : t[i].type = "SimulationResult" => i \in 1..n /\ s[i].type = "SimulationResult"
    BY <1>17, <1>18
  <2>2. \A i \in DOMAIN t : t[i].type \in FromSimulator => i \in 1..n /\ s[i].type \in FromSimulator
    BY <1>17, <1>18 DEF FromSimulator
  <2>3. NothingWaits' <=> NothingWaits
    BY <1>5 DEF NothingWaits
  <2>4. \A i \in DOMAIN t : t[i].type = "SimulationResult" =>
          SimulatorOver /\ \A j \in DOMAIN t : j > i => t[j].type \notin FromSimulator
    BY <1>1, <1>16, <1>17, <2>1, <2>2 DEF OrderInv
  <2>5. main = "loop" /\ simulation_result /\ ~abort_signaled =>
          SimulatorOver /\ \A j \in DOMAIN t : t[j].type \notin FromSimulator
    BY <1>1, <1>16, <1>17, <2>2 DEF OrderInv
  <2> QED BY <1>1, <1>5, <1>6, <1>16, <2>3, <2>4, <2>5 DEF OrderInv
<1>21. ReportInv'
  <2>1. IndexesIn(results') = IndexesIn(results)
    <3>1. DOMAIN t = DOMAIN s \cup {n + 1}
      BY <1>17
    <3> QED BY <1>4, <1>16, <1>17, <3>1 DEF IndexesIn
  <2>2. Reporting' = Reporting /\ Busy("reporting")' = Busy("reporting")
    BY <1>5 DEF Reporting, Busy
  <2> QED BY <1>1, <1>5, <2>1, <2>2 DEF ReportInv
<1>22. AllocatorsConserved'
  <2>1. ChunksIn(m) = request.chunks
    BY <1>4, ChunksInMessages
  <2>2. TotalChunks(gpu) = request.chunks + TotalChunks(gpu') /\ request.chunks \in Nat /\ Sized(gpu')
    BY <1>3, <1>5, TotalChunksWithout
  <2>3. /\ ChunksOnTheWay(results) \in Nat /\ TotalChunks(gpu') \in Nat
    BY <1>1, <2>2, WayType, TotalChunksType DEF DataType
  <2>4. PICK way, way1, sent, sent1 \in Nat :
          /\ way = ChunksOnTheWay(results) /\ way1 = ChunksOnTheWay(results')
          /\ sent = TotalChunks(gpu) /\ sent1 = TotalChunks(gpu')
          /\ way1 + sent1 = way + sent
    BY <1>7, <2>1, <2>2, <2>3
  <2>5. PICK a, b, c, d, e, f, g \in Nat :
          /\ a = free_allocators /\ b = inits_chunks /\ c = SumFunction(chunks)
          /\ d = TotalChunks(uninitialized)
          /\ e = SumFunction(unpaired_inits) /\ f = SumFunction(unpaired_tracing)
          /\ g = ChunksOfFirst(entries, Len(entries))
    BY <1>1, BalanceTerms, FamilySum DEF DataType, ProducerInv
  <2>6. a + b + c + way + d + sent + e + f + g = Allocators
    BY <2>4, <2>5 DEF AllocatorsConserved, ChunksOnTheWay
  <2>7. a + b + c + way1 + d + sent1 + e + f + g = Allocators
    BY <2>4, <2>6
  <2> QED BY <1>5, <2>4, <2>5, <2>7 DEF AllocatorsConserved, ChunksOnTheWay
<1> QED BY <1>6, <1>9, <1>15, <1>19, <1>20, <1>21, <1>22 DEF DataInv

-----------------------------------------------------------------------------
(* The start and the end of a call. *)

\* A sum of zeros.
LEMMA SumOfZeros ==
  ASSUME NEW S, IsFiniteSet(S), NEW f \in [S -> Int], \A x \in S : f[x] = 0
  PROVE  SumFunction(f) = 0
<1>1. PICK h : h = [x \in S |-> f[x] + f[x]]
  OBVIOUS
<1>2. SumFunction([x \in S |-> f[x] + f[x]]) = SumFunction(f) + SumFunction(f)
  BY SumPlus, Zenon
<1>3. h = f
  BY <1>1
<1>4. SumFunction(f) = SumFunction(f) + SumFunction(f)
  BY <1>1, <1>2, <1>3, Zenon
<1>5. SumFunction(f) \in Int
  BY SumInt, Zenon
<1>6. PICK n \in Int : n = SumFunction(f)
  BY <1>5
<1>7. n = n + n
  BY <1>4, <1>6, Zenon
<1>8. n = 0
  BY <1>7
<1> QED BY <1>6, <1>8, Zenon

\* The empty table.
LEMMA NoDataTable == Table(NoData) /\ SumFunction(NoData) = 0 /\ DOMAIN NoData = {}
<1>1. DOMAIN NoData = {} /\ NoData \in [DOMAIN NoData -> Nat]
  BY DEF NoData
<1> QED BY <1>1, FS_EmptySet, SumEmpty DEF Table

\* Each entry of the cache is about a circuit of its own.
LEMMA EntriesAsSet ==
  ASSUME NEW list \in Seq(Requests), \A i, j \in DOMAIN list : i # j => list[i].key # list[j].key
  PROVE  /\ IsFiniteSet(ToSet(list)) /\ ToSet(list) \subseteq Requests /\ KeyedOnce(ToSet(list))
         /\ TotalChunks(ToSet(list)) = ChunksOfFirst(list, Len(list))
<1>1. PICK n \in Nat : n = Len(list) /\ DOMAIN list = 1..n /\ list = [i \in 1..n |-> list[i]]
  OBVIOUS
<1>2. PICK S, T : S = ToSet(list) /\ T = 1..n
  OBVIOUS
<1>3. IsFiniteSet(T) /\ DOMAIN list = T
  BY <1>1, <1>2, FS_Interval
<1>4. S = {list[i] : i \in T}
  BY <1>2, <1>3 DEF ToSet
<1>5. IsFiniteSet(S)
  <2>1. list = [i \in T |-> list[i]]
    BY <1>1, <1>2
  <2>2. IsFiniteSet({list[i] : i \in T})
    BY <1>3, <2>1, FiniteImage
  <2> QED BY <1>4, <2>2
<1>6. S \subseteq Requests
  BY <1>1, <1>2, <1>4
<1>7. KeyedOnce(S)
  BY <1>3, <1>4 DEF KeyedOnce
<1>8. PICK f : f = [request \in S |-> request.chunks]
  OBVIOUS
<1>9. f \in [S -> Int]
  BY <1>6, <1>8 DEF Requests
<1>10. PICK b : b = [i \in T |-> list[i]]
  OBVIOUS
<1>11. b \in [T -> S] /\ (\A t, u \in T : t # u => b[t] # b[u]) /\ \A x \in S : \E t \in T : b[t] = x
  BY <1>3, <1>4, <1>10
<1>14. PICK g : g = [t \in T |-> f[b[t]]]
  OBVIOUS
<1>12. SumFunction(g) = SumFunction(f)
  <2>1. \A t, u \in T : t # u => b[t] # b[u]
    BY <1>11
  <2>2. \A x \in S : \E t \in T : b[t] = x
    BY <1>11
  <2>3. b \in [T -> S]
    BY <1>11
  <2>4. IsFiniteSet(T)
    BY <1>3
  <2> QED BY <1>5, <1>9, <1>14, <2>1, <2>2, <2>3, <2>4, SumAlong
<1>13. g = [i \in 1..n |-> list[i].chunks]
  BY <1>2, <1>4, <1>8, <1>10, <1>14
<1> QED BY <1>1, <1>2, <1>5, <1>6, <1>7, <1>8, <1>12, <1>13 DEF TotalChunks, ChunksOfFirst

\* An empty channel carries nothing.
LEMMA NothingOnTheWay ==
  /\ <<>> \in Seq(Messages) /\ ChunksOnTheWay(<<>>) = 0 /\ DistinctMessages(<<>>)
  /\ \A type : KeysIn(<<>>, type) = {}
  /\ IndexesIn(<<>>) = {} /\ ChunksOfFirst(<<>>, 0) = 0 /\ <<>> \in Seq(Requests)
  /\ Len(<<>>) = 0 /\ ToSet(<<>>) = {} /\ DOMAIN <<>> = {}
<1>1. DOMAIN <<>> = {} /\ Len(<<>>) = 0 /\ <<>> \in Seq(Messages) /\ <<>> \in Seq(Requests)
  OBVIOUS
<1>2. ChunksOnTheWay(<<>>) = 0
  <2>1. PICK f : f = [i \in DOMAIN <<>> |-> ChunksIn(<<>>[i])]
    OBVIOUS
  <2>2. DOMAIN f = {}
    BY <1>1, <2>1
  <2>3. SumFunction(f) = 0
    BY <2>2, SumEmpty
  <2> QED BY <2>1, <2>3 DEF ChunksOnTheWay
<1>3. ChunksOfFirst(<<>>, 0) = 0
  <2>1. PICK f : f = [i \in 1..0 |-> <<>>[i].chunks]
    OBVIOUS
  <2>2. DOMAIN f = {}
    BY <2>1
  <2>3. SumFunction(f) = 0
    BY <2>2, SumEmpty
  <2> QED BY <2>1, <2>3 DEF ChunksOfFirst
<1> QED BY <1>1, <1>2, <1>3 DEF DistinctMessages, KeysIn, IndexesIn, ToSet

\* Tasks that are to start, or have not been needed.
LEMMA SpawnedProducer ==
  ASSUME StateInv, ControlInv, ProducerInv, main \in {"start", "committed"},
         \/ Spawn
         \/ UNCHANGED <<snapshots, free_trace_chunks, abort, simulatorVars, replayerVars>>
  PROVE  /\ ProducerInv' /\ chunks' = chunks /\ inits_chunks = 0 /\ inits_chunks' = 0
         /\ Busy("reporting")' = {}
<1>1. simulator \in {"exit", "drop", "runner", "source", "done"}
  BY BetweenCalls
<1>2. /\ chunks \in [Families -> Nat] /\ inits_chunks = 0
      /\ \A t \in Families : chunks[t] = 0
  BY <1>1 DEF ProducerInv
<1>3. chunks = [t \in Families |-> 0]
  BY <1>2
<1>4. CASE Spawn
  <2>1. /\ simulator' = "run" /\ snapshot_index' = 0 /\ chunks' = [t \in Families |-> 0]
        /\ produced' = [t \in Families |-> 0] /\ room' = [t \in Families |-> 0]
        /\ participating' = [t \in Families |-> {}] /\ inits_index' = 0 /\ inits_chunks' = 0
        /\ replayer' = [r \in Replayers |-> "waiting"]
    BY <1>4 DEF Spawn, NoRows, Families
  <2>2. 0 \in 0..Len(Run) /\ 0 < Len(Run)
    BY RunShape
  <2>3. \A t \in Families : Rows(t, 0) = 0
    BY NoRowsAtFirst
  <2>4. ASSUME NEW t \in Families PROVE At(t)' = 0 /\ At(t)' * CyclesPerCircuit[t] = 0
    <3>1. PICK c \in Nat \ {0} : c = CyclesPerCircuit[t]
      BY RunShape
    <3>2. 0 \div c = 0 /\ 0 * c = 0
      OBVIOUS
    <3> QED BY <2>1, <3>1, <3>2 DEF At
  <2>5. 0 <= EmptyCircuits + Partitions
    BY EmptyType
  <2>6. ProducerInv'
    BY <2>1, <2>2, <2>3, <2>4, <2>5 DEF ProducerInv, Producing
  <2>7. Busy("reporting")' = {}
    BY <2>1 DEF Busy
  <2> QED BY <1>2, <1>3, <2>1, <2>6, <2>7
<1>5. CASE UNCHANGED <<snapshots, free_trace_chunks, abort, simulatorVars, replayerVars>>
  <2>1. UNCHANGED <<simulator, snapshot_index, produced, chunks, room, participating,
                    inits_index, inits_chunks, replayer>>
    BY <1>5 DEF simulatorVars, producerVars, replayerVars
  <2>2. ProducerInv'
    BY <2>1, SameProducer
  <2>3. Busy("reporting")' = {}
    <3>1. CpuDone
      BY DEF ControlInv
    <3> QED BY <2>1, <3>1, DoneIsNotLive DEF Busy
  <2> QED BY <1>2, <2>1, <2>2, <2>3
<1> QED BY <1>4, <1>5

\* The entries of the cache become requests.
LEMMA BeginKeepsData ==
  ASSUME Inv, DataInv, AllocatorsConserved, main \in {"start", "committed"}, NEW all_sent \in BOOLEAN,
         Begin(entries, all_sent), caching' \in BOOLEAN, proving' \in BOOLEAN,
         trivial' \in Nat, trivial' <= EmptyCircuits,
         Table(unpaired_inits'), SumFunction(unpaired_inits') = 0,
         \A q \in DOMAIN unpaired_inits' : caching' /\ proving' /\ q < trivial'
  PROVE  DataInv' /\ AllocatorsConserved'
<1>1. /\ DataType /\ ProducerInv /\ KeyInv /\ InitsInv /\ OrderInv /\ ReportInv
      /\ StateInv /\ ControlInv
  BY DEF DataInv, Inv
<1>2. /\ results = <<>> /\ gpu = {} /\ uninitialized = {}
      /\ unpaired_inits = NoData /\ unpaired_tracing = NoData
  BY <1>1 DEF ControlInv, OrderInv, NothingWaits
<1>3. /\ main' = "loop" /\ gpu' = ToSet(entries) /\ gpu_work_requests_sender' = ~all_sent
      /\ requests_served_from_cache' = {request.key : request \in ToSet(entries)}
      /\ simulation_result' = all_sent /\ abort_signaled' = all_sent
      /\ uninitialized' = {} /\ processed' = {} /\ unpaired_tracing' = NoData /\ completed' = {}
      /\ entries' = <<>> /\ UNCHANGED <<cached_trivial, results, free_allocators>>
      /\ \/ Spawn
         \/ UNCHANGED <<snapshots, free_trace_chunks, abort, simulatorVars, replayerVars>>
  BY DEF Begin
<1>4. /\ ProducerInv' /\ chunks' = chunks /\ inits_chunks = 0 /\ inits_chunks' = 0
      /\ Busy("reporting")' = {}
  BY <1>1, <1>3, SpawnedProducer
<1>5. /\ entries \in Seq(Requests)
      /\ \A i, j \in DOMAIN entries : i # j => entries[i].key # entries[j].key
  BY <1>1 DEF DataType, KeyInv
<1>6. /\ IsFiniteSet(gpu') /\ gpu' \subseteq Requests /\ KeyedOnce(gpu')
      /\ TotalChunks(gpu') = ChunksOfFirst(entries, Len(entries))
  BY <1>3, <1>5, EntriesAsSet
<1>7. DataType'
  BY <1>1, <1>2, <1>3, <1>6, FS_EmptySet, NoDataTable, NothingOnTheWay DEF DataType, Positions
<1>8. /\ UninitializedKeys' = {} /\ UnpairedKeys' = {} /\ EntryKeys' = {}
      /\ GpuKeys' = requests_served_from_cache'
  BY <1>3, NoDataTable, NothingOnTheWay DEF UninitializedKeys, UnpairedKeys, EntryKeys, GpuKeys
<1>9. /\ results' = <<>> /\ \A type : KeysIn(results', type) = {}
  BY <1>2, <1>3, NothingOnTheWay
<1>10. Upstream' = {} /\ Downstream' = requests_served_from_cache'
  BY <1>3, <1>8, <1>9 DEF Upstream, Downstream
<1>11. KeyInv'
  <2>1. DistinctMessages(results') /\ KeyedOnce(uninitialized') /\ KeyedOnce(gpu')
    BY <1>3, <1>6, <1>9, NothingOnTheWay DEF KeyedOnce
  <2>2. /\ Apart(KeysIn(results, "TracingData"), UninitializedKeys, UnpairedKeys)'
        /\ Apart(GpuKeys, KeysIn(results, "GpuWorkResult"), completed)'
    BY <1>3, <1>8, <1>9 DEF Apart
  <2>3. /\ \A i, j \in DOMAIN entries' : i # j => entries'[i].key # entries'[j].key
        /\ EntryKeys' \subseteq completed'
    BY <1>3, <1>8, NothingOnTheWay
  <2> QED BY <1>3, <1>9, <1>10, <2>1, <2>2, <2>3 DEF KeyInv
<1>12. InitsInv'
  BY <1>1, <1>3, <1>9, NothingOnTheWay DEF InitsInv
<1>13. OrderInv'
  BY <1>3, <1>9, NothingOnTheWay DEF OrderInv
<1>14. ReportInv'
  <2>1. Reporting' = {}
    BY <1>4 DEF Reporting
  <2> QED BY <1>3, <1>4, <1>9, <2>1, NothingOnTheWay DEF ReportInv, Apart
<1>15. AllocatorsConserved'
  <2>1. PICK a, c, e \in Nat :
          a = free_allocators /\ c = SumFunction(chunks) /\ e = ChunksOfFirst(entries, Len(entries))
    BY <1>1, BalanceTerms, FamilySum DEF DataType, ProducerInv
  <2>2. a + 0 + c + 0 + 0 + 0 + 0 + 0 + e = Allocators
    BY <1>2, <1>4, <2>1, NothingOnTheWay, NoDataTable, TotalChunksEmpty DEF AllocatorsConserved, ChunksOnTheWay
  <2>3. a + 0 + c + 0 + 0 + e + 0 + 0 + 0 = Allocators
    BY <2>1, <2>2
  <2>4. Len(entries') = 0
    BY <1>3, NothingOnTheWay
  <2> QED BY <1>3, <1>4, <1>6, <1>9, <2>1, <2>3, <2>4, NothingOnTheWay, NoDataTable, TotalChunksEmpty
          DEF AllocatorsConserved, ChunksOnTheWay
<1> QED BY <1>4, <1>7, <1>11, <1>12, <1>13, <1>14, <1>15 DEF DataInv

\* The places of keys, for a step that leaves the producers and the cache alone.
dataState == <<caching, proving, requests_served_from_cache, abort_signaled, trivial,
               simulation_result, gpu_work_requests_sender, gpu, processed, completed, entries,
               results, simulator, snapshot_index, produced, chunks, room, participating,
               inits_index, inits_chunks, replayer, replaying>>

\* Nothing happens to the data.
LEMMA IdleKeepsData ==
  ASSUME DataInv, AllocatorsConserved,
         UNCHANGED <<dataState, uninitialized, unpaired_inits, unpaired_tracing, cached_trivial,
                     free_allocators>>,
         main' = main \/ main' = "source_shared"
  PROVE  DataInv' /\ AllocatorsConserved'
<1> USE DEF dataState
<1>1. DataType /\ ProducerInv /\ KeyInv /\ InitsInv /\ OrderInv /\ ReportInv
  BY DEF DataInv
<1>2. DataType'
  BY <1>1 DEF DataType, Table, Positions
<1>3. /\ ProducerInv' /\ \A k : Issued(k)' <=> Issued(k)
      /\ SimulatorOver' <=> SimulatorOver
  BY <1>1, SameProducer
<1>4. /\ UninitializedKeys' = UninitializedKeys /\ UnpairedKeys' = UnpairedKeys
      /\ GpuKeys' = GpuKeys /\ EntryKeys' = EntryKeys /\ Upstream' = Upstream
      /\ Downstream' = Downstream
  BY DEF UninitializedKeys, UnpairedKeys, GpuKeys, EntryKeys, Upstream, Downstream
<1>5. KeyedOnce(uninitialized)' /\ KeyedOnce(gpu)'
  BY <1>1 DEF KeyInv, KeyedOnce
<1>6. KeyInv'
  BY <1>1, <1>3, <1>4, <1>5 DEF KeyInv
<1>7. InitsInv' /\ OrderInv'
  BY <1>1, <1>3 DEF InitsInv, OrderInv, NothingWaits
<1>8. ReportInv'
  BY <1>1 DEF ReportInv, Reporting, Busy
<1>9. AllocatorsConserved'
  BY DEF AllocatorsConserved
<1> QED BY <1>2, <1>3, <1>6, <1>7, <1>8, <1>9 DEF DataInv

\* The allocators of what an aborted simulation left behind are freed.
LEMMA ReturnKeepsData ==
  ASSUME DataInv, AllocatorsConserved, Return
  PROVE  DataInv' /\ AllocatorsConserved'
<1>1. DataType /\ ProducerInv /\ KeyInv /\ InitsInv /\ OrderInv /\ ReportInv
  BY DEF DataInv
<1>2. /\ main = "loop" /\ ~gpu_work_requests_sender
      /\ main' = IF caching /\ ~proving THEN "committed" ELSE "done"
      /\ free_allocators' = free_allocators + LeftBehind
      /\ uninitialized' = {} /\ unpaired_inits' = NoData /\ unpaired_tracing' = NoData
      /\ cached_trivial' = trivial \/ cached_trivial' = cached_trivial
      /\ UNCHANGED dataState
  BY DEF Return, Disconnected, requestVars, resultVars, simulatorVars, producerVars, replayerVars,
         dataState
<1>3. /\ Sized(uninitialized) /\ TotalChunks(uninitialized) \in Nat
      /\ SumFunction(unpaired_inits) \in Nat /\ SumFunction(unpaired_tracing) \in Nat
  BY <1>1, BalanceTerms
<1>4. LeftBehind = TotalChunks(uninitialized) + SumFunction(unpaired_inits) + SumFunction(unpaired_tracing)
  <2>1. CASE abort_signaled
    BY <2>1 DEF LeftBehind
  <2>2. CASE ~abort_signaled
    <3>1. uninitialized = {} /\ unpaired_inits = NoData /\ unpaired_tracing = NoData
      BY <1>1, <1>2, <2>2 DEF OrderInv, NothingWaits
    <3> QED BY <2>2, <3>1, NoDataTable, TotalChunksEmpty DEF LeftBehind
  <2> QED BY <2>1, <2>2
<1> USE DEF dataState
<1>5. DataType'
  <2>1. free_allocators' \in Nat
    BY <1>1, <1>2, <1>3, <1>4 DEF DataType
  <2> QED BY <1>1, <1>2, <2>1, FS_EmptySet, NoDataTable DEF DataType, Positions
<1>6. /\ ProducerInv' /\ \A k : Issued(k)' <=> Issued(k)
      /\ SimulatorOver' <=> SimulatorOver
  BY <1>1, <1>2, SameProducer
<1>7. /\ UninitializedKeys' = {} /\ UnpairedKeys' = {}
      /\ GpuKeys' = GpuKeys /\ EntryKeys' = EntryKeys /\ Upstream' \subseteq Upstream
      /\ Downstream' = Downstream
  BY <1>2, NoDataTable DEF UninitializedKeys, UnpairedKeys, GpuKeys, EntryKeys, Upstream, Downstream
<1>8. KeyedOnce(uninitialized') /\ KeyedOnce(gpu')
  BY <1>1, <1>2 DEF KeyInv, KeyedOnce
<1>9. Apart(KeysIn(results, "TracingData"), UninitializedKeys, UnpairedKeys)'
  BY <1>7 DEF Apart
<1>10. main' = "committed" => caching /\ ~proving
  BY <1>2
<1>11. (Upstream' \ requests_served_from_cache') \cap Downstream' = {}
  BY <1>1, <1>2, <1>7 DEF KeyInv
<1>12. \A k \in Upstream' \cup (Downstream' \ requests_served_from_cache') : Issued(k)'
  BY <1>1, <1>2, <1>6, <1>7 DEF KeyInv
<1>13. KeyInv'
  BY <1>1, <1>2, <1>7, <1>8, <1>9, <1>10, <1>11, <1>12, NoDataTable DEF KeyInv
<1>14. InitsInv'
  BY <1>1, <1>2 DEF InitsInv
<1>15. OrderInv'
  BY <1>1, <1>2, <1>6 DEF OrderInv, NothingWaits
<1>16. ReportInv'
  BY <1>1, <1>2 DEF ReportInv, Reporting, Busy
<1>17. AllocatorsConserved'
  <2>1. PICK a, b, c, d, e, f, g, h, i \in Nat :
          /\ a = free_allocators /\ b = inits_chunks /\ c = SumFunction(chunks)
          /\ d = ChunksOnTheWay(results) /\ e = TotalChunks(gpu)
          /\ f = TotalChunks(uninitialized) /\ g = SumFunction(unpaired_inits)
          /\ h = SumFunction(unpaired_tracing) /\ i = ChunksOfFirst(entries, Len(entries))
    BY <1>1, BalanceTerms, FamilySum DEF DataType, ProducerInv
  <2>2. a + b + c + d + f + e + g + h + i = Allocators
    BY <2>1 DEF AllocatorsConserved, ChunksOnTheWay
  <2>3. (a + (f + g + h)) + b + c + d + 0 + e + 0 + 0 + i = Allocators
    BY <2>2
  <2>4. free_allocators' = a + (f + g + h)
    BY <1>2, <1>4, <2>1
  <2>5. TotalChunks(uninitialized') = 0 /\ SumFunction(unpaired_inits') = 0
          /\ SumFunction(unpaired_tracing') = 0
    BY <1>2, NoDataTable, TotalChunksEmpty
  <2> QED BY <1>2, <2>1, <2>3, <2>4, <2>5 DEF AllocatorsConserved, ChunksOnTheWay
<1> QED BY <1>5, <1>6, <1>13, <1>14, <1>15, <1>16, <1>17 DEF DataInv

-----------------------------------------------------------------------------
(* A message handled by the loop. *)

\* There is one table without entries.
LEMMA TableOfNothing ==
  ASSUME NEW f, Table(f), DOMAIN f = {}
  PROVE  f = NoData
  BY DEF Table, NoData

\* The end of every handler.
LEMMA ConcludeEffect ==
  ASSUME DataType, NEW requests, requests \subseteq Requests, IsFiniteSet(requests),
         NEW released \in Nat, NEW simulated \in BOOLEAN, Conclude(requests, released, simulated),
         (requests \ Served(requests)) \cap gpu = {}
  PROVE  /\ gpu' = gpu \cup (requests \ Served(requests))
         /\ gpu' \subseteq Requests /\ IsFiniteSet(gpu') /\ free_allocators' \in Nat
         /\ free_allocators' + TotalChunks(gpu')
              = free_allocators + released + TotalChunks(gpu) + TotalChunks(requests)
         /\ gpu_work_requests_sender' \in BOOLEAN /\ simulation_result' \in BOOLEAN
         /\ abort_signaled' \in BOOLEAN
         /\ main' \in {"loop", "panicked"} /\ results' = Tail(results)
         /\ simulated => simulation_result'
         /\ ~abort_signaled' =>
              /\ ~abort_signaled /\ (simulation_result' => simulated)
              /\ ~gpu_work_requests_sender' =>
                   ~gpu_work_requests_sender \/ NothingFollows(simulated)
         /\ UNCHANGED <<caching, proving, requests_served_from_cache, cached_trivial,
                        total_requests_count, simulator, snapshot_index, is_aborted, produced,
                        chunks, room, participating, inits_index, inits_chunks, replayer,
                        replaying>>
<1>1. PICK served : served = Served(requests)
  OBVIOUS
<1>2. PICK fresh : fresh = requests \ served
  OBVIOUS
<1>3. PICK open \in BOOLEAN : open = (gpu_work_requests_sender /\ ~NothingFollows(simulated))
  OBVIOUS
<1>4. PICK stop \in BOOLEAN : stop = (caching /\ proving /\ ~abort_signaled /\ open
                                 /\ AllSent(sent_requests_count + Cardinality(fresh)))
  OBVIOUS
<1>5. /\ results' = Tail(results)
      /\ main' = IF fresh # {} /\ ~gpu_work_requests_sender THEN "panicked" ELSE "loop"
      /\ gpu' = gpu \cup fresh
      /\ gpu_work_requests_sender' = (open /\ ~stop)
      /\ simulation_result' = (simulated \/ stop)
      /\ abort_signaled' = (abort_signaled \/ stop)
      /\ free_allocators' = free_allocators + released + TotalChunks(served)
  BY <1>1, <1>2, <1>3, <1>4 DEF Conclude, Freed
<1>6. UNCHANGED <<caching, proving, requests_served_from_cache, cached_trivial,
                  total_requests_count, simulator, snapshot_index, is_aborted, produced,
                  chunks, room, participating, inits_index, inits_chunks, replayer, replaying>>
  BY DEF Conclude, simulatorVars, producerVars, replayerVars
<1>7. /\ Sized(requests) /\ served \in SUBSET requests
  BY <1>1 DEF Sized, Served, Requests
<1>8. /\ TotalChunks(requests) = TotalChunks(served) + TotalChunks(requests \ served)
      /\ Sized(served) /\ Sized(requests \ served)
  BY <1>7, TotalChunksSplit
<1>9. Sized(gpu)
  BY BalanceTerms
<1>10. gpu \cap fresh = {} /\ Sized(fresh)
  BY <1>1, <1>2, <1>8
<1>11. TotalChunks(gpu \cup fresh) = TotalChunks(gpu) + TotalChunks(fresh) /\ Sized(gpu \cup fresh)
  BY <1>9, <1>10, TotalChunksUnion
<1>12. /\ TotalChunks(served) \in Nat /\ TotalChunks(gpu) \in Nat /\ TotalChunks(fresh) \in Nat
       /\ free_allocators \in Nat
  BY <1>8, <1>9, <1>10, TotalChunksType DEF DataType
<1>13. free_allocators' \in Nat
  BY <1>5, <1>12
<1>14. TotalChunks(gpu') = TotalChunks(gpu) + TotalChunks(fresh)
  BY <1>5, <1>11
<1>15. TotalChunks(requests) = TotalChunks(served) + TotalChunks(fresh)
  BY <1>2, <1>8
<1>16. free_allocators' + TotalChunks(gpu')
              = free_allocators + released + TotalChunks(gpu) + TotalChunks(requests)
  BY <1>5, <1>12, <1>14, <1>15
<1>17. gpu' \subseteq Requests /\ IsFiniteSet(gpu')
  BY <1>2, <1>5, <1>11 DEF Sized, DataType
<1>18. /\ gpu_work_requests_sender' \in BOOLEAN /\ simulation_result' \in BOOLEAN
       /\ abort_signaled' \in BOOLEAN
  BY <1>3, <1>4, <1>5 DEF DataType
<1>19. simulated => simulation_result'
  BY <1>5
<1>20. ~abort_signaled' =>
              /\ ~abort_signaled /\ (simulation_result' => simulated)
              /\ ~gpu_work_requests_sender' =>
                   ~gpu_work_requests_sender \/ NothingFollows(simulated)
  BY <1>3, <1>4, <1>5
<1>21. main' \in {"loop", "panicked"}
  BY <1>5
<1> QED BY <1>1, <1>2, <1>5, <1>6, <1>13, <1>16, <1>17, <1>18, <1>19, <1>20, <1>21

\* What the loop itself keeps.
LoopData ==
  /\ uninitialized \subseteq TracingMessages /\ IsFiniteSet(uninitialized)
  /\ KeyedOnce(uninitialized)
  /\ Table(unpaired_inits) /\ Table(unpaired_tracing)
  /\ Apart(KeysIn(results, "TracingData"), UninitializedKeys, UnpairedKeys)
  /\ \A q \in DOMAIN unpaired_inits :
       \/ caching /\ proving /\ q < trivial
       \/ q < inits_index /\ <<InitsCircuit, q>> \notin KeysIn(results, "InitsAndTeardownsData")
  /\ trivial \in Nat /\ trivial <= EmptyCircuits
  /\ entries \in Seq(Requests)
  /\ \A i, j \in DOMAIN entries : i # j => entries[i].key # entries[j].key
  /\ EntryKeys \subseteq completed

LoopChunks ==
  TotalChunks(uninitialized) + SumFunction(unpaired_inits) + SumFunction(unpaired_tracing)
    + ChunksOfFirst(entries, Len(entries))

\* The invariant in the form the handlers of the loop need.
LEMMA LoopHasData ==
  ASSUME DataInv
  PROVE  LoopData /\ LoopChunks \in Nat
<1>1. DataType /\ KeyInv /\ InitsInv
  BY DEF DataInv
<1>2. LoopData
  BY <1>1 DEF LoopData, DataType, KeyInv, InitsInv
<1> QED BY <1>1, <1>2, BalanceTerms DEF LoopChunks

\* The keys of requests that a message led to.
LEMMA RequestKeys ==
  ASSUME KeyInv, NEW requests, KeyedOnce(requests),
         \A request \in requests : request.key \in Upstream /\ request.key \notin Upstream',
         Upstream' \subseteq Upstream, UNCHANGED requests_served_from_cache,
         NEW fresh, fresh = requests \ Served(requests), gpu' = gpu \cup fresh,
         KeysIn(results', "GpuWorkResult") \cup completed'
           = KeysIn(results, "GpuWorkResult") \cup completed,
         KeysIn(results', "GpuWorkResult") \cap completed' = {}
  PROVE  /\ fresh \cap gpu = {} /\ KeyedOnce(gpu')
         /\ Apart(GpuKeys', KeysIn(results', "GpuWorkResult"), completed')
         /\ (Upstream' \ requests_served_from_cache') \cap Downstream' = {}
         /\ Downstream' \ requests_served_from_cache'
              \subseteq (Downstream \ requests_served_from_cache) \cup Upstream
<1>1. PICK F : F = {request.key : request \in fresh}
  OBVIOUS
<1>2. F \cap requests_served_from_cache = {} /\ F \subseteq Upstream /\ F \cap Upstream' = {}
  BY <1>1 DEF Served
<1>3. F \cap Downstream = {}
  BY <1>2 DEF KeyInv
<1>4. GpuKeys' = GpuKeys \cup F
  BY <1>1 DEF GpuKeys
<1>5. Downstream' = Downstream \cup F
  BY <1>4 DEF Downstream
<1>6. \A request \in gpu : request.key \notin F
  BY <1>3 DEF Downstream, GpuKeys
<1>7. fresh \cap gpu = {}
  BY <1>1, <1>6
<1>8. KeyedOnce(gpu')
  <2>1. \A d, e \in gpu : d.key = e.key => d = e
    BY DEF KeyInv, KeyedOnce
  <2>2. \A d, e \in fresh : d.key = e.key => d = e
    BY DEF KeyedOnce
  <2>3. \A d \in gpu, e \in fresh : d.key # e.key
    BY <1>1, <1>6
  <2> QED BY <2>1, <2>2, <2>3 DEF KeyedOnce
<1>9. Apart(GpuKeys', KeysIn(results', "GpuWorkResult"), completed')
  BY <1>3, <1>4 DEF KeyInv, Apart, Downstream
<1>10. (Upstream' \ requests_served_from_cache') \cap Downstream' = {}
  BY <1>2, <1>5 DEF KeyInv
<1> QED BY <1>2, <1>5, <1>7, <1>8, <1>9, <1>10

\* What follows a message keeps the order of what follows.
LEMMA ConcludeKeepsOrder ==
  ASSUME DataInv, results # <<>>, NEW simulated, main = "loop",
         results' = Tail(results), UNCHANGED simulator, main' \in {"loop", "panicked"},
         simulated => simulation_result',
         ~abort_signaled' =>
           /\ ~abort_signaled /\ (simulation_result' => simulated)
           /\ ~gpu_work_requests_sender' => ~gpu_work_requests_sender \/ NothingFollows(simulated),
         simulation_result => simulated,
         simulated => simulation_result \/ Head(results).type = "SimulationResult",
         NothingWaits /\ Head(results).type \notin FromSimulator => NothingWaits',
         Table(unpaired_inits'), Table(unpaired_tracing')
  PROVE  OrderInv'
<1>1. DataType /\ OrderInv
  BY DEF DataInv
<1>2. PICK s, t : s = results /\ t = results'
  OBVIOUS
<1>3. /\ Head(s) = s[1] /\ 1 \in DOMAIN s /\ DOMAIN s \subseteq Int
      /\ \A i \in DOMAIN t : i \in Int /\ i + 1 \in DOMAIN s /\ i + 1 # 1 /\ t[i] = s[i + 1]
  BY <1>1, <1>2, Shrunk DEF DataType
<1>4. SimulatorOver' <=> SimulatorOver
  BY DEF SimulatorOver
<1>5. \A i \in DOMAIN t : t[i].type = "SimulationResult" =>
        /\ SimulatorOver'
        /\ \A j \in DOMAIN t : j > i => t[j].type \notin FromSimulator
  <2> SUFFICES ASSUME NEW i \in DOMAIN t, t[i].type = "SimulationResult"
               PROVE  /\ SimulatorOver'
                      /\ \A j \in DOMAIN t : j > i => t[j].type \notin FromSimulator
    OBVIOUS
  <2>1. /\ SimulatorOver
        /\ \A j \in DOMAIN s : j > i + 1 => s[j].type \notin FromSimulator
    BY <1>1, <1>2, <1>3 DEF OrderInv
  <2>2. ASSUME NEW j \in DOMAIN t, j > i
        PROVE  t[j].type \notin FromSimulator
    <3>1. i \in Int /\ j \in Int /\ j + 1 > i + 1 /\ j + 1 \in DOMAIN s /\ t[j] = s[j + 1]
      BY <1>3, <2>2
    <3> QED BY <2>1, <3>1
  <2> QED BY <1>4, <2>1, <2>2
<1>6. ASSUME simulated, ~abort_signaled'
      PROVE  /\ SimulatorOver'
             /\ \A j \in DOMAIN t : t[j].type \notin FromSimulator
  <2>1. CASE simulation_result
    <3>1. /\ SimulatorOver
          /\ \A j \in DOMAIN s : s[j].type \notin FromSimulator
      BY <1>1, <1>2, <1>6, <2>1 DEF OrderInv
    <3> QED BY <1>3, <1>4, <3>1
  <2>2. CASE Head(results).type = "SimulationResult"
    <3>1. /\ SimulatorOver
          /\ \A j \in DOMAIN s : j > 1 => s[j].type \notin FromSimulator
      BY <1>1, <1>2, <1>3, <2>2 DEF OrderInv
    <3>2. \A j \in DOMAIN t : j + 1 \in DOMAIN s /\ t[j] = s[j + 1] /\ j + 1 > 1
      <4>1. DOMAIN t = 1..(Len(s) - 1) /\ Len(s) \in Nat
        BY <1>1, <1>2, Shrunk DEF DataType
      <4>2. \A j \in DOMAIN t : j \in Int /\ j + 1 > 1
        BY <4>1
      <4> QED BY <1>3, <4>2
    <3> QED BY <1>4, <3>1, <3>2
  <2> QED BY <1>6, <2>1, <2>2
<1>7. ASSUME ~gpu_work_requests_sender', ~abort_signaled'
      PROVE  NothingWaits' /\ simulation_result'
  <2>1. CASE ~gpu_work_requests_sender
    <3>1. NothingWaits /\ simulation_result /\ Head(results).type \notin FromSimulator
      BY <1>1, <1>2, <1>3, <1>7, <2>1 DEF OrderInv
    <3> QED BY <3>1
  <2>2. CASE NothingFollows(simulated)
    <3>1. simulated /\ uninitialized' = {} /\ DOMAIN unpaired_inits' = {} /\ DOMAIN unpaired_tracing' = {}
      BY <2>2 DEF NothingFollows
    <3>2. unpaired_inits' = NoData /\ unpaired_tracing' = NoData
      BY <3>1, TableOfNothing
    <3> QED BY <3>1, <3>2 DEF NothingWaits, NoData
  <2> QED BY <1>7, <2>1, <2>2
<1> QED BY <1>2, <1>5, <1>6, <1>7 DEF OrderInv

\* A message received keeps InitsInv.
LEMMA TailKeepsInits ==
  ASSUME DataInv, results # <<>>, results' = Tail(results), trivial' \in Nat,
         trivial' <= EmptyCircuits, UNCHANGED cached_trivial
  PROVE  InitsInv'
<1>1. DataType /\ InitsInv
  BY DEF DataInv
<1>2. PICK s, t : s = results /\ t = results'
  OBVIOUS
<1>3. \A i \in DOMAIN t : i + 1 \in DOMAIN s /\ t[i] = s[i + 1]
  BY <1>1, <1>2, Shrunk DEF DataType
<1>4. \A i \in DOMAIN s : s[i].type = "InitsAndTeardownsData" =>
        (s[i].chunks = 0 <=> s[i].key[2] < EmptyCircuits)
  BY <1>1, <1>2 DEF InitsInv
<1>5. \A i \in DOMAIN t : t[i].type = "InitsAndTeardownsData" =>
        (t[i].chunks = 0 <=> t[i].key[2] < EmptyCircuits)
  BY <1>3, <1>4
<1> QED BY <1>1, <1>2, <1>5 DEF InitsInv

\* Chunks in the loop, of any data it may have.
LEMMA LoopTermsType ==
  ASSUME NEW S \in SUBSET TracingMessages, IsFiniteSet(S), NEW f, Table(f), NEW g, Table(g),
         NEW list \in Seq(Requests)
  PROVE  /\ TotalChunks(S) \in Nat /\ SumFunction(f) \in Nat /\ SumFunction(g) \in Nat
         /\ ChunksOfFirst(list, Len(list)) \in Nat
<1>1. Sized(S)
  BY DEF Sized, TracingMessages
<1>2. Len(list) \in 0..Len(list)
  OBVIOUS
<1> QED BY <1>1, <1>2, TotalChunksType, TableSum, FirstType

\* What a handler of the loop has to ensure: its requests are taken from upstream,
\* once each, and the chunks of the message are released, requested or kept.
LEMMA HandlerKeeps ==
  ASSUME DataInv, AllocatorsConserved, main = "loop", results # <<>>,
         NEW requests, requests \subseteq Requests, IsFiniteSet(requests), KeyedOnce(requests),
         \A request \in requests : request.key \in Upstream /\ request.key \notin Upstream',
         NEW released \in Nat, NEW simulated \in BOOLEAN, Conclude(requests, released, simulated),
         simulation_result => simulated,
         simulated => simulation_result \/ Head(results).type = "SimulationResult",
         NothingWaits /\ Head(results).type \notin FromSimulator => NothingWaits',
         LoopData', Upstream' \subseteq Upstream,
         completed' = IF Head(results).type = "GpuWorkResult"
                      THEN completed \cup {Head(results).key} ELSE completed,
         \/ UNCHANGED processed
         \/ /\ Head(results).type = "SnapshotReplayed"
            /\ processed' = processed \cup {Head(results).index},
         released + TotalChunks(requests) + LoopChunks' = ChunksIn(Head(results)) + LoopChunks
  PROVE  DataInv' /\ AllocatorsConserved'
<1>1. DataType /\ ProducerInv /\ KeyInv /\ InitsInv /\ OrderInv /\ ReportInv
  BY DEF DataInv
<1>2. results \in Seq(Messages) /\ results' = Tail(results) /\ DistinctMessages(results)
  BY <1>1 DEF DataType, KeyInv, Conclude
<1>3. PICK fresh : fresh = requests \ Served(requests)
  OBVIOUS
<1>4. gpu' = gpu \cup fresh /\ UNCHANGED requests_served_from_cache
  BY <1>3 DEF Conclude
<1>5. KeysIn(results', "GpuWorkResult")
        = IF Head(results).type = "GpuWorkResult"
          THEN KeysIn(results, "GpuWorkResult") \ {Head(results).key}
          ELSE KeysIn(results, "GpuWorkResult")
  BY <1>2, ReceiveKeys DEF Keyed
<1>6. /\ Head(results).type = "GpuWorkResult" => Head(results).key \in KeysIn(results, "GpuWorkResult")
      /\ KeysIn(results', "InitsAndTeardownsData") \subseteq KeysIn(results, "InitsAndTeardownsData")
  BY <1>2, ReceiveKeys DEF Keyed
<1>7. KeysIn(results, "GpuWorkResult") \cap completed = {}
  BY <1>1 DEF KeyInv, Apart
<1>8. /\ KeysIn(results', "GpuWorkResult") \cup completed'
           = KeysIn(results, "GpuWorkResult") \cup completed
      /\ KeysIn(results', "GpuWorkResult") \cap completed' = {}
  BY <1>5, <1>6, <1>7
<1>9. /\ fresh \cap gpu = {} /\ KeyedOnce(gpu')
      /\ Apart(GpuKeys', KeysIn(results', "GpuWorkResult"), completed')
      /\ (Upstream' \ requests_served_from_cache') \cap Downstream' = {}
      /\ Downstream' \ requests_served_from_cache'
              \subseteq (Downstream \ requests_served_from_cache) \cup Upstream
  BY <1>1, <1>3, <1>4, <1>8, RequestKeys
<1>10. /\ gpu' \subseteq Requests /\ IsFiniteSet(gpu') /\ free_allocators' \in Nat
       /\ free_allocators' + TotalChunks(gpu')
            = free_allocators + released + TotalChunks(gpu) + TotalChunks(requests)
       /\ gpu_work_requests_sender' \in BOOLEAN /\ simulation_result' \in BOOLEAN
       /\ abort_signaled' \in BOOLEAN
       /\ main' \in {"loop", "panicked"}
       /\ simulated => simulation_result'
       /\ ~abort_signaled' =>
            /\ ~abort_signaled /\ (simulation_result' => simulated)
            /\ ~gpu_work_requests_sender' =>
                 ~gpu_work_requests_sender \/ NothingFollows(simulated)
       /\ UNCHANGED <<caching, proving, cached_trivial, simulator, snapshot_index, produced,
                      chunks, room, participating, inits_index, inits_chunks, replayer,
                      replaying>>
  BY <1>1, <1>3, <1>9, ConcludeEffect
<1>11. /\ results' \in Seq(Messages)
       /\ ChunksOnTheWay(results') = ChunksOnTheWay(results) - ChunksIn(Head(results))
  BY <1>2, Shrunk, ReceiveChunks
<1>12. DataType'
  <2>1. /\ uninitialized' \subseteq TracingMessages /\ IsFiniteSet(uninitialized')
        /\ Table(unpaired_inits') /\ Table(unpaired_tracing')
        /\ entries' \in Seq(Requests) /\ trivial' \in Nat
    BY Zenon DEF LoopData, Table
  <2>2. /\ caching' \in BOOLEAN /\ proving' \in BOOLEAN /\ cached_trivial' \in Nat
        /\ main' \in Positions
    BY <1>1, <1>10 DEF DataType, Positions
  <2> QED BY <1>10, <1>11, <2>1, <2>2 DEF DataType, Table
<1>13. ProducerInv' /\ \A k : Issued(k)' <=> Issued(k)
  BY <1>1, <1>10, SameProducer
<1>14. KeyInv'
  <2>1. DistinctMessages(results')
    BY <1>2, ReceiveDistinct
  <2>2. \A k \in Upstream' \cup (Downstream' \ requests_served_from_cache') : Issued(k)'
    BY <1>1, <1>9, <1>13 DEF KeyInv
  <2>3. \A k \in KeysIn(results', "InitsAndTeardownsData") : k[2] < inits_index'
    BY <1>1, <1>6, <1>10 DEF KeyInv
  <2>4. main' # "start" /\ main' # "committed"
    BY <1>10
  <2>5. /\ KeyedOnce(uninitialized')
        /\ Apart(KeysIn(results', "TracingData"), UninitializedKeys', UnpairedKeys')
        /\ \A q \in DOMAIN unpaired_inits' :
            \/ caching' /\ proving' /\ q < trivial'
            \/ q < inits_index'
               /\ <<InitsCircuit, q>> \notin KeysIn(results', "InitsAndTeardownsData")
        /\ \A i, j \in DOMAIN entries' : i # j => entries'[i].key # entries'[j].key
        /\ EntryKeys' \subseteq completed'
    BY Zenon DEF LoopData
  <2> QED BY <1>9, <2>1, <2>2, <2>3, <2>4, <2>5 DEF KeyInv
<1>15. trivial' \in Nat /\ trivial' <= EmptyCircuits /\ Table(unpaired_inits') /\ Table(unpaired_tracing')
  BY Zenon DEF LoopData, Table
<1>16. InitsInv'
  BY <1>2, <1>10, <1>15, TailKeepsInits
<1>17. OrderInv'
  BY <1>2, <1>10, <1>15, ConcludeKeepsOrder
<1>18. ReportInv'
  <2>1. /\ IndexesIn(results') \subseteq IndexesIn(results)
        /\ Head(results).type = "SnapshotReplayed" =>
              Head(results).index \in IndexesIn(results) /\ Head(results).index \notin IndexesIn(results')
    BY <1>2, ReceiveDistinct
  <2>2. Reporting' = Reporting /\ Busy("reporting")' = Busy("reporting")
    BY <1>10 DEF Reporting, Busy
  <2>3. Apart(processed', IndexesIn(results'), Reporting')
    BY <1>1, <2>1, <2>2 DEF ReportInv, Apart
  <2> QED BY <1>1, <1>10, <2>2, <2>3 DEF ReportInv
<1>19. DataInv'
  BY <1>12, <1>13, <1>14, <1>16, <1>17, <1>18 DEF DataInv
<1>20. AllocatorsConserved'
  <2>1. PICK f \in Nat, w \in Nat, g \in Nat, c \in Nat, n \in Nat :
          /\ f = free_allocators /\ w = ChunksOnTheWay(results) /\ g = TotalChunks(gpu)
          /\ c = SumFunction(chunks) /\ n = inits_chunks
    BY <1>1, BalanceTerms, FamilySum DEF ProducerInv, DataType
  <2>2. PICK u1 \in Nat, u2 \in Nat, u3 \in Nat, u4 \in Nat :
          /\ u1 = TotalChunks(uninitialized) /\ u2 = SumFunction(unpaired_inits)
          /\ u3 = SumFunction(unpaired_tracing) /\ u4 = ChunksOfFirst(entries, Len(entries))
    BY <1>1, BalanceTerms
  <2>3. PICK v1 \in Nat, v2 \in Nat, v3 \in Nat, v4 \in Nat :
          /\ v1 = TotalChunks(uninitialized') /\ v2 = SumFunction(unpaired_inits')
          /\ v3 = SumFunction(unpaired_tracing') /\ v4 = ChunksOfFirst(entries', Len(entries'))
    <3>1. /\ uninitialized' \in SUBSET TracingMessages /\ IsFiniteSet(uninitialized')
          /\ Table(unpaired_inits') /\ Table(unpaired_tracing') /\ entries' \in Seq(Requests)
      BY Zenon DEF LoopData, Table
    <3> QED BY <3>1, LoopTermsType
  <2>4. PICK x \in Nat, g2 \in Nat, f2 \in Nat, r \in Nat :
          /\ x = ChunksIn(Head(results)) /\ g2 = TotalChunks(gpu') /\ f2 = free_allocators'
          /\ r = TotalChunks(requests)
    <3>1. Head(results) \in Messages
      BY <1>2, Shrunk
    <3>2. Sized(requests) /\ Sized(gpu')
      BY <1>10 DEF Sized, Requests
    <3> QED BY <1>10, <3>1, <3>2, ChunksInMessages, TotalChunksType
  <2>5. f + n + c + w + u1 + g + u2 + u3 + u4 = Allocators
    BY <2>1, <2>2 DEF AllocatorsConserved, ChunksOnTheWay
  <2>6. released + r + (v1 + v2 + v3 + v4) = x + (u1 + u2 + u3 + u4)
    BY <2>2, <2>3, <2>4 DEF LoopChunks
  <2>7. f2 + g2 = f + released + g + r
    BY <1>10, <2>1, <2>4
  <2>8. ChunksOnTheWay(results') = w - x
    BY <1>11, <2>1, <2>4
  <2>9. f2 + n + c + (w - x) + v1 + g2 + v2 + v3 + v4 = Allocators
    BY <2>5, <2>6, <2>7
  <2> QED BY <1>10, <2>1, <2>3, <2>4, <2>8, <2>9 DEF AllocatorsConserved, ChunksOnTheWay
<1> QED BY <1>19, <1>20

\* What trim_cache leaves of the entries.
LEMMA EvictedType ==
  ASSUME NEW list \in Seq(Requests)
  PROVE  Evicted(list) \in 0..Len(list)
<1>1. PICK S : S = {n \in 0..Len(list) :
                      \/ n = Len(list)
                      \/ free_allocators + ChunksOfFirst(list, n) >= MinFreeAllocators}
  OBVIOUS
<1>2. Len(list) \in S /\ S \subseteq Nat /\ S \subseteq 0..Len(list)
  BY <1>1
<1>3. Min(S) \in S
  BY <1>2, MinIsLeast
<1> QED BY <1>1, <1>2, <1>3 DEF Evicted

\* The entries and the chunks left when the first n are evicted ...
LEMMA TrimmedEntries ==
  ASSUME NEW list \in Seq(Requests), NEW n \in 0..Len(list),
         NEW rest, rest = SubSeq(list, n + 1, Len(list))
  PROVE  /\ rest \in Seq(Requests) /\ Len(rest) \in Nat
         /\ Len(rest) = Len(list) - n
         /\ \A i \in DOMAIN rest : i + n \in DOMAIN list /\ rest[i] = list[i + n] /\ i \in Int
         /\ ToSet(rest) \subseteq ToSet(list)
         /\ ChunksOfFirst(list, n) \in Nat
         /\ ChunksOfFirst(list, n) + ChunksOfFirst(rest, Len(rest))
              = ChunksOfFirst(list, Len(list))
<1>1. PICK l \in Nat : l = Len(list) /\ DOMAIN list = 1..l
  OBVIOUS
<1>2. rest \in Seq(Requests) /\ Len(rest) = l - n /\ Len(rest) \in Nat /\ DOMAIN rest = 1..(l - n)
  BY <1>1
<1>3. \A i \in DOMAIN rest : i + n \in DOMAIN list /\ rest[i] = list[i + n] /\ i \in Int
  BY <1>1, <1>2
<1>4. ToSet(rest) \subseteq ToSet(list)
  BY <1>3 DEF ToSet
<1>5. PICK f : f = [i \in 1..l |-> list[i].chunks]
  OBVIOUS
<1>6. \A i \in 1..l : list[i].chunks \in Int
  <2>1. \A i \in 1..l : list[i] \in Requests
    BY <1>1
  <2>2. \A r \in Requests : r.chunks \in Int
    BY DEF Requests
  <2> QED BY <2>1, <2>2
<1>7. f \in [1..l -> Int] /\ n \in 0..l
  BY <1>1, <1>5, <1>6
<1>8. SumFunction([i \in 1..n |-> f[i]]) + SumFunction([i \in 1..(l - n) |-> f[i + n]])
        = SumFunction(f)
  BY <1>7, SumCut
<1>9. [i \in 1..n |-> f[i]] = [i \in 1..n |-> list[i].chunks]
  <2>1. \A i \in 1..n : i \in 1..l
    BY <1>7
  <2> QED BY <1>5, <2>1
<1>10. [i \in 1..(l - n) |-> f[i + n]] = [i \in 1..(l - n) |-> rest[i].chunks]
  <2>1. \A i \in 1..(l - n) : i + n \in 1..l /\ rest[i] = list[i + n]
    BY <1>1, <1>2, <1>3
  <2> QED BY <1>5, <2>1
<1>11. ChunksOfFirst(list, n) \in Nat
  BY FirstType
<1>12. ChunksOfFirst(list, n) + ChunksOfFirst(rest, Len(rest)) = ChunksOfFirst(list, Len(list))
  BY <1>1, <1>2, <1>5, <1>8, <1>9, <1>10 DEF ChunksOfFirst
<1> QED BY <1>1, <1>2, <1>3, <1>4, <1>11, <1>12

\* ... still have different keys.
LEMMA TrimmedKeys ==
  ASSUME NEW list \in Seq(Requests), NEW n \in 0..Len(list),
         NEW rest, rest = SubSeq(list, n + 1, Len(list)),
         \A i, j \in DOMAIN list : i # j => list[i].key # list[j].key
  PROVE  \A i, j \in DOMAIN rest : i # j => rest[i].key # rest[j].key
<1>1. \A i \in DOMAIN rest : i + n \in DOMAIN list /\ rest[i] = list[i + n] /\ i \in Int
  BY TrimmedEntries
<1>2. \A i, j \in DOMAIN rest : i # j => i + n # j + n
  BY <1>1
<1> QED BY <1>1, <1>2

KeysDiffer(list) == \A i, j \in DOMAIN list : i # j => list[i].key # list[j].key

\* A request that joins the cache.
LEMMA AddedEntry ==
  ASSUME NEW list \in Seq(Requests), NEW d \in Requests, NEW longer, longer = Append(list, d),
         KeysDiffer(list),
         \A e \in ToSet(list) : e.key # d.key
  PROVE  /\ longer \in Seq(Requests)
         /\ KeysDiffer(longer)
         /\ ToSet(longer) = ToSet(list) \cup {d}
         /\ ChunksOfFirst(longer, Len(longer)) = ChunksOfFirst(list, Len(list)) + d.chunks
<1>1. PICK l \in Nat : l = Len(list) /\ DOMAIN list = 1..l
  OBVIOUS
<1>2. longer \in Seq(Requests) /\ Len(longer) = l + 1 /\ DOMAIN longer = 1..(l + 1)
  BY <1>1
<1>3. (\A i \in 1..l : longer[i] = list[i]) /\ longer[l + 1] = d
  BY <1>1
<1>4. DOMAIN longer = 1..l \cup {l + 1} /\ \A i \in 1..l : list[i] \in ToSet(list)
  BY <1>1, <1>2 DEF ToSet
<1>5. ToSet(longer) = ToSet(list) \cup {d}
  BY <1>1, <1>3, <1>4 DEF ToSet
<1>6. KeysDiffer(longer)
  BY <1>1, <1>3, <1>4 DEF KeysDiffer
<1>7. PICK A, B : A = 1..l /\ B = 1..(l + 1)
  OBVIOUS
<1>8. /\ A \subseteq B /\ l + 1 \in B
      /\ (\A i \in A : list[i] \in Requests) /\ (\A i \in B : longer[i] \in Requests)
      /\ \A i \in A : longer[i] = list[i]
  BY <1>1, <1>2, <1>3, <1>7
<1>9. \A r \in Requests : r.chunks \in Int
  BY DEF Requests
<1>10. PICK f, g : f = [i \in A |-> list[i].chunks] /\ g = [i \in B |-> longer[i].chunks]
  OBVIOUS
<1>11. f \in [A -> Int] /\ g \in [B -> Int]
  BY <1>8, <1>9, <1>10
<1>12. (\A i \in A : g[i] = f[i]) /\ g[l + 1] = d.chunks
  BY <1>3, <1>8, <1>10
<1>13. SumFunction(g) = SumFunction(f) + g[l + 1]
  <2>1. f \in [1..l -> Int] /\ g \in [1..(l + 1) -> Int] /\ \A i \in 1..l : g[i] = f[i]
    BY <1>7, <1>11, <1>12
  <2> QED BY <2>1, SumAppend
<1>14. /\ ChunksOfFirst(list, Len(list)) = SumFunction(f)
       /\ ChunksOfFirst(longer, Len(longer)) = SumFunction(g)
  BY <1>1, <1>2, <1>7, <1>10 DEF ChunksOfFirst
<1> QED BY <1>2, <1>5, <1>6, <1>12, <1>13, <1>14

\* A message that is received is no longer on its way.
LEMMA TailKeys ==
  ASSUME DataInv, results # <<>>, results' = Tail(results)
  PROVE  /\ KeysIn(results', "TracingData") \subseteq KeysIn(results, "TracingData")
         /\ KeysIn(results', "InitsAndTeardownsData") \subseteq KeysIn(results, "InitsAndTeardownsData")
         /\ Head(results) \in Messages
         /\ Head(results).type \in Keyed =>
              /\ Head(results).key \in KeysIn(results, Head(results).type)
              /\ Head(results).key \notin KeysIn(results', Head(results).type)
<1>1. results \in Seq(Messages) /\ DistinctMessages(results)
  BY DEF DataInv, DataType, KeyInv
<1>2. \A type \in Keyed :
         /\ KeysIn(results', type) = IF Head(results).type = type
                                     THEN KeysIn(results, type) \ {Head(results).key}
                                     ELSE KeysIn(results, type)
         /\ Head(results).type = type => Head(results).key \in KeysIn(results, type)
  BY <1>1, ReceiveKeys
<1>3. Head(results) \in Messages
  BY <1>1, Shrunk
<1> QED BY <1>2, <1>3 DEF Keyed

\* The loop keeps its data while it receives a message.
LEMMA QuietLoop ==
  ASSUME DataInv, results # <<>>, results' = Tail(results),
         UNCHANGED <<caching, proving, inits_index, trivial, uninitialized, unpaired_inits,
                     unpaired_tracing>>,
         entries' \in Seq(Requests),
         \A i, j \in DOMAIN entries' : i # j => entries'[i].key # entries'[j].key,
         EntryKeys' \subseteq completed'
  PROVE  /\ LoopData' /\ Upstream' \subseteq Upstream /\ (NothingWaits => NothingWaits')
<1>1. /\ KeysIn(results', "TracingData") \subseteq KeysIn(results, "TracingData")
      /\ KeysIn(results', "InitsAndTeardownsData") \subseteq KeysIn(results, "InitsAndTeardownsData")
  BY TailKeys
<1>2. UninitializedKeys' = UninitializedKeys /\ UnpairedKeys' = UnpairedKeys
  BY DEF UninitializedKeys, UnpairedKeys
<1>3. LoopData
  BY LoopHasData
<1>4. Apart(KeysIn(results', "TracingData"), UninitializedKeys', UnpairedKeys')
  BY <1>1, <1>2, <1>3 DEF LoopData, Apart
<1>5. \A q \in DOMAIN unpaired_inits' :
       \/ caching' /\ proving' /\ q < trivial'
       \/ q < inits_index' /\ <<InitsCircuit, q>> \notin KeysIn(results', "InitsAndTeardownsData")
  BY <1>1, <1>3 DEF LoopData
<1>6. LoopData'
  BY <1>3, <1>4, <1>5 DEF LoopData, Table, KeyedOnce
<1>7. Upstream' \subseteq Upstream
  BY <1>1, <1>2 DEF Upstream
<1>8. NothingWaits => NothingWaits'
  BY DEF NothingWaits, NoData
<1> QED BY <1>6, <1>7, <1>8

\* A message that leads to no request.
LEMMA NoRequests == {} \subseteq Requests /\ IsFiniteSet({}) /\ KeyedOnce({}) /\ TotalChunks({}) = 0
  BY FS_EmptySet, TotalChunksEmpty DEF KeyedOnce

\* A handler that ends with trim_cache, with the list of entries it trims.
LEMMA TrimKeeps ==
  ASSUME DataInv, AllocatorsConserved, main = "loop", results # <<>>,
         NEW list \in Seq(Requests), Trim(list),
         \A i, j \in DOMAIN list : i # j => list[i].key # list[j].key,
         {d.key : d \in ToSet(list)} \subseteq completed',
         ChunksOfFirst(list, Len(list)) = ChunksOfFirst(entries, Len(entries)) + ChunksIn(Head(results)),
         UNCHANGED <<trivial, uninitialized, processed, unpaired_inits, unpaired_tracing>>,
         completed' = IF Head(results).type = "GpuWorkResult"
                      THEN completed \cup {Head(results).key} ELSE completed
  PROVE  DataInv' /\ AllocatorsConserved'
<1>1. PICK n \in 0..Len(list) : n = Evicted(list)
  BY EvictedType
<1>2. PICK released, rest :
        released = ChunksOfFirst(list, n) /\ rest = SubSeq(list, n + 1, Len(list))
  OBVIOUS
<1>3. entries' = rest /\ Conclude({}, released, simulation_result)
  BY <1>1, <1>2 DEF Trim
<1>4. /\ rest \in Seq(Requests) /\ released \in Nat
      /\ ToSet(rest) \subseteq ToSet(list)
      /\ released + ChunksOfFirst(rest, Len(rest)) = ChunksOfFirst(list, Len(list))
  BY <1>2, TrimmedEntries
<1>5. \A i, j \in DOMAIN rest : i # j => rest[i].key # rest[j].key
  BY <1>2, TrimmedKeys
<1>6. EntryKeys' \subseteq completed'
  BY <1>3, <1>4 DEF EntryKeys
<1>7. UNCHANGED <<caching, proving, inits_index>> /\ results' = Tail(results)
  BY <1>3 DEF Conclude, simulatorVars
<1>8. LoopData' /\ Upstream' \subseteq Upstream /\ (NothingWaits => NothingWaits')
  BY <1>3, <1>4, <1>5, <1>6, <1>7, QuietLoop
<1>9. released + TotalChunks({}) + LoopChunks' = ChunksIn(Head(results)) + LoopChunks
  <2>1. PICK u1 \in Nat, u2 \in Nat, u3 \in Nat, u4 \in Nat :
          /\ u1 = TotalChunks(uninitialized) /\ u2 = SumFunction(unpaired_inits)
          /\ u3 = SumFunction(unpaired_tracing) /\ u4 = ChunksOfFirst(entries, Len(entries))
    BY BalanceTerms DEF DataInv
  <2>2. PICK v4 \in Nat, x \in Nat : v4 = ChunksOfFirst(rest, Len(rest)) /\ x = ChunksIn(Head(results))
    <3>1. Len(rest) \in 0..Len(rest)
      BY <1>4
    <3> QED BY <1>4, <1>7, <3>1, FirstType, TailKeys, ChunksInMessages
  <2>3. released + v4 = u4 + x
    BY <1>4, <2>1, <2>2
  <2>4. LoopChunks = u1 + u2 + u3 + u4 /\ LoopChunks' = u1 + u2 + u3 + v4
    BY <1>3, <2>1, <2>2 DEF LoopChunks
  <2>5. PICK r \in Nat : r = released
    BY <1>4
  <2>6. r + 0 + (u1 + u2 + u3 + v4) = x + (u1 + u2 + u3 + u4)
    BY <2>3, <2>5
  <2>7. TotalChunks({}) = 0
    BY NoRequests
  <2> QED BY <2>2, <2>4, <2>5, <2>6, <2>7
<1>10. simulation_result \in BOOLEAN
  BY DEF DataInv, DataType
<1> QED BY <1>3, <1>4, <1>8, <1>9, <1>10, NoRequests, HandlerKeeps

\* A message that frees its chunks, if it has any.
LEMMA ReleaseKeeps ==
  ASSUME DataInv, AllocatorsConserved, main = "loop", results # <<>>,
         NEW simulated \in BOOLEAN, Conclude({}, ChunksIn(Head(results)), simulated),
         simulation_result => simulated,
         simulated => simulation_result \/ Head(results).type = "SimulationResult",
         UNCHANGED <<entries, trivial, uninitialized, processed, unpaired_inits, unpaired_tracing>>,
         completed' = IF Head(results).type = "GpuWorkResult"
                      THEN completed \cup {Head(results).key} ELSE completed
  PROVE  DataInv' /\ AllocatorsConserved'
<1>1. UNCHANGED <<caching, proving, inits_index>> /\ results' = Tail(results)
  BY DEF Conclude, simulatorVars
<1>2. ChunksIn(Head(results)) \in Nat
  BY <1>1, TailKeys, ChunksInMessages
<1>3. /\ entries \in Seq(Requests) /\ EntryKeys' \subseteq completed'
      /\ \A i, j \in DOMAIN entries : i # j => entries[i].key # entries[j].key
  BY DEF DataInv, DataType, KeyInv, EntryKeys
<1>4. LoopData' /\ Upstream' \subseteq Upstream /\ (NothingWaits => NothingWaits')
  BY <1>1, <1>3, QuietLoop
<1>5. LoopChunks' = LoopChunks /\ LoopChunks \in Nat
  BY LoopHasData DEF LoopChunks
<1>6. ChunksIn(Head(results)) + TotalChunks({}) + LoopChunks' = ChunksIn(Head(results)) + LoopChunks
  BY <1>2, <1>5, NoRequests
<1> QED BY <1>2, <1>4, <1>6, NoRequests, HandlerKeeps

\* A handler of a type of message finds one at the head of the channel.
LEMMA MessageIs ==
  ASSUME DataInv, NEW type, Message(type)
  PROVE  main = "loop" /\ results # <<>> /\ Head(results).type = type /\ Head(results) \in Messages
BY Shrunk DEF Message, DataInv, DataType

\* The handler of SnapshotProduced.
LEMMA SnapshotProducedKeeps ==
  ASSUME DataInv, AllocatorsConserved, HandleSnapshotProduced
  PROVE  DataInv' /\ AllocatorsConserved'
<1>1. /\ main = "loop" /\ results # <<>> /\ Head(results).type = "SnapshotProduced"
      /\ Head(results) \in Messages
  BY MessageIs DEF HandleSnapshotProduced
<1>2. ChunksIn(Head(results)) = 0
  BY <1>1, ChunksInMessages
<1>3. UNCHANGED <<trivial, uninitialized, processed, unpaired_inits, unpaired_tracing, completed>>
  BY DEF HandleSnapshotProduced, resultVars
<1>4. simulation_result \in BOOLEAN
  BY DEF DataInv, DataType
<1>5. CASE Trim(entries)
  <2>1. /\ entries \in Seq(Requests) /\ {d.key : d \in ToSet(entries)} \subseteq completed'
        /\ \A i, j \in DOMAIN entries : i # j => entries[i].key # entries[j].key
    BY <1>3 DEF DataInv, DataType, KeyInv, EntryKeys
  <2>2. ChunksOfFirst(entries, Len(entries)) = ChunksOfFirst(entries, Len(entries)) + ChunksIn(Head(results))
    BY <1>2, BalanceTerms DEF DataInv
  <2> QED BY <1>1, <1>3, <1>5, <2>1, <2>2, TrimKeeps
<1>6. CASE Conclude({}, 0, simulation_result) /\ UNCHANGED entries
  BY <1>1, <1>2, <1>3, <1>4, <1>6, ReleaseKeeps
<1> QED BY <1>5, <1>6 DEF HandleSnapshotProduced

\* The handler of SimulationResult.
LEMMA SimulationResultKeeps ==
  ASSUME DataInv, AllocatorsConserved, HandleSimulationResult
  PROVE  DataInv' /\ AllocatorsConserved'
<1>1. /\ main = "loop" /\ results # <<>> /\ Head(results).type = "SimulationResult"
      /\ Head(results) \in Messages
  BY MessageIs DEF HandleSimulationResult
<1>2. ChunksIn(Head(results)) = 0
  BY <1>1, ChunksInMessages
<1>3. UNCHANGED <<trivial, uninitialized, processed, unpaired_inits, unpaired_tracing, completed,
                  entries>>
  BY DEF HandleSimulationResult, resultVars
<1>4. Conclude({}, 0, TRUE)
  BY DEF HandleSimulationResult
<1> QED BY <1>1, <1>2, <1>3, <1>4, ReleaseKeeps

\* The handler of GpuWorkResult: the answer's chunks are released or cached.
LEMMA GpuWorkResultKeeps ==
  ASSUME DataInv, AllocatorsConserved, HandleGpuWorkResult
  PROVE  DataInv' /\ AllocatorsConserved'
<1>1. /\ main = "loop" /\ results # <<>> /\ Head(results).type = "GpuWorkResult"
      /\ Head(results) \in Messages
  BY MessageIs DEF HandleGpuWorkResult
<1>2. PICK done : done = Request(Head(results).key, Head(results).chunks)
  OBVIOUS
<1>3. /\ done \in Requests /\ done.key = Head(results).key
      /\ done.chunks = ChunksIn(Head(results))
  <2>1. Head(results) \in Answers
    BY <1>1, MessageKinds
  <2> QED BY <1>1, <1>2, <2>1, ChunksInMessages DEF Request, Requests, Answers
<1>4. /\ UNCHANGED <<trivial, uninitialized, processed, unpaired_inits, unpaired_tracing>>
      /\ completed' = completed \cup {done.key}
      /\ \/ Conclude({}, done.chunks, simulation_result) /\ UNCHANGED entries
         \/ Conclude({}, 0, simulation_result) /\ entries' = Append(entries, done)
         \/ Trim(Append(entries, done))
  BY <1>2, Zenon DEF HandleGpuWorkResult
<1>5. /\ simulation_result \in BOOLEAN /\ entries \in Seq(Requests)
      /\ \A i, j \in DOMAIN entries : i # j => entries[i].key # entries[j].key
      /\ EntryKeys \subseteq completed
  BY DEF DataInv, DataType, KeyInv
<1>6. \A e \in ToSet(entries) : e.key # done.key
  <2>1. KeysIn(results, "GpuWorkResult") \cap completed = {}
    BY DEF DataInv, KeyInv, Apart
  <2>2. results' = Tail(results)
    BY <1>4 DEF Trim, Conclude
  <2>3. done.key \in KeysIn(results, "GpuWorkResult")
    BY <1>1, <1>3, <2>2, TailKeys DEF Keyed
  <2> QED BY <1>5, <2>1, <2>3 DEF EntryKeys
<1>7. PICK longer : longer = Append(entries, done)
  OBVIOUS
<1>8. /\ longer \in Seq(Requests)
      /\ \A i, j \in DOMAIN longer : i # j => longer[i].key # longer[j].key
      /\ ToSet(longer) = ToSet(entries) \cup {done}
      /\ ChunksOfFirst(longer, Len(longer)) = ChunksOfFirst(entries, Len(entries)) + done.chunks
  <2>1. PICK s : s = entries
    OBVIOUS
  <2>2. /\ s \in Seq(Requests) /\ longer = Append(s, done) /\ done \in Requests
        /\ KeysDiffer(s) /\ \A e \in ToSet(s) : e.key # done.key
    BY <1>3, <1>5, <1>6, <1>7, <2>1 DEF KeysDiffer
  <2>3. /\ longer \in Seq(Requests) /\ KeysDiffer(longer)
        /\ ToSet(longer) = ToSet(s) \cup {done}
        /\ ChunksOfFirst(longer, Len(longer)) = ChunksOfFirst(s, Len(s)) + done.chunks
    BY <2>2, AddedEntry
  <2> QED BY <2>1, <2>3 DEF KeysDiffer
<1>9. {d.key : d \in ToSet(longer)} \subseteq completed'
  BY <1>4, <1>5, <1>8 DEF EntryKeys
<1>10. completed' = IF Head(results).type = "GpuWorkResult"
                    THEN completed \cup {Head(results).key} ELSE completed
  BY <1>1, <1>3, <1>4
<1>11. CASE Conclude({}, done.chunks, simulation_result) /\ UNCHANGED entries
  BY <1>1, <1>3, <1>4, <1>5, <1>10, <1>11, ReleaseKeeps
<1>12. CASE Trim(Append(entries, done))
  BY <1>1, <1>3, <1>4, <1>7, <1>8, <1>9, <1>10, <1>12, TrimKeeps
<1>13. CASE Conclude({}, 0, simulation_result) /\ entries' = Append(entries, done)
  <2>1. UNCHANGED <<caching, proving, inits_index>> /\ results' = Tail(results)
    BY <1>13 DEF Conclude, simulatorVars
  <2>2. EntryKeys' \subseteq completed'
    BY <1>7, <1>9, <1>13 DEF EntryKeys
  <2>3. LoopData' /\ Upstream' \subseteq Upstream /\ (NothingWaits => NothingWaits')
    BY <1>1, <1>4, <1>7, <1>8, <1>13, <2>1, <2>2, QuietLoop
  <2>4. 0 + TotalChunks({}) + LoopChunks' = ChunksIn(Head(results)) + LoopChunks
    <3>1. PICK u1 \in Nat, u2 \in Nat, u3 \in Nat, u4 \in Nat :
            /\ u1 = TotalChunks(uninitialized) /\ u2 = SumFunction(unpaired_inits)
            /\ u3 = SumFunction(unpaired_tracing) /\ u4 = ChunksOfFirst(entries, Len(entries))
      BY BalanceTerms DEF DataInv
    <3>2. PICK x \in Nat : x = ChunksIn(Head(results)) /\ x = done.chunks
      BY <1>1, <1>3, ChunksInMessages
    <3>3. ChunksOfFirst(entries', Len(entries')) = u4 + x
      BY <1>7, <1>8, <1>13, <3>1, <3>2
    <3>4. LoopChunks = u1 + u2 + u3 + u4 /\ LoopChunks' = u1 + u2 + u3 + (u4 + x)
      BY <1>4, <3>1, <3>3 DEF LoopChunks
    <3>5. TotalChunks({}) = 0
      BY NoRequests
    <3> QED BY <3>2, <3>4, <3>5
  <2> QED BY <1>1, <1>4, <1>5, <1>10, <1>13, <2>3, <2>4, NoRequests, HandlerKeeps
<1> QED BY <1>4, <1>11, <1>12, <1>13

\* A table with one more entry ...
LEMMA WithEffect ==
  ASSUME NEW f, Table(f), NEW q \in Nat, q \notin DOMAIN f, NEW n \in Nat, NEW g, g = With(f, q, n)
  PROVE  /\ Table(g) /\ DOMAIN g = DOMAIN f \cup {q}
         /\ SumFunction(g) = SumFunction(f) + n
<1>1. PICK S : S = DOMAIN f
  OBVIOUS
<1>2. IsFiniteSet(S) /\ S \subseteq Nat /\ f \in [S -> Nat] /\ q \notin S
  BY <1>1 DEF Table
<1>3. DOMAIN g = S \cup {q} /\ g[q] = n /\ g \in [S \cup {q} -> Nat] /\ \A p \in S : g[p] = f[p]
  BY <1>1, <1>2 DEF With
<1>4. IsFiniteSet(S \cup {q})
  BY <1>2, FS_AddElement
<1>5. SumFunction(g) = SumFunction(f) + g[q]
  <2>1. f \in [S -> Int] /\ g \in [S \cup {q} -> Int]
    BY <1>2, <1>3
  <2>2. \A y \in S : g[y] = f[y]
    BY <1>3
  <2>3. IsFiniteSet(S) /\ q \notin S
    BY <1>2
  <2> QED BY <2>1, <2>2, <2>3, SumAdd
<1>6. Table(g)
  BY <1>2, <1>3, <1>4 DEF Table
<1> QED BY <1>1, <1>3, <1>5, <1>6

\* ... and its sum.
LEMMA WithSum ==
  ASSUME NEW f, Table(f), NEW q \in Nat, q \notin DOMAIN f, NEW n \in Nat
  PROVE  SumFunction(With(f, q, n)) = SumFunction(f) + n
  BY WithEffect

\* An entry and the rest of its table sum up to the table ...
LEMMA WithoutBalance ==
  ASSUME NEW f, Table(f), NEW q \in DOMAIN f
  PROVE  SumFunction(f) = f[q] + SumFunction(Without(f, q))
<1>1. PICK S : S = DOMAIN f
  OBVIOUS
<1>2. IsFiniteSet(S) /\ f \in [S -> Int] /\ q \in S
  BY <1>1 DEF Table
<1>3. Without(f, q) = But(f, q)
  BY DEF Without, But
<1> QED BY <1>2, <1>3, SumBut

\* ... and the rest is a table.
LEMMA WithoutSum ==
  ASSUME NEW f, Table(f), NEW q \in DOMAIN f, NEW g, g = Without(f, q)
  PROVE  /\ Table(g) /\ DOMAIN g = DOMAIN f \ {q}
         /\ SumFunction(g) \in Nat /\ f[q] \in Nat
         /\ SumFunction(f) = f[q] + SumFunction(g)
<1>1. PICK S : S = DOMAIN f
  OBVIOUS
<1>2. IsFiniteSet(S) /\ S \subseteq Nat /\ f \in [S -> Nat] /\ q \in S
  BY <1>1 DEF Table
<1>3. SumFunction(f) = f[q] + SumFunction(g)
  BY WithoutBalance
<1>4. DOMAIN g = S \ {q} /\ g \in [S \ {q} -> Nat]
  BY <1>1, <1>2 DEF Without
<1>5. IsFiniteSet(S \ {q})
  BY <1>2, FS_RemoveElement
<1>6. Table(g)
  BY <1>2, <1>4, <1>5 DEF Table
<1> QED BY <1>1, <1>2, <1>3, <1>4, <1>6, TableSum

\* The handler of InitsAndTeardownsData, unrolled machines.
LEMMA InitsKeeps ==
  ASSUME DataInv, AllocatorsConserved, HandleInits
  PROVE  DataInv' /\ AllocatorsConserved'
<1>1. /\ main = "loop" /\ results # <<>> /\ Head(results).type = "InitsAndTeardownsData"
      /\ Head(results) \in Messages
  BY MessageIs DEF HandleInits
<1>2. Head(results) \in InitsMessages /\ ChunksIn(Head(results)) = Head(results).chunks
  BY <1>1, MessageKinds, ChunksInMessages
<1>3. PICK d, requests : d = Request(Head(results).key, Head(results).chunks) /\ requests = {d}
  OBVIOUS
<1>4. /\ ~Unified /\ Conclude(requests, 0, simulation_result)
      /\ UNCHANGED <<trivial, uninitialized, processed, unpaired_inits, unpaired_tracing,
                     completed, entries>>
  BY <1>3 DEF HandleInits
<1>5. /\ d \in Requests /\ d.key = Head(results).key /\ d.key \in {InitsCircuit} \X Nat
      /\ d.chunks = ChunksIn(Head(results)) /\ d.chunks \in Nat
  BY <1>2, <1>3 DEF Request, Requests, InitsMessages, Keys
<1>6. UNCHANGED <<caching, proving, inits_index>> /\ results' = Tail(results)
  BY <1>4 DEF Conclude, simulatorVars
<1>7. /\ entries \in Seq(Requests) /\ EntryKeys' \subseteq completed'
      /\ \A i, j \in DOMAIN entries : i # j => entries[i].key # entries[j].key
      /\ simulation_result \in BOOLEAN
  BY <1>4 DEF DataInv, DataType, KeyInv, EntryKeys
<1>8. LoopData' /\ Upstream' \subseteq Upstream /\ (NothingWaits => NothingWaits')
  BY <1>1, <1>4, <1>6, <1>7, QuietLoop
<1>9. /\ d.key \in KeysIn(results, "InitsAndTeardownsData")
      /\ d.key \notin KeysIn(results', "InitsAndTeardownsData")
  BY <1>1, <1>5, <1>6, TailKeys DEF Keyed
<1>10. d.key \in Upstream /\ d.key \notin Upstream'
  <2>1. d.key[1] \notin Families /\ d.key[1] # "Unified"
    BY <1>4, <1>5, InitsCircuitKind
  <2>2. d.key \notin UninitializedKeys'
    <3>1. \A data \in uninitialized : data.key[1] \in Families
      BY DEF DataInv, DataType, TracingMessages
    <3> QED BY <1>4, <2>1, <3>1 DEF UninitializedKeys
  <2>3. d.key \notin UnpairedKeys'
    BY <1>4, <2>1 DEF UnpairedKeys
  <2>4. d.key \notin KeysIn(results', "TracingData")
    <3>1. \A i \in DOMAIN results : results[i] \in Messages
      BY DEF DataInv, DataType
    <3>2. \A i \in DOMAIN results : results[i].type = "TracingData" => results[i].key[1] \in Families
      BY <3>1, MessageKinds DEF TracingMessages
    <3>3. d.key \notin KeysIn(results, "TracingData")
      BY <2>1, <3>2 DEF KeysIn
    <3> QED BY <1>1, <1>6, <3>3, TailKeys
  <2> QED BY <1>4, <1>9, <2>2, <2>3, <2>4 DEF Upstream
<1>11. /\ requests \subseteq Requests /\ IsFiniteSet(requests) /\ KeyedOnce(requests)
       /\ TotalChunks(requests) = d.chunks
  BY <1>3, <1>5, FS_Singleton, TotalChunksOne DEF KeyedOnce
<1>12. 0 + TotalChunks(requests) + LoopChunks' = ChunksIn(Head(results)) + LoopChunks
  <2>1. LoopChunks' = LoopChunks /\ LoopChunks \in Nat
    BY <1>4, LoopHasData DEF LoopChunks
  <2> QED BY <1>5, <1>11, <2>1
<1>13. \A request \in requests : request.key \in Upstream /\ request.key \notin Upstream'
  BY <1>3, <1>10
<1> QED BY <1>1, <1>4, <1>7, <1>8, <1>11, <1>12, <1>13, HandlerKeeps

\* Inits and teardowns of a circuit of the unified machine that is not awaited:
\* there is nothing to free.
LEMMA UnawaitedKeeps ==
  ASSUME DataInv, AllocatorsConserved, main = "loop", results # <<>>,
         Head(results).type = "InitsAndTeardownsData", Head(results).key[2] < trivial,
         Conclude({}, 0, simulation_result),
         UNCHANGED <<entries, trivial, uninitialized, processed, unpaired_inits, unpaired_tracing,
                     completed>>
  PROVE  DataInv' /\ AllocatorsConserved'
<1>1. Head(results) = results[1] /\ 1 \in DOMAIN results /\ Head(results) \in Messages
  BY Shrunk DEF DataInv, DataType
<1>2. Head(results).chunks = 0
  <2>1. Head(results).chunks = 0 <=> Head(results).key[2] < EmptyCircuits
    BY <1>1 DEF DataInv, InitsInv
  <2>2. Head(results).key[2] \in Nat
    BY <1>1, MessageKinds DEF InitsMessages
  <2>3. trivial \in Nat /\ trivial <= EmptyCircuits
    BY DEF DataInv, DataType, InitsInv
  <2> QED BY <2>1, <2>2, <2>3, EmptyType
<1>3. ChunksIn(Head(results)) = 0
  BY <1>1, <1>2, ChunksInMessages
<1>4. simulation_result \in BOOLEAN
  BY DEF DataInv, DataType
<1> QED BY <1>3, <1>4, ReleaseKeeps

\* How many circuits without inits and teardowns are known.
LEMMA TrivialGrows ==
  ASSUME DataInv, results # <<>>, Head(results).type = "InitsAndTeardownsData",
         \/ trivial' = trivial
         \/ /\ trivial' = Head(results).key[2] + 1
            /\ Head(results).chunks = 0 /\ Head(results).key[2] >= trivial
  PROVE  trivial' \in Nat /\ trivial' <= EmptyCircuits /\ trivial <= trivial'
<1>1. Head(results) = results[1] /\ 1 \in DOMAIN results /\ Head(results) \in Messages
  BY Shrunk DEF DataInv, DataType
<1>2. Head(results).chunks = 0 <=> Head(results).key[2] < EmptyCircuits
  BY <1>1 DEF DataInv, InitsInv
<1>3. Head(results).key[2] \in Nat
  BY <1>1, MessageKinds DEF InitsMessages
<1>4. trivial \in Nat /\ trivial <= EmptyCircuits
  BY DEF DataInv, DataType, InitsInv
<1> QED BY <1>2, <1>3, <1>4, EmptyType

\* The inits and teardowns wait for the tracing data of their circuit.
LEMMA InitsWait ==
  ASSUME DataInv, AllocatorsConserved, Unified, main = "loop", results # <<>>,
         Head(results).type = "InitsAndTeardownsData",
         ~proving \/ ~caching \/ Head(results).key[2] >= trivial,
         Conclude({}, 0, simulation_result),
         \/ trivial' = trivial
         \/ /\ trivial' = Head(results).key[2] + 1
            /\ Head(results).chunks = 0 /\ Head(results).key[2] >= trivial,
         unpaired_inits' = With(unpaired_inits, Head(results).key[2], Head(results).chunks),
         UNCHANGED <<entries, uninitialized, processed, unpaired_tracing, completed>>
  PROVE  DataInv' /\ AllocatorsConserved'
<1>1. Head(results) \in Messages /\ Head(results) \in InitsMessages
  BY Shrunk, MessageKinds DEF DataInv, DataType
<1>2. PICK q \in Nat, n \in Nat : q = Head(results).key[2] /\ n = Head(results).chunks
  BY <1>1 DEF InitsMessages
<1>3. q \in Nat /\ n \in Nat /\ n = ChunksIn(Head(results)) /\ Head(results).key = <<InitsCircuit, q>>
  BY <1>1, <1>2, ChunksInMessages DEF InitsMessages
<1>4. UNCHANGED <<caching, proving, inits_index>> /\ results' = Tail(results)
  BY DEF Conclude, simulatorVars
<1>5. /\ KeysIn(results', "TracingData") \subseteq KeysIn(results, "TracingData")
      /\ KeysIn(results', "InitsAndTeardownsData") \subseteq KeysIn(results, "InitsAndTeardownsData")
      /\ <<InitsCircuit, q>> \in KeysIn(results, "InitsAndTeardownsData")
      /\ <<InitsCircuit, q>> \notin KeysIn(results', "InitsAndTeardownsData")
  BY <1>3, <1>4, TailKeys DEF Keyed
<1>6. trivial' \in Nat /\ trivial' <= EmptyCircuits /\ trivial <= trivial' /\ trivial \in Nat
  BY TrivialGrows DEF DataInv, DataType
<1>7. LoopData /\ LoopChunks \in Nat /\ Table(unpaired_inits) /\ Table(unpaired_tracing)
  BY LoopHasData DEF DataInv, DataType
<1>8. q \notin DOMAIN unpaired_inits /\ DOMAIN unpaired_inits \subseteq Nat
  <2>1. \A p \in DOMAIN unpaired_inits :
          \/ caching /\ proving /\ p < trivial
          \/ <<InitsCircuit, p>> \notin KeysIn(results, "InitsAndTeardownsData")
    BY <1>7 DEF LoopData
  <2> QED BY <1>2, <1>5, <1>6, <1>7, <2>1 DEF Table
<1>9. /\ Table(unpaired_inits') /\ DOMAIN unpaired_inits' = DOMAIN unpaired_inits \cup {q}
      /\ SumFunction(unpaired_inits') = SumFunction(unpaired_inits) + n
  <2>1. PICK f, g : f = unpaired_inits /\ g = unpaired_inits'
    OBVIOUS
  <2>2. Table(f) /\ q \notin DOMAIN f /\ g = With(f, q, n)
    BY <1>2, <1>7, <1>8, <2>1, Zenon
  <2>3. Table(g) /\ DOMAIN g = DOMAIN f \cup {q} /\ SumFunction(g) = SumFunction(f) + n
    <3>1. Table(g)
      BY <2>2, WithEffect
    <3>2. DOMAIN g = DOMAIN f \cup {q}
      BY <2>2, WithEffect
    <3>3. SumFunction(With(f, q, n)) = SumFunction(f) + n
      BY <2>2, WithSum
    <3> QED BY <2>2, <3>1, <3>2, <3>3, Zenon
  <2> QED BY <2>1, <2>3
<1>10. UninitializedKeys' = UninitializedKeys /\ UnpairedKeys' = UnpairedKeys /\ EntryKeys' = EntryKeys
  BY DEF UninitializedKeys, UnpairedKeys, EntryKeys
<1>11. Upstream' \subseteq Upstream
  BY <1>5, <1>10 DEF Upstream
<1>12. LoopData'
  <2>1. Apart(KeysIn(results', "TracingData"), UninitializedKeys', UnpairedKeys')
    BY <1>5, <1>7, <1>10 DEF LoopData, Apart
  <2>2. ASSUME NEW p \in DOMAIN unpaired_inits'
        PROVE  \/ caching' /\ proving' /\ p < trivial'
               \/ /\ p < inits_index'
                  /\ <<InitsCircuit, p>> \notin KeysIn(results', "InitsAndTeardownsData")
    <3>1. CASE p = q
      <4>1. <<InitsCircuit, q>>[2] < inits_index
        BY <1>5 DEF DataInv, KeyInv
      <4> QED BY <1>4, <1>5, <3>1, <4>1
    <3>2. CASE p # q
      <4>1. p \in DOMAIN unpaired_inits /\ p \in Nat
        BY <1>8, <1>9, <3>2
      <4>2. \/ caching /\ proving /\ p < trivial
            \/ p < inits_index /\ <<InitsCircuit, p>> \notin KeysIn(results, "InitsAndTeardownsData")
        BY <1>7, <4>1 DEF LoopData
      <4> QED BY <1>4, <1>5, <1>6, <4>1, <4>2
    <3> QED BY <3>1, <3>2
  <2> QED BY <1>6, <1>7, <1>9, <1>10, <2>1, <2>2 DEF LoopData, Table, KeyedOnce
<1>13. 0 + TotalChunks({}) + LoopChunks' = ChunksIn(Head(results)) + LoopChunks
  <2>1. PICK u1 \in Nat, u2 \in Nat, u3 \in Nat, u4 \in Nat :
          /\ u1 = TotalChunks(uninitialized) /\ u2 = SumFunction(unpaired_inits)
          /\ u3 = SumFunction(unpaired_tracing) /\ u4 = ChunksOfFirst(entries, Len(entries))
    BY BalanceTerms DEF DataInv
  <2>2. LoopChunks = u1 + u2 + u3 + u4 /\ LoopChunks' = u1 + (u2 + n) + u3 + u4
    BY <1>9, <2>1 DEF LoopChunks
  <2>3. TotalChunks({}) = 0
    BY NoRequests
  <2> QED BY <1>3, <2>2, <2>3
<1>14. simulation_result \in BOOLEAN /\ Head(results).type \in FromSimulator
  BY DEF DataInv, DataType, FromSimulator
<1> QED BY <1>11, <1>12, <1>13, <1>14, NoRequests, HandlerKeeps

\* The tracing data of the circuit was waiting: both become a request.
LEMMA InitsPair ==
  ASSUME DataInv, AllocatorsConserved, Unified, main = "loop", results # <<>>,
         Head(results).type = "InitsAndTeardownsData",
         Head(results).key[2] \in DOMAIN unpaired_tracing,
         NEW d, d = Request(Head(results).key,
                            Head(results).chunks + unpaired_tracing[Head(results).key[2]]),
         NEW requests, requests = {d}, Conclude(requests, 0, simulation_result),
         \/ trivial' = trivial
         \/ /\ trivial' = Head(results).key[2] + 1
            /\ Head(results).chunks = 0 /\ Head(results).key[2] >= trivial,
         unpaired_tracing' = Without(unpaired_tracing, Head(results).key[2]),
         UNCHANGED <<entries, uninitialized, processed, unpaired_inits, completed>>
  PROVE  DataInv' /\ AllocatorsConserved'
<1>1. Head(results) \in Messages /\ Head(results) \in InitsMessages
  BY Shrunk, MessageKinds DEF DataInv, DataType
<1>2. PICK q \in Nat, n \in Nat : q = Head(results).key[2] /\ n = Head(results).chunks
  BY <1>1 DEF InitsMessages
<1>3. n = ChunksIn(Head(results)) /\ Head(results).key = <<"Unified", q>>
  BY <1>1, <1>2, ChunksInMessages, InitsCircuitKind DEF InitsMessages
<1>4. UNCHANGED <<caching, proving, inits_index>> /\ results' = Tail(results)
  BY DEF Conclude, simulatorVars
<1>5. /\ KeysIn(results', "TracingData") \subseteq KeysIn(results, "TracingData")
      /\ KeysIn(results', "InitsAndTeardownsData") \subseteq KeysIn(results, "InitsAndTeardownsData")
  BY <1>4, TailKeys
<1>6. trivial' \in Nat /\ trivial' <= EmptyCircuits /\ trivial <= trivial' /\ trivial \in Nat
  BY TrivialGrows DEF DataInv, DataType
<1>7. LoopData /\ LoopChunks \in Nat /\ Table(unpaired_inits) /\ Table(unpaired_tracing)
  BY LoopHasData DEF DataInv, DataType
<1>8. PICK c : c = unpaired_tracing[q]
  OBVIOUS
<1>9. /\ c \in Nat /\ Table(unpaired_tracing') /\ SumFunction(unpaired_tracing') \in Nat
      /\ DOMAIN unpaired_tracing' = DOMAIN unpaired_tracing \ {q}
      /\ SumFunction(unpaired_tracing) = c + SumFunction(unpaired_tracing')
  <2>1. PICK f, g : f = unpaired_tracing /\ g = unpaired_tracing'
    OBVIOUS
  <2>2. Table(f) /\ q \in DOMAIN f /\ g = Without(f, q)
    BY <1>2, <1>7, <2>1, Zenon
  <2>3. Table(g) /\ DOMAIN g = DOMAIN f \ {q} /\ f[q] \in Nat /\ SumFunction(g) \in Nat
    BY <2>2, WithoutSum
  <2>4. SumFunction(f) = f[q] + SumFunction(g)
    BY <2>2, WithoutBalance
  <2> QED BY <1>8, <2>1, <2>3, <2>4
<1>10. /\ UninitializedKeys' = UninitializedKeys /\ EntryKeys' = EntryKeys
       /\ UnpairedKeys' = UnpairedKeys \ {<<"Unified", q>>} /\ <<"Unified", q>> \in UnpairedKeys
  BY <1>2, <1>9 DEF UninitializedKeys, UnpairedKeys, EntryKeys
<1>11. Apart(KeysIn(results, "TracingData"), UninitializedKeys, UnpairedKeys)
  BY <1>7 DEF LoopData
<1>12. Upstream' \subseteq Upstream /\ <<"Unified", q>> \in Upstream /\ <<"Unified", q>> \notin Upstream'
  BY <1>5, <1>10, <1>11 DEF Upstream, Apart
<1>13. LoopData'
  <2>1. Apart(KeysIn(results', "TracingData"), UninitializedKeys', UnpairedKeys')
    BY <1>5, <1>10, <1>11 DEF Apart
  <2>2. ASSUME NEW p \in DOMAIN unpaired_inits'
        PROVE  \/ caching' /\ proving' /\ p < trivial'
               \/ /\ p < inits_index'
                  /\ <<InitsCircuit, p>> \notin KeysIn(results', "InitsAndTeardownsData")
    <3>1. p \in Nat /\ p \in DOMAIN unpaired_inits
      BY <1>7 DEF Table
    <3>2. \/ caching /\ proving /\ p < trivial
          \/ p < inits_index /\ <<InitsCircuit, p>> \notin KeysIn(results, "InitsAndTeardownsData")
      BY <1>7, <3>1 DEF LoopData
    <3> QED BY <1>4, <1>5, <1>6, <3>1, <3>2
  <2> QED BY <1>6, <1>7, <1>9, <1>10, <2>1, <2>2 DEF LoopData, Table, KeyedOnce
<1>14. d \in Requests /\ d.key = <<"Unified", q>> /\ d.chunks = n + c
  BY <1>1, <1>2, <1>3, <1>8, <1>9 DEF Request, Requests, Keys, InitsMessages
<1>15. /\ requests \subseteq Requests /\ IsFiniteSet(requests) /\ KeyedOnce(requests)
       /\ TotalChunks(requests) = n + c
  <2>1. d.chunks \in Nat
    BY <1>9, <1>14
  <2>2. TotalChunks({d}) = d.chunks /\ Sized({d})
    BY <2>1, TotalChunksOne
  <2> QED BY <1>14, <2>2 DEF KeyedOnce, Sized
<1>16. 0 + TotalChunks(requests) + LoopChunks' = ChunksIn(Head(results)) + LoopChunks
  <2>1. PICK u1 \in Nat, u2 \in Nat, u3 \in Nat, u4 \in Nat :
          /\ u1 = TotalChunks(uninitialized) /\ u2 = SumFunction(unpaired_inits)
          /\ u3 = SumFunction(unpaired_tracing) /\ u4 = ChunksOfFirst(entries, Len(entries))
    BY BalanceTerms DEF DataInv
  <2>2. PICK v3 \in Nat : v3 = SumFunction(unpaired_tracing') /\ u3 = c + v3
    BY <1>9, <2>1
  <2>3. LoopChunks = u1 + u2 + u3 + u4 /\ LoopChunks' = u1 + u2 + v3 + u4
    BY <2>1, <2>2 DEF LoopChunks
  <2>4. c \in Nat /\ TotalChunks(requests) = n + c /\ ChunksIn(Head(results)) = n
    BY <1>3, <1>9, <1>15
  <2>5. 0 + (n + c) + (u1 + u2 + v3 + u4) = n + (u1 + u2 + u3 + u4)
    BY <2>2, <2>4
  <2> QED BY <2>3, <2>4, <2>5
<1>17. simulation_result \in BOOLEAN /\ Head(results).type \in FromSimulator
  BY DEF DataInv, DataType, FromSimulator
<1>18. \A request \in requests : request.key \in Upstream /\ request.key \notin Upstream'
  BY <1>12, <1>14
<1> QED BY <1>12, <1>13, <1>15, <1>16, <1>17, <1>18, HandlerKeeps

\* The handler of InitsAndTeardownsData, unified machine: all cases.
LEMMA UnifiedInitsKeeps ==
  ASSUME DataInv, AllocatorsConserved, HandleUnifiedInits
  PROVE  DataInv' /\ AllocatorsConserved'
<1>1. /\ main = "loop" /\ results # <<>> /\ Head(results).type = "InitsAndTeardownsData"
      /\ Head(results) \in Messages /\ Unified
  BY MessageIs DEF HandleUnifiedInits
<1>2. PICK data, q, awaited, paired, requests :
        /\ data = Head(results) /\ q = data.key[2]
        /\ awaited = (~proving \/ ~caching \/ q >= trivial)
        /\ paired = (q \in DOMAIN unpaired_tracing)
        /\ requests = IF awaited /\ paired
                      THEN {Request(data.key, data.chunks + unpaired_tracing[q])} ELSE {}
  OBVIOUS
<1>3. /\ UNCHANGED <<uninitialized, processed, completed, entries>>
      /\ trivial' = IF awaited /\ q >= trivial /\ data.chunks = 0 THEN q + 1 ELSE trivial
      /\ unpaired_tracing' = IF awaited /\ paired THEN Without(unpaired_tracing, q)
                             ELSE unpaired_tracing
      /\ unpaired_inits' = IF awaited /\ ~paired THEN With(unpaired_inits, q, data.chunks)
                           ELSE unpaired_inits
      /\ Conclude(requests, 0, simulation_result)
  BY <1>2 DEF HandleUnifiedInits
<1>4. \/ trivial' = trivial
      \/ /\ trivial' = Head(results).key[2] + 1
         /\ Head(results).chunks = 0 /\ Head(results).key[2] >= trivial
  BY <1>2, <1>3
<1>5. CASE ~awaited
  <2>1. q \in Nat /\ trivial \in Nat
    <3>1. data \in InitsMessages
      BY <1>1, <1>2, MessageKinds
    <3> QED BY <1>2, <3>1 DEF InitsMessages, DataInv, DataType
  <2>2. ~(q >= trivial)
    BY <1>2, <1>5
  <2>3. q < trivial
    BY <2>1, <2>2
  <2>4. /\ Conclude({}, 0, simulation_result) /\ UNCHANGED <<trivial, unpaired_tracing, unpaired_inits>>
    BY <1>2, <1>3, <1>5
  <2> QED BY <1>1, <1>2, <1>3, <2>3, <2>4, UnawaitedKeeps
<1>6. CASE awaited /\ ~paired
  <2>1. /\ Conclude({}, 0, simulation_result) /\ UNCHANGED unpaired_tracing
        /\ unpaired_inits' = With(unpaired_inits, Head(results).key[2], Head(results).chunks)
        /\ ~proving \/ ~caching \/ Head(results).key[2] >= trivial
    BY <1>2, <1>3, <1>6
  <2> QED BY <1>1, <1>3, <1>4, <2>1, InitsWait
<1>7. CASE awaited /\ paired
  <2>1. /\ unpaired_tracing' = Without(unpaired_tracing, Head(results).key[2]) /\ UNCHANGED unpaired_inits
        /\ Head(results).key[2] \in DOMAIN unpaired_tracing
    BY <1>2, <1>3, <1>7
  <2>2. PICK d : d = Request(Head(results).key,
                             Head(results).chunks + unpaired_tracing[Head(results).key[2]])
    OBVIOUS
  <2>3. requests = {d}
    BY <1>2, <1>7, <2>2
  <2> QED BY <1>1, <1>3, <1>4, <2>1, <2>2, <2>3, InitsPair
<1> QED BY <1>5, <1>6, <1>7

-----------------------------------------------------------------------------
(* Tracing data whose rows are written. *)

\* The sum over an image, when nothing is mapped to the same value.
LEMMA SumOfImage ==
  ASSUME NEW T, IsFiniteSet(T), NEW b, b = [t \in T |-> b[t]], \A t, u \in T : t # u => b[t] # b[u],
         NEW S, S = {b[t] : t \in T}, NEW f \in [S -> Int], NEW g, g = [t \in T |-> f[b[t]]]
  PROVE  SumFunction(f) = SumFunction(g)
<1>1. DOMAIN b = T /\ b \in [T -> S] /\ \A x \in S : \E t \in T : b[t] = x
  OBVIOUS
<1>2. IsFiniteSet(S)
  BY <1>1, FiniteImage
<1>3. SumFunction(g) = SumFunction(f)
  <2>1. b \in [T -> S]
    BY <1>1
  <2>2. \A x \in S : \E t \in T : b[t] = x
    BY <1>1
  <2> QED BY <1>2, <2>1, <2>2, SumAlong
<1> QED BY <1>3

\* Of tracing data of one circuit each.
LEMMA ByKey ==
  ASSUME NEW T, Sized(T), KeyedOnce(T), NEW b, b = [d \in T |-> b[d]],
         \A d, e \in T : b[d] = b[e] => d.key = e.key,
         NEW S, S = {b[d] : d \in T}, NEW f \in [S -> Int], \A d \in T : f[b[d]] = d.chunks
  PROVE  SumFunction(f) = TotalChunks(T)
<1>1. \A d, e \in T : d # e => b[d] # b[e]
  BY DEF KeyedOnce
<1>2. PICK g : g = [d \in T |-> f[b[d]]]
  OBVIOUS
<1>3. g = [d \in T |-> d.chunks]
  BY <1>2
<1>4. SumFunction(f) = SumFunction(g)
  <2>1. IsFiniteSet(T)
    BY DEF Sized
  <2> QED BY <1>1, <1>2, <2>1, SumOfImage
<1> QED BY <1>3, <1>4 DEF TotalChunks

\* Of the data written: that which waits for inits and teardowns, that whose
\* inits and teardowns wait for it, and that of other machines.
Waiting(written, ui) ==
  {data \in written : data.key[1] = "Unified" /\ data.key[2] \notin DOMAIN ui}

Paired(written, ui) ==
  {data \in written : data.key[1] = "Unified" /\ data.key[2] \in DOMAIN ui}

Plain(written) == {data \in written : data.key[1] # "Unified"}

PlainRequests(written) == {Request(data.key, data.chunks) : data \in Plain(written)}

PairedRequests(written, ui) ==
  {Request(data.key, data.chunks + ui[data.key[2]]) : data \in Paired(written, ui)}

Partners(written, ui) == {data.key[2] : data \in Paired(written, ui)}

Joined(written, ui, ut) ==
  [q \in DOMAIN ut \cup {data.key[2] : data \in Waiting(written, ui)} |->
     IF q \in DOMAIN ut THEN ut[q]
     ELSE (CHOOSE data \in Waiting(written, ui) : data.key[2] = q).chunks]

\* What Offer does, in terms of the three parts of the data it is given ...
LEMMA OfferParts ==
  ASSUME NEW written, Offer(written)
  PROVE  /\ unpaired_inits' = On(unpaired_inits, DOMAIN unpaired_inits \ Partners(written, unpaired_inits))
         /\ unpaired_tracing' = Joined(written, unpaired_inits, unpaired_tracing)
         /\ Conclude(PlainRequests(written) \cup PairedRequests(written, unpaired_inits), 0,
                     simulation_result)
         /\ Sent(PlainRequests(written) \cup PairedRequests(written, unpaired_inits))
<1>1. PICK waiting : waiting = Waiting(written, unpaired_inits)
  OBVIOUS
<1>2. waiting = {data \in written :
                    data.key[1] = "Unified" /\ data.key[2] \notin DOMAIN unpaired_inits}
  BY <1>1 DEF Waiting
<1>3. PICK paired : paired = Paired(written, unpaired_inits)
  OBVIOUS
<1>4. paired = {data \in written \ waiting : data.key[1] = "Unified"}
  BY <1>2, <1>3 DEF Paired
<1>5. Plain(written) = written \ (waiting \cup paired)
  BY <1>2, <1>4 DEF Plain
<1>6. PICK requests : requests =
        {Request(data.key, data.chunks) : data \in written \ (waiting \cup paired)}
          \cup {Request(data.key, data.chunks + unpaired_inits[data.key[2]]) : data \in paired}
  OBVIOUS
<1>7. requests = PlainRequests(written) \cup PairedRequests(written, unpaired_inits)
  BY <1>3, <1>5, <1>6 DEF PlainRequests, PairedRequests
<1>8. PICK indexes : indexes = {data.key[2] : data \in paired}
  OBVIOUS
<1>9. /\ unpaired_inits' = [q \in DOMAIN unpaired_inits \ indexes |-> unpaired_inits[q]]
      /\ unpaired_tracing' =
           [q \in DOMAIN unpaired_tracing \cup {data.key[2] : data \in waiting} |->
              IF q \in DOMAIN unpaired_tracing THEN unpaired_tracing[q]
              ELSE (CHOOSE data \in waiting : data.key[2] = q).chunks]
      /\ Conclude(requests, 0, simulation_result) /\ Sent(requests)
  BY <1>2, <1>4, <1>6, <1>8 DEF Offer
<1>10. indexes = Partners(written, unpaired_inits)
  BY <1>3, <1>8 DEF Partners
<1>11. unpaired_inits' = On(unpaired_inits, DOMAIN unpaired_inits \ Partners(written, unpaired_inits))
  BY <1>9, <1>10 DEF On
<1>12. unpaired_tracing' = Joined(written, unpaired_inits, unpaired_tracing)
  BY <1>1, <1>9 DEF Joined
<1> QED BY <1>7, <1>9, <1>11, <1>12

\* ... and the chunks of these parts.
LEMMA PartsOfWritten ==
  ASSUME NEW written, written \subseteq TracingMessages, IsFiniteSet(written), KeyedOnce(written), NEW ui
  PROVE  /\ Waiting(written, ui) \subseteq written /\ Sized(Waiting(written, ui))
         /\ KeyedOnce(Waiting(written, ui))
         /\ Paired(written, ui) \subseteq written /\ Sized(Paired(written, ui))
         /\ KeyedOnce(Paired(written, ui))
         /\ Plain(written) \subseteq written /\ Sized(Plain(written)) /\ KeyedOnce(Plain(written))
         /\ TotalChunks(written) = TotalChunks(Waiting(written, ui))
              + TotalChunks(Paired(written, ui)) + TotalChunks(Plain(written))
<1>1. Sized(written)
  BY DEF Sized, TracingMessages
<1>2. PICK W, P, L, R : /\ W = Waiting(written, ui) /\ P = Paired(written, ui) /\ L = Plain(written)
                        /\ R = written \ W
  OBVIOUS
<1>3. /\ W \in SUBSET written /\ P \in SUBSET R /\ R \ P = L
      /\ P \in SUBSET written /\ L \in SUBSET written
  BY <1>2 DEF Waiting, Paired, Plain
<1>4. TotalChunks(written) = TotalChunks(W) + TotalChunks(R) /\ Sized(W) /\ Sized(R)
  BY <1>1, <1>2, <1>3, TotalChunksSplit
<1>5. TotalChunks(R) = TotalChunks(P) + TotalChunks(R \ P) /\ Sized(P) /\ Sized(R \ P)
  BY <1>3, <1>4, TotalChunksSplit
<1>6. TotalChunks(R) = TotalChunks(P) + TotalChunks(L) /\ Sized(L)
  BY <1>3, <1>5, Zenon
<1>7. KeyedOnce(W) /\ KeyedOnce(P) /\ KeyedOnce(L)
  BY <1>3 DEF KeyedOnce
<1>8. TotalChunks(W) \in Nat /\ TotalChunks(P) \in Nat /\ TotalChunks(L) \in Nat
  BY <1>4, <1>5, <1>6, TotalChunksType
<1>9. TotalChunks(written) = TotalChunks(W) + TotalChunks(P) + TotalChunks(L)
  BY <1>4, <1>6, <1>8
<1> QED BY <1>2, <1>3, <1>4, <1>5, <1>6, <1>7, <1>9

\* The unpaired tables after tracing data was written.
LEMMA JoinedSum ==
  ASSUME NEW written, written \subseteq TracingMessages, IsFiniteSet(written), KeyedOnce(written),
         NEW ui, NEW ut, Table(ut),
         \A data \in Waiting(written, ui) : data.key[2] \notin DOMAIN ut,
         NEW joined, joined = Joined(written, ui, ut),
         NEW W, W = {data.key[2] : data \in Waiting(written, ui)}
  PROVE  /\ Table(joined) /\ DOMAIN joined = DOMAIN ut \cup W
         /\ SumFunction(joined) = SumFunction(ut) + TotalChunks(Waiting(written, ui))
<1>1. PICK T : T = Waiting(written, ui)
  OBVIOUS
<1>2. /\ Sized(T) /\ KeyedOnce(T)
      /\ \A d \in T : d \in TracingMessages /\ d.key[1] = "Unified" /\ d.key[2] \notin DOMAIN ut
  <2>1. Sized(Waiting(written, ui)) /\ KeyedOnce(Waiting(written, ui))
    BY PartsOfWritten
  <2>2. \A d \in T : d \in TracingMessages /\ d.key[1] = "Unified"
    BY <1>1 DEF Waiting
  <2> QED BY <1>1, <2>1, <2>2
<1>3. \A d \in TracingMessages : d.key = <<d.key[1], d.key[2]>> /\ d.key[2] \in Nat /\ d.chunks \in Nat
  BY DEF TracingMessages
<1>4. PICK b : b = [d \in T |-> d.key[2]]
  OBVIOUS
<1>5. /\ W = {b[d] : d \in T} /\ b = [d \in T |-> b[d]] /\ W \subseteq Nat /\ W \cap DOMAIN ut = {}
      /\ \A d, e \in T : b[d] = b[e] => d.key = e.key
  BY <1>1, <1>2, <1>3, <1>4
<1>6. IsFiniteSet(W)
  <2>1. IsFiniteSet(T) /\ DOMAIN b = T
    BY <1>2, <1>4 DEF Sized
  <2> QED BY <1>5, <2>1, FiniteImage
<1>7. \A q \in W, d \in T : q \notin DOMAIN ut /\ (d.key[2] = q => joined[q] = d.chunks)
  <2> SUFFICES ASSUME NEW q \in W, NEW d \in T, d.key[2] = q PROVE joined[q] = d.chunks
    BY <1>5
  <2>1. q \notin DOMAIN ut /\ q \in DOMAIN ut \cup W
    BY <1>5
  <2>2. joined[q] = (CHOOSE data \in T : data.key[2] = q).chunks
    BY <1>1, <2>1 DEF Joined
  <2>3. \A e \in T : e.key[2] = q => e = d
    BY <1>2, <1>3 DEF KeyedOnce
  <2>4. (CHOOSE data \in T : data.key[2] = q) = d
    BY <2>3
  <2> QED BY <2>2, <2>4
<1>8. DOMAIN joined = DOMAIN ut \cup W /\ \A q \in DOMAIN ut : joined[q] = ut[q]
  BY DEF Joined
<1>9. \A q \in W : joined[q] \in Nat
  <2> SUFFICES ASSUME NEW q \in W PROVE joined[q] \in Nat
    OBVIOUS
  <2>1. PICK d \in T : d.key[2] = q
    BY <1>1
  <2> QED BY <1>2, <1>3, <1>7, <2>1
<1>10. PICK S, D : S = DOMAIN ut /\ D = S \cup W
  OBVIOUS
<1>11. /\ IsFiniteSet(S) /\ S \subseteq Nat /\ ut \in [S -> Nat] /\ S \in SUBSET D /\ W = D \ S
       /\ DOMAIN joined = D
  BY <1>5, <1>8, <1>10 DEF Table
<1>12. IsFiniteSet(D)
  <2>1. IsFiniteSet(S)
    BY <1>11
  <2>2. IsFiniteSet(S \cup W)
    BY <1>6, <2>1, FS_Union
  <2> QED BY <1>10, <2>2
<1>13. \A q \in D : joined[q] \in Nat
  BY <1>8, <1>9, <1>10, <1>11
<1>14. joined \in [D -> Nat] /\ D \subseteq Nat
  <2>1. joined = [q \in D |-> joined[q]]
    BY <1>10 DEF Joined
  <2> QED BY <1>5, <1>10, <1>11, <1>13, <2>1
<1>15. Table(joined)
  BY <1>11, <1>12, <1>14 DEF Table
<1>16. SumFunction(joined) = SumFunction(On(joined, S)) + SumFunction(On(joined, W))
  <2>1. joined \in [D -> Int]
    BY <1>14
  <2>2. SumFunction(joined) = SumFunction(On(joined, S)) + SumFunction(On(joined, D \ S))
    <3>1. S \in SUBSET D
      BY <1>11
    <3> QED BY <1>12, <2>1, <3>1, SumSplit
  <2> QED BY <1>11, <2>2
<1>17. On(joined, S) = ut
  BY <1>8, <1>10, <1>11 DEF On
<1>18. SumFunction(On(joined, W)) = TotalChunks(T)
  <2>1. PICK f : f = On(joined, W)
    OBVIOUS
  <2>2. f \in [W -> Int]
    BY <1>9, <2>1 DEF On
  <2>3. \A d \in T : f[b[d]] = d.chunks
    BY <1>4, <1>5, <1>7, <2>1 DEF On
  <2>4. SumFunction(f) = TotalChunks(T)
    <3>1. Sized(T) /\ KeyedOnce(T)
      BY <1>2
    <3>2. W = {b[d] : d \in T} /\ b = [d \in T |-> b[d]]
      BY <1>5
    <3>3. \A d, e \in T : b[d] = b[e] => d.key = e.key
      BY <1>5
    <3> QED BY <2>2, <2>3, <3>1, <3>2, <3>3, ByKey
  <2> QED BY <2>1, <2>4
<1> QED BY <1>1, <1>8, <1>15, <1>16, <1>17, <1>18

\* Requests made of data of one circuit each, with chunks n[data].
LEMMA ChunksOfImage ==
  ASSUME NEW T, IsFiniteSet(T), NEW b, b = [t \in T |-> b[t]], \A t, u \in T : t # u => b[t] # b[u],
         NEW R, R = {b[t] : t \in T}, \A t \in T : b[t].chunks \in Int,
         NEW g, g = [t \in T |-> b[t].chunks]
  PROVE  TotalChunks(R) = SumFunction(g)
<1>1. PICK f : f = [r \in R |-> r.chunks]
  OBVIOUS
<1>2. f \in [R -> Int]
  BY <1>1
<1>3. PICK h : h = [t \in T |-> f[b[t]]]
  OBVIOUS
<1>4. SumFunction(f) = SumFunction(h)
  <2>1. b \in [T -> R]
    OBVIOUS
  <2>2. \A x \in R : \E t \in T : b[t] = x
    OBVIOUS
  <2>3. DOMAIN b = T
    OBVIOUS
  <2>4. IsFiniteSet(R)
    BY <2>3, FiniteImage
  <2>5. \A t, u \in T : t # u => b[t] # b[u]
    OBVIOUS
  <2> QED BY ONLY <1>2, <1>3, <2>1, <2>2, <2>4, <2>5, IsFiniteSet(T), SumAlong
<1>5. h = g
  BY <1>1, <1>3
<1> QED BY <1>1, <1>4, <1>5 DEF TotalChunks

\* One request per datum, its chunks given by n, sums to n.
LEMMA MappedRequests ==
  ASSUME NEW T, IsFiniteSet(T), KeyedOnce(T), NEW n \in [T -> Nat], NEW b, b = [d \in T |-> b[d]],
         \A d \in T : b[d] \in Requests /\ b[d].key = d.key /\ b[d].chunks = n[d],
         NEW R, R = {b[d] : d \in T}
  PROVE  IsFiniteSet(R) /\ KeyedOnce(R) /\ R \subseteq Requests /\ TotalChunks(R) = SumFunction(n)
<1>1. \A r \in R : \E d \in T : r = b[d]
  OBVIOUS
<1>2. \A d, e \in T : d # e => b[d] # b[e]
  BY DEF KeyedOnce
<1>3. IsFiniteSet(R)
  <2>1. DOMAIN b = T
    OBVIOUS
  <2> QED BY <2>1, FiniteImage
<1>4. TotalChunks(R) = SumFunction(n)
  <2>1. PICK g : g = [d \in T |-> b[d].chunks]
    OBVIOUS
  <2>2. TotalChunks(R) = SumFunction(g)
    BY <1>2, <2>1, ChunksOfImage
  <2>3. n = [d \in T |-> n[d]]
    OBVIOUS
  <2>4. g = n
    BY <2>1, <2>3
  <2> QED BY <2>2, <2>4
<1>5. \A d, e \in T : b[d].key = b[e].key => b[d] = b[e]
  BY DEF KeyedOnce
<1>6. KeyedOnce(R)
  BY <1>1, <1>5 DEF KeyedOnce
<1>7. R \subseteq Requests
  BY <1>1
<1> QED BY <1>3, <1>4, <1>6, <1>7

\* The same for the operator Request.
LEMMA RequestsOf ==
  ASSUME NEW T, IsFiniteSet(T), T \subseteq TracingMessages, KeyedOnce(T), NEW n \in [T -> Nat],
         NEW requests, requests = {Request(d.key, n[d]) : d \in T}
  PROVE  /\ requests \subseteq Requests /\ IsFiniteSet(requests) /\ KeyedOnce(requests)
         /\ \A request \in requests : request.key \in {d.key : d \in T}
         /\ TotalChunks(requests) = SumFunction(n)
<1>1. PICK b : b = [d \in T |-> Request(d.key, n[d])]
  OBVIOUS
<1>2. requests = {b[d] : d \in T}
  BY <1>1
<1>3. b = [d \in T |-> b[d]]
  BY <1>1
<1>4. \A d \in T : b[d] \in Requests /\ b[d].key = d.key /\ b[d].chunks = n[d]
  <2>1. \A d \in T : d.key \in Keys
    BY DEF TracingMessages, Keys
  <2> QED BY <1>1, <2>1 DEF Request, Requests
<1>5. PICK R : R = requests
  OBVIOUS
<1>6. IsFiniteSet(R) /\ KeyedOnce(R) /\ R \subseteq Requests
  BY <1>2, <1>3, <1>4, <1>5, MappedRequests
<1>7. TotalChunks(R) = SumFunction(n)
  BY <1>2, <1>3, <1>4, <1>5, MappedRequests
<1>8. \A request \in requests : request.key \in {d.key : d \in T}
  BY DEF Request
<1> QED BY <1>5, <1>6, <1>7, <1>8

\* Inits and teardowns leave with the tracing data of their circuits.
LEMMA PartnersSum ==
  ASSUME NEW written, written \subseteq TracingMessages, IsFiniteSet(written), KeyedOnce(written),
         NEW ui, Table(ui), NEW P, P = Partners(written, ui), NEW left, left = On(ui, DOMAIN ui \ P)
  PROVE  /\ Table(left) /\ DOMAIN left = DOMAIN ui \ P
         /\ \A q \in DOMAIN left : left[q] = ui[q]
         /\ SumFunction(ui) = SumFunction([d \in Paired(written, ui) |-> ui[d.key[2]]])
                                + SumFunction(left)
<1>1. PICK T, S : T = Paired(written, ui) /\ S = DOMAIN ui
  OBVIOUS
<1>2. Sized(T) /\ KeyedOnce(T)
  <2>1. Sized(Paired(written, ui)) /\ KeyedOnce(Paired(written, ui))
    BY PartsOfWritten
  <2> QED BY <1>1, <2>1
<1>3. /\ \A d \in T : d \in TracingMessages /\ d.key[1] = "Unified" /\ d.key[2] \in S
      /\ P = {d.key[2] : d \in T}
  BY <1>1 DEF Paired, Partners
<1>4. \A d \in TracingMessages : d.key = <<d.key[1], d.key[2]>>
  BY DEF TracingMessages
<1>5. IsFiniteSet(S) /\ S \subseteq Nat /\ ui \in [S -> Nat] /\ P \in SUBSET S
  BY <1>1, <1>3 DEF Table
<1>6. SumFunction(ui) = SumFunction(On(ui, P)) + SumFunction(On(ui, S \ P))
  <2>1. ui \in [S -> Int] /\ P \in SUBSET S
    BY <1>5
  <2> QED BY <1>5, <2>1, SumSplit
<1>7. left = On(ui, S \ P) /\ left \in [S \ P -> Nat] /\ DOMAIN left = S \ P
  BY <1>1, <1>5 DEF On
<1>8. IsFiniteSet(S \ P)
  <2>1. S \ P \subseteq S
    OBVIOUS
  <2> QED BY <1>5, <2>1, FS_Subset
<1>9. PICK b, f, g : /\ b = [d \in T |-> d.key[2]] /\ f = On(ui, P)
                     /\ g = [d \in T |-> ui[d.key[2]]]
  OBVIOUS
<1>10. SumFunction(f) = SumFunction(g)
  <2>1. \A d \in T : d.key[2] \in P
    BY <1>3
  <2>2. P = {b[d] : d \in T} /\ b = [d \in T |-> b[d]]
    BY <1>3, <1>9
  <2>3. \A d, e \in T : d # e => b[d] # b[e]
    <3>1. \A d, e \in T : d.key = e.key => d = e
      BY <1>2 DEF KeyedOnce
    <3> QED BY <1>3, <1>4, <1>9, <3>1
  <2>4. f \in [P -> Int]
    <3>1. \A q \in P : ui[q] \in Int
      BY <1>5
    <3>2. f = [q \in P |-> ui[q]]
      BY <1>9 DEF On
    <3> QED BY <3>1, <3>2
  <2>5. g = [d \in T |-> f[b[d]]]
    BY <1>9, <2>1 DEF On
  <2>6. IsFiniteSet(T)
    BY <1>2 DEF Sized
  <2>7. P = {b[d] : d \in T}
    BY <2>2
  <2>8. b = [d \in T |-> b[d]]
    BY <2>2
  <2> QED BY <2>3, <2>4, <2>5, <2>6, <2>7, <2>8, SumOfImage
<1>11. Table(left)
  BY <1>5, <1>7, <1>8 DEF Table
<1>12. \A q \in DOMAIN left : left[q] = ui[q]
  BY <1>1, <1>7 DEF On
<1> QED BY <1>1, <1>6, <1>7, <1>9, <1>10, <1>11, <1>12

\* A request for the data of a circuit is one.
LEMMA TracingRequest ==
  ASSUME NEW d \in TracingMessages, NEW n \in Nat
  PROVE  Request(d.key, n) \in Requests
  BY DEF Request, Requests, TracingMessages, Keys

\* The requests for data that was written.
LEMMA OfferedRequests ==
  ASSUME NEW written, written \subseteq TracingMessages, IsFiniteSet(written), KeyedOnce(written),
         NEW ui, Table(ui), NEW requests,
         requests = PlainRequests(written) \cup PairedRequests(written, ui)
  PROVE  /\ requests \subseteq Requests /\ IsFiniteSet(requests) /\ KeyedOnce(requests)
         /\ TotalChunks(requests)
              = TotalChunks(Plain(written)) + TotalChunks(Paired(written, ui))
                  + SumFunction([d \in Paired(written, ui) |-> ui[d.key[2]]])
<1>1. PICK L, P : L = Plain(written) /\ P = Paired(written, ui)
  OBVIOUS
<1>2. /\ Sized(L) /\ KeyedOnce(L) /\ Sized(P) /\ KeyedOnce(P)
  <2>1. Sized(Plain(written)) /\ KeyedOnce(Plain(written))
    BY PartsOfWritten
  <2>2. Sized(Paired(written, ui)) /\ KeyedOnce(Paired(written, ui))
    BY PartsOfWritten
  <2> QED BY <1>1, <2>1, <2>2
<1>3. /\ L \subseteq written /\ P \subseteq written /\ L \cap P = {}
      /\ \A d \in P : d.key[2] \in DOMAIN ui
  BY <1>1 DEF Plain, Paired
<1>4. L \subseteq TracingMessages /\ P \subseteq TracingMessages /\ IsFiniteSet(L) /\ IsFiniteSet(P)
  BY <1>2, <1>3 DEF Sized
<1>5. PICK n : n = [d \in L |-> d.chunks]
  OBVIOUS
<1>6. n \in [L -> Nat]
  BY <1>2, <1>5 DEF Sized
<1>7. PICK m : m = [d \in P |-> ui[d.key[2]]]
  OBVIOUS
<1>8. m \in [P -> Nat]
  <2>1. \A q \in DOMAIN ui : ui[q] \in Nat
    BY DEF Table
  <2> QED BY <1>3, <1>7, <2>1
<1>9. PICK k : k = [d \in P |-> d.chunks]
  OBVIOUS
<1>10. k \in [P -> Nat]
  BY <1>2, <1>9 DEF Sized
<1>11. PICK o : o = [d \in P |-> k[d] + m[d]]
  OBVIOUS
<1>12. o \in [P -> Nat]
  BY <1>8, <1>10, <1>11
<1>13. PICK A, B : A = {Request(d.key, n[d]) : d \in L} /\ B = {Request(d.key, o[d]) : d \in P}
  OBVIOUS
<1>14. A = PlainRequests(written)
  BY <1>1, <1>5, <1>13 DEF PlainRequests
<1>15. B = PairedRequests(written, ui)
  BY <1>1, <1>7, <1>9, <1>11, <1>13 DEF PairedRequests
<1>16. requests = A \cup B
  BY <1>14, <1>15
<1>17. A \subseteq Requests /\ IsFiniteSet(A) /\ KeyedOnce(A) /\ \A r \in A : r.key \in {d.key : d \in L}
  <2>1. A \subseteq Requests
    BY <1>4, <1>6, <1>13, TracingRequest
  <2>2. IsFiniteSet(A)
    BY <1>2, <1>4, <1>6, <1>13, RequestsOf
  <2>3. KeyedOnce(A)
    BY <1>2, <1>4, <1>6, <1>13, RequestsOf
  <2>4. \A r \in A : r.key \in {d.key : d \in L}
    BY <1>2, <1>4, <1>6, <1>13, RequestsOf
  <2> QED BY <2>1, <2>2, <2>3, <2>4
<1>18. TotalChunks(A) = SumFunction(n)
  BY <1>2, <1>4, <1>6, <1>13, RequestsOf
<1>19. B \subseteq Requests /\ IsFiniteSet(B) /\ KeyedOnce(B) /\ \A r \in B : r.key \in {d.key : d \in P}
  <2>1. B \subseteq Requests
    BY <1>4, <1>12, <1>13, TracingRequest
  <2>2. IsFiniteSet(B)
    BY <1>2, <1>4, <1>12, <1>13, RequestsOf
  <2>3. KeyedOnce(B)
    BY <1>2, <1>4, <1>12, <1>13, RequestsOf
  <2>4. \A r \in B : r.key \in {d.key : d \in P}
    BY <1>2, <1>4, <1>12, <1>13, RequestsOf
  <2> QED BY <2>1, <2>2, <2>3, <2>4
<1>20. TotalChunks(B) = SumFunction(o)
  BY <1>2, <1>4, <1>12, <1>13, RequestsOf
<1>21. \A r \in A, s \in B : r.key # s.key
  <2> SUFFICES ASSUME NEW r \in A, NEW s \in B PROVE r.key # s.key
    OBVIOUS
  <2>1. PICK d \in L, e \in P : r.key = d.key /\ s.key = e.key
    BY <1>17, <1>19
  <2>2. d \in written /\ e \in written /\ d # e
    BY <1>3
  <2> QED BY <2>1, <2>2 DEF KeyedOnce
<1>22. TotalChunks(requests) = TotalChunks(A) + TotalChunks(B)
  <2>1. Sized(A) /\ Sized(B) /\ A \cap B = {}
    BY <1>17, <1>19, <1>21 DEF Sized, Requests
  <2>2. TotalChunks(A \cup B) = TotalChunks(A) + TotalChunks(B)
    BY <2>1, TotalChunksUnion
  <2> QED BY <1>16, <2>2
<1>23. SumFunction(o) = SumFunction(k) + SumFunction(m)
  <2>1. k \in [P -> Int] /\ m \in [P -> Int]
    BY <1>8, <1>10
  <2>2. SumFunction([d \in P |-> k[d] + m[d]]) = SumFunction(k) + SumFunction(m)
    BY <1>4, <2>1, SumPlus
  <2> QED BY <1>11, <2>2
<1>24. IsFiniteSet(requests)
  <2>1. IsFiniteSet(A \cup B)
    BY <1>17, <1>19, FS_Union
  <2> QED BY <1>16, <2>1
<1>25. KeyedOnce(requests)
  BY <1>16, <1>17, <1>19, <1>21 DEF KeyedOnce
<1>26. TotalChunks(L) = SumFunction(n) /\ TotalChunks(P) = SumFunction(k)
  BY <1>5, <1>9 DEF TotalChunks
<1>27. TotalChunks(requests) = TotalChunks(L) + TotalChunks(P) + SumFunction(m)
  <2>1. PICK x \in Nat, y \in Nat, z \in Nat : x = SumFunction(n) /\ y = SumFunction(k) /\ z = SumFunction(m)
    BY <1>4, <1>6, <1>8, <1>10, SumNat
  <2> QED BY <1>18, <1>20, <1>22, <1>23, <1>26, <2>1
<1>28. requests \subseteq Requests
  BY <1>16, <1>17, <1>19
<1> QED BY <1>1, <1>7, <1>24, <1>25, <1>27, <1>28

\* Chunks of written data go to requests, with those of their inits and
\* teardowns, or wait.
LEMMA OfferBalance ==
  ASSUME NEW written, written \subseteq TracingMessages, IsFiniteSet(written), KeyedOnce(written),
         NEW ui, Table(ui), NEW ut, Table(ut),
         \A data \in Waiting(written, ui) : data.key[2] \notin DOMAIN ut,
         NEW requests, requests = PlainRequests(written) \cup PairedRequests(written, ui),
         NEW left, left = On(ui, DOMAIN ui \ Partners(written, ui)),
         NEW joined, joined = Joined(written, ui, ut)
  PROVE  TotalChunks(requests) + SumFunction(left) + SumFunction(joined)
           = TotalChunks(written) + SumFunction(ui) + SumFunction(ut)
<1>1. PICK W, D, m : /\ W = Waiting(written, ui) /\ D = {data.key[2] : data \in Waiting(written, ui)}
                     /\ m = [d \in Paired(written, ui) |-> ui[d.key[2]]]
  OBVIOUS
<1>2. PICK L, P, X : L = Plain(written) /\ P = Paired(written, ui) /\ X = Partners(written, ui)
  OBVIOUS
<1>3. TotalChunks(requests) = TotalChunks(L) + TotalChunks(P) + SumFunction(m)
  BY <1>1, <1>2, OfferedRequests
<1>4. SumFunction(ui) = SumFunction(m) + SumFunction(left)
  BY <1>1, <1>2, PartnersSum
<1>5. SumFunction(joined) = SumFunction(ut) + TotalChunks(W)
  BY <1>1, JoinedSum
<1>6. TotalChunks(written) = TotalChunks(W) + TotalChunks(P) + TotalChunks(L)
  BY <1>1, <1>2, PartsOfWritten
<1>7. Table(left)
  BY <1>2, PartnersSum
<1>8. Sized(W)
  BY <1>1, PartsOfWritten
<1>9. Sized(P)
  BY <1>2, PartsOfWritten
<1>10. Sized(L)
  BY <1>2, PartsOfWritten
<1>11. PICK w \in Nat, p \in Nat, l \in Nat :
         w = TotalChunks(W) /\ p = TotalChunks(P) /\ l = TotalChunks(L)
  BY <1>8, <1>9, <1>10, TotalChunksType
<1>12. PICK a \in Nat, b \in Nat, c \in Nat :
         a = SumFunction(ui) /\ b = SumFunction(ut) /\ c = SumFunction(left)
  BY <1>7, TableSum
<1>13. SumFunction(m) \in Nat
  <2>1. PICK T : T = P
    OBVIOUS
  <2>2. IsFiniteSet(T) /\ m = [d \in T |-> ui[d.key[2]]] /\ \A d \in T : d.key[2] \in DOMAIN ui
    BY <1>1, <1>2, <1>9, <2>1 DEF Sized, Paired
  <2>3. \A q \in DOMAIN ui : ui[q] \in Nat
    BY DEF Table
  <2>4. m \in [T -> Nat]
    BY <2>2, <2>3
  <2> QED BY <2>2, <2>4, SumNat
<1>14. PICK s \in Nat : s = SumFunction(m)
  BY <1>13
<1> QED BY <1>3, <1>4, <1>5, <1>6, <1>11, <1>12, <1>14

\* What a handler that offers written data has to ensure.
LEMMA OfferKeeps ==
  ASSUME DataInv, AllocatorsConserved, main = "loop", results # <<>>, NEW written, Offer(written),
         written \subseteq TracingMessages, IsFiniteSet(written), KeyedOnce(written),
         uninitialized' \subseteq TracingMessages, IsFiniteSet(uninitialized'),
         KeyedOnce(uninitialized'), NEW K, K = {data.key : data \in written},
         Apart(KeysIn(results', "TracingData"), UninitializedKeys', K),
         KeysIn(results', "TracingData") \cup UninitializedKeys' \cup K
           \subseteq KeysIn(results, "TracingData") \cup UninitializedKeys,
         TotalChunks(written) + TotalChunks(uninitialized')
           = ChunksIn(Head(results)) + TotalChunks(uninitialized),
         NothingWaits /\ Head(results).type \notin FromSimulator =>
           written = {} /\ uninitialized' = {},
         Head(results).type # "GpuWorkResult", UNCHANGED <<trivial, completed, entries>>,
         \/ UNCHANGED processed
         \/ /\ Head(results).type = "SnapshotReplayed"
            /\ processed' = processed \cup {Head(results).index}
  PROVE  DataInv' /\ AllocatorsConserved'
<1>1. PICK ui, ut, left, joined, X, W :
        /\ ui = unpaired_inits /\ ut = unpaired_tracing
        /\ left = unpaired_inits' /\ joined = unpaired_tracing'
        /\ X = Partners(written, ui) /\ W = {data.key[2] : data \in Waiting(written, ui)}
  OBVIOUS
<1>2. PICK requests : requests = PlainRequests(written) \cup PairedRequests(written, ui)
  OBVIOUS
<1>3. /\ left = On(ui, DOMAIN ui \ X) /\ joined = Joined(written, ui, ut)
      /\ Conclude(requests, 0, simulation_result)
  BY <1>1, <1>2, OfferParts
<1>4. UNCHANGED <<caching, proving, inits_index>> /\ results' = Tail(results)
  BY <1>3 DEF Conclude, simulatorVars
<1>5. LoopData /\ Table(ui) /\ Table(ut) /\ simulation_result \in BOOLEAN
  BY <1>1, LoopHasData DEF DataInv, DataType
<1>6. Apart(KeysIn(results, "TracingData"), UninitializedKeys, UnpairedKeys)
  BY <1>5 DEF LoopData
<1>7. K \cap UnpairedKeys = {} /\ K \subseteq KeysIn(results, "TracingData") \cup UninitializedKeys
  BY <1>6 DEF Apart
<1>8. \A d \in written : /\ d.key \in K /\ d.key = <<d.key[1], d.key[2]>>
                         /\ d.key[1] \in Families /\ d.key[2] \in Nat
  BY DEF TracingMessages
<1>9. \A data \in Waiting(written, ui) : data.key[2] \notin DOMAIN ut /\ data \in written
                                          /\ data.key = <<"Unified", data.key[2]>>
  BY <1>1, <1>7, <1>8 DEF Waiting, UnpairedKeys
<1>10. Table(left) /\ DOMAIN left \subseteq DOMAIN ui
  <2>1. Table(left)
    <3>1. X = Partners(written, ui)
      BY <1>1
    <3>2. left = On(ui, DOMAIN ui \ X)
      BY <1>3
    <3>3. Table(ui)
      BY <1>5
    <3> QED BY <3>1, <3>2, <3>3, PartnersSum
  <2> QED BY <1>3, <2>1 DEF On
<1>11. Table(joined) /\ DOMAIN joined = DOMAIN ut \cup W
  <2>1. \A data \in Waiting(written, ui) : data.key[2] \notin DOMAIN ut
    BY <1>9
  <2>2. Table(joined)
    BY <1>1, <1>3, <1>5, <2>1, JoinedSum
  <2> QED BY <1>1, <1>3, <2>2 DEF Joined
<1>12. PICK Y : Y = {data.key : data \in Waiting(written, ui)}
  OBVIOUS
<1>13. UnpairedKeys' = UnpairedKeys \cup Y /\ Y \subseteq K
  <2>1. Y \subseteq K
    BY <1>8, <1>9, <1>12
  <2>2. UnpairedKeys' = {<<"Unified", q>> : q \in DOMAIN ut \cup W}
    BY <1>1, <1>11 DEF UnpairedKeys
  <2>3. UnpairedKeys = {<<"Unified", q>> : q \in DOMAIN ut}
    BY <1>1 DEF UnpairedKeys
  <2>4. Y = {<<"Unified", q>> : q \in W}
    <3>1. \A data \in Waiting(written, ui) : data.key = <<"Unified", data.key[2]>>
      BY <1>9
    <3>2. W = {data.key[2] : data \in Waiting(written, ui)}
      BY <1>1
    <3> QED BY <1>12, <3>1, <3>2
  <2> QED BY <2>1, <2>2, <2>3, <2>4
<1>14. EntryKeys' = EntryKeys
  BY DEF EntryKeys
<1>15. /\ KeysIn(results', "InitsAndTeardownsData") \subseteq KeysIn(results, "InitsAndTeardownsData")
  BY <1>4, TailKeys
<1>16. Upstream' \subseteq Upstream
  BY <1>13, <1>15, <1>7 DEF Upstream
<1>17. LoopData'
  <2>1. Apart(KeysIn(results', "TracingData"), UninitializedKeys', UnpairedKeys')
    BY <1>6, <1>13 DEF Apart
  <2>2. ASSUME NEW p \in DOMAIN unpaired_inits'
        PROVE  \/ caching' /\ proving' /\ p < trivial'
               \/ /\ p < inits_index'
                  /\ <<InitsCircuit, p>> \notin KeysIn(results', "InitsAndTeardownsData")
    <3>1. p \in DOMAIN unpaired_inits
      BY <1>1, <1>10
    <3> QED BY <1>4, <1>5, <1>15, <3>1 DEF LoopData
  <2> QED BY <1>1, <1>5, <1>10, <1>11, <1>14, <2>1, <2>2 DEF LoopData, Table
<1>18. requests \subseteq Requests /\ IsFiniteSet(requests) /\ KeyedOnce(requests)
  <2>1. requests \subseteq Requests
    BY <1>2, <1>5, OfferedRequests
  <2>2. IsFiniteSet(requests)
    BY <1>2, <1>5, OfferedRequests
  <2>3. KeyedOnce(requests)
    BY <1>2, <1>5, OfferedRequests
  <2> QED BY <2>1, <2>2, <2>3
<1>19. ASSUME NEW r \in requests
       PROVE  r.key \in Upstream /\ r.key \notin Upstream'
  <2>1. PICK d \in Plain(written) \cup Paired(written, ui) : r.key = d.key
    BY <1>2 DEF PlainRequests, PairedRequests, Request
  <2>2. d \in written /\ d \notin Waiting(written, ui)
    BY <2>1 DEF Plain, Paired, Waiting
  <2>3. r.key \in K /\ r.key \notin Y
    BY <1>8, <1>9, <1>12, <2>1, <2>2 DEF KeyedOnce
  <2>4. r.key \notin KeysIn(results', "TracingData") \cup UninitializedKeys' \cup UnpairedKeys'
    BY <1>7, <1>13, <2>3 DEF Apart
  <2>5. ~Unified => r.key \notin KeysIn(results', "InitsAndTeardownsData")
    <3> SUFFICES ASSUME ~Unified, r.key \in KeysIn(results', "InitsAndTeardownsData") PROVE FALSE
      OBVIOUS
    <3>1. PICK i \in DOMAIN results : results[i].type = "InitsAndTeardownsData" /\ r.key = results[i].key
      BY <1>15 DEF KeysIn
    <3>2. results[i] \in InitsMessages
      BY <3>1, MessageKinds DEF DataInv, DataType
    <3>3. r.key[1] = InitsCircuit /\ InitsCircuit \notin Families
      BY <3>1, <3>2, InitsCircuitKind DEF InitsMessages
    <3> QED BY <1>8, <2>1, <2>2, <3>3
  <2> QED BY <1>7, <2>3, <2>4, <2>5 DEF Upstream
<1>20. ASSUME NothingWaits, Head(results).type \notin FromSimulator
       PROVE  NothingWaits'
  <2>1. written = {} /\ uninitialized' = {}
    BY <1>20
  <2>2. DOMAIN ui = {} /\ DOMAIN ut = {}
    BY <1>1, <1>20 DEF NothingWaits, NoData
  <2>3. W = {}
    BY <1>1, <2>1 DEF Waiting
  <2>4. DOMAIN left = {} /\ DOMAIN joined = {}
    BY <1>10, <1>11, <2>2, <2>3
  <2>5. left = NoData /\ joined = NoData
    BY <1>10, <1>11, <2>4, TableOfNothing
  <2> QED BY <1>1, <2>1, <2>5 DEF NothingWaits, NoData
<1>21. 0 + TotalChunks(requests) + LoopChunks' = ChunksIn(Head(results)) + LoopChunks
  <2>1. TotalChunks(requests) + SumFunction(left) + SumFunction(joined)
          = TotalChunks(written) + SumFunction(ui) + SumFunction(ut)
    <3>1. \A data \in Waiting(written, ui) : data.key[2] \notin DOMAIN ut
      BY <1>9
    <3> QED BY <1>1, <1>2, <1>3, <1>5, <3>1, OfferBalance
  <2>2. PICK u1 \in Nat, u2 \in Nat, u3 \in Nat, u4 \in Nat :
          /\ u1 = TotalChunks(uninitialized) /\ u2 = SumFunction(ui)
          /\ u3 = SumFunction(ut) /\ u4 = ChunksOfFirst(entries, Len(entries))
    BY <1>1, BalanceTerms DEF DataInv
  <2>3. PICK v1 \in Nat, v2 \in Nat, v3 \in Nat :
          v1 = TotalChunks(uninitialized') /\ v2 = SumFunction(left) /\ v3 = SumFunction(joined)
    <3>1. Sized(uninitialized')
      BY DEF Sized, TracingMessages
    <3> QED BY <1>10, <1>11, <3>1, TotalChunksType, TableSum
  <2>4. PICK r \in Nat, w \in Nat, x \in Nat :
          r = TotalChunks(requests) /\ w = TotalChunks(written) /\ x = ChunksIn(Head(results))
    <3>1. Sized(requests) /\ Sized(written)
      BY <1>18 DEF Sized, Requests, TracingMessages
    <3>2. ChunksIn(Head(results)) \in Nat
      BY <1>4, TailKeys, ChunksInMessages
    <3> QED BY <3>1, <3>2, TotalChunksType
  <2>5. r + v2 + v3 = w + u2 + u3
    BY <2>1, <2>2, <2>3, <2>4
  <2>6. w + v1 = x + u1
    BY <2>2, <2>3, <2>4
  <2>7. 0 + r + (v1 + v2 + v3 + u4) = x + (u1 + u2 + u3 + u4)
    BY <2>5, <2>6
  <2>8. LoopChunks = u1 + u2 + u3 + u4 /\ LoopChunks' = v1 + v2 + v3 + u4
    BY <1>1, <2>2, <2>3 DEF LoopChunks
  <2> QED BY <2>4, <2>7, <2>8
<1>22. \A r \in requests : r.key \in Upstream /\ r.key \notin Upstream'
  BY <1>19
<1>23. completed' = IF Head(results).type = "GpuWorkResult"
                    THEN completed \cup {Head(results).key} ELSE completed
  OBVIOUS
<1> QED BY <1>3, <1>5, <1>16, <1>17, <1>18, <1>20, <1>21, <1>22, <1>23, HandlerKeeps

\* The handler of TracingData.
LEMMA TracingDataKeeps ==
  ASSUME DataInv, AllocatorsConserved, HandleTracingData
  PROVE  DataInv' /\ AllocatorsConserved'
<1>1. /\ main = "loop" /\ results # <<>> /\ Head(results).type = "TracingData"
      /\ Head(results) \in Messages
  BY MessageIs DEF HandleTracingData
<1>2. PICK data : data = Head(results)
  OBVIOUS
<1>3. /\ UNCHANGED <<trivial, processed, completed, entries>>
      /\ \/ UNCHANGED uninitialized /\ Offer({data})
         \/ uninitialized' = uninitialized \cup {data} /\ Offer({})
  BY <1>2 DEF HandleTracingData
<1>4. results' = Tail(results)
  BY <1>3 DEF Offer, Conclude
<1>5. data \in TracingMessages /\ data.chunks = ChunksIn(Head(results)) /\ data.chunks \in Nat
  BY <1>1, <1>2, MessageKinds, ChunksInMessages
<1>6. /\ KeysIn(results', "TracingData") \subseteq KeysIn(results, "TracingData")
      /\ data.key \in KeysIn(results, "TracingData") /\ data.key \notin KeysIn(results', "TracingData")
  BY <1>1, <1>2, <1>4, TailKeys DEF Keyed
<1>7. /\ uninitialized \subseteq TracingMessages /\ IsFiniteSet(uninitialized)
      /\ KeyedOnce(uninitialized)
      /\ KeysIn(results, "TracingData") \cap UninitializedKeys = {}
  BY DEF DataInv, DataType, KeyInv, Apart
<1>8. Head(results).type \in FromSimulator
  BY <1>1 DEF FromSimulator
<1>9. data.key \notin UninitializedKeys
  BY <1>6, <1>7
<1>10. TotalChunks(uninitialized) \in Nat /\ Sized(uninitialized)
  BY BalanceTerms DEF DataInv
<1>11. CASE UNCHANGED uninitialized /\ Offer({data})
  <2>1. PICK written, K : written = {data} /\ K = {d.key : d \in written}
    OBVIOUS
  <2>2. K = {data.key} /\ written \subseteq TracingMessages /\ KeyedOnce(written)
    BY <1>5, <2>1 DEF KeyedOnce
  <2>3. IsFiniteSet(written)
    BY <2>1, FS_Singleton
  <2>4. TotalChunks(written) = data.chunks
    <3>1. TotalChunks({data}) = data.chunks
      BY <1>5, TotalChunksOne
    <3> QED BY <2>1, <3>1
  <2>5. UninitializedKeys' = UninitializedKeys
    BY <1>11 DEF UninitializedKeys
  <2>6. Apart(KeysIn(results', "TracingData"), UninitializedKeys', K)
    BY <1>6, <1>7, <1>9, <2>2, <2>5 DEF Apart
  <2>7. KeysIn(results', "TracingData") \cup UninitializedKeys' \cup K
           \subseteq KeysIn(results, "TracingData") \cup UninitializedKeys
    BY <1>6, <2>2, <2>5
  <2>8. TotalChunks(written) + TotalChunks(uninitialized') = ChunksIn(Head(results)) + TotalChunks(uninitialized)
    BY <1>5, <1>11, <2>4
  <2>9. Offer(written)
    BY <1>11, <2>1
  <2>10. uninitialized' \subseteq TracingMessages /\ IsFiniteSet(uninitialized') /\ KeyedOnce(uninitialized')
    BY <1>7, <1>11
  <2> QED BY <1>1, <1>3, <1>8, <2>1, <2>2, <2>3, <2>6, <2>7, <2>8, <2>9, <2>10, OfferKeeps
<1>12. CASE uninitialized' = uninitialized \cup {data} /\ Offer({})
  <2>1. PICK written, K : written = {} /\ K = {d.key : d \in written}
    OBVIOUS
  <2>2. K = {} /\ written \subseteq TracingMessages /\ KeyedOnce(written) /\ IsFiniteSet(written)
    BY <2>1, FS_EmptySet DEF KeyedOnce
  <2>3. TotalChunks(written) = 0
    BY <2>1, NoRequests
  <2>4. UninitializedKeys' = UninitializedKeys \cup {data.key}
    BY <1>12 DEF UninitializedKeys
  <2>5. Apart(KeysIn(results', "TracingData"), UninitializedKeys', K)
    BY <1>6, <1>7, <2>2, <2>4 DEF Apart
  <2>6. KeysIn(results', "TracingData") \cup UninitializedKeys' \cup K
           \subseteq KeysIn(results, "TracingData") \cup UninitializedKeys
    BY <1>6, <2>2, <2>4
  <2>7. TotalChunks(uninitialized') = TotalChunks(uninitialized) + data.chunks
    <3>1. uninitialized \cap {data} = {}
      BY <1>9 DEF UninitializedKeys
    <3>2. TotalChunks({data}) = data.chunks /\ Sized({data})
      BY <1>5, TotalChunksOne
    <3>3. TotalChunks(uninitialized \cup {data}) = TotalChunks(uninitialized) + TotalChunks({data})
      BY <1>10, <3>1, <3>2, TotalChunksUnion
    <3> QED BY <1>12, <3>2, <3>3
  <2>8. TotalChunks(written) + TotalChunks(uninitialized') = ChunksIn(Head(results)) + TotalChunks(uninitialized)
    BY <1>5, <1>10, <2>3, <2>7
  <2>9. Offer(written)
    BY <1>12, <2>1
  <2>10. uninitialized' \subseteq TracingMessages
    BY <1>5, <1>7, <1>12
  <2>11. IsFiniteSet(uninitialized')
    BY <1>7, <1>12, FS_AddElement
  <2>12. KeyedOnce(uninitialized')
    <3>1. \A d \in uninitialized : d.key # data.key
      BY <1>9 DEF UninitializedKeys
    <3> QED BY <1>7, <1>12, <3>1 DEF KeyedOnce
  <2> QED BY <1>1, <1>3, <1>8, <2>1, <2>2, <2>5, <2>6, <2>8, <2>9, <2>10, <2>11, <2>12, OfferKeeps
<1> QED BY <1>3, <1>11, <1>12

\* The handler of SnapshotReplayed.
LEMMA SnapshotReplayedKeeps ==
  ASSUME DataInv, AllocatorsConserved, HandleSnapshotReplayed
  PROVE  DataInv' /\ AllocatorsConserved'
<1>1. /\ main = "loop" /\ results # <<>> /\ Head(results).type = "SnapshotReplayed"
      /\ Head(results) \in Messages
  BY MessageIs DEF HandleSnapshotReplayed
<1>2. PICK written :
        /\ written \subseteq uninitialized /\ uninitialized' = uninitialized \ written
        /\ processed' = processed \cup {Head(results).index} /\ Offer(written)
  BY DEF HandleSnapshotReplayed
<1>3. UNCHANGED <<trivial, completed, entries>>
  BY DEF HandleSnapshotReplayed
<1>4. results' = Tail(results)
  BY <1>2 DEF Offer, Conclude
<1>5. ChunksIn(Head(results)) = 0
  BY <1>1, ChunksInMessages
<1>6. KeysIn(results', "TracingData") \subseteq KeysIn(results, "TracingData")
  BY <1>1, <1>4, TailKeys
<1>7. /\ uninitialized \subseteq TracingMessages /\ IsFiniteSet(uninitialized)
      /\ KeyedOnce(uninitialized)
      /\ KeysIn(results, "TracingData") \cap UninitializedKeys = {}
  BY DEF DataInv, DataType, KeyInv, Apart
<1>8. PICK K : K = {d.key : d \in written}
  OBVIOUS
<1>9. /\ written \subseteq TracingMessages /\ KeyedOnce(written)
      /\ uninitialized' \subseteq TracingMessages /\ KeyedOnce(uninitialized')
  BY <1>2, <1>7 DEF KeyedOnce
<1>10. IsFiniteSet(written) /\ IsFiniteSet(uninitialized')
  <2>1. \A S \in SUBSET uninitialized : IsFiniteSet(S)
    BY <1>7, FS_Subset
  <2> QED BY <1>2, <2>1
<1>11. K \subseteq UninitializedKeys /\ UninitializedKeys' \subseteq UninitializedKeys
  BY <1>2, <1>8 DEF UninitializedKeys
<1>12. K \cap UninitializedKeys' = {}
  <2> SUFFICES ASSUME NEW d \in written, NEW e \in uninitialized', d.key = e.key PROVE FALSE
    BY <1>8 DEF UninitializedKeys
  <2>1. d = e
    BY <1>2, <1>7 DEF KeyedOnce
  <2> QED BY <1>2, <2>1
<1>13. Apart(KeysIn(results', "TracingData"), UninitializedKeys', K)
  BY <1>6, <1>7, <1>11, <1>12 DEF Apart
<1>14. KeysIn(results', "TracingData") \cup UninitializedKeys' \cup K
           \subseteq KeysIn(results, "TracingData") \cup UninitializedKeys
  BY <1>6, <1>11
<1>15. TotalChunks(written) + TotalChunks(uninitialized') = ChunksIn(Head(results)) + TotalChunks(uninitialized)
  <2>1. Sized(uninitialized) /\ written \in SUBSET uninitialized
    BY <1>2, BalanceTerms DEF DataInv
  <2>2. TotalChunks(uninitialized) = TotalChunks(written) + TotalChunks(uninitialized \ written)
    BY <2>1, TotalChunksSplit
  <2>3. TotalChunks(uninitialized) \in Nat
    BY <2>1, TotalChunksType
  <2> QED BY <1>2, <1>5, <2>2, <2>3
<1>16. NothingWaits => written = {} /\ uninitialized' = {}
  BY <1>2 DEF NothingWaits
<1> QED BY <1>1, <1>2, <1>3, <1>8, <1>9, <1>10, <1>13, <1>14, <1>15, <1>16, OfferKeeps

\* Every handler of the loop keeps the invariant and the balance.
LEMMA LoopKeepsData ==
  ASSUME DataInv, AllocatorsConserved, Loop
  PROVE  DataInv' /\ AllocatorsConserved'
BY SnapshotProducedKeeps, InitsKeeps, UnifiedInitsKeeps, TracingDataKeeps, SnapshotReplayedKeeps,
   SimulationResultKeeps, GpuWorkResultKeeps, ReturnKeepsData DEF Loop

-----------------------------------------------------------------------------
(* The start of a call, and all steps. *)

\* So does the start of commit_memory ...
LEMMA StartKeepsData ==
  ASSUME Inv, DataInv, AllocatorsConserved, Start
  PROVE  DataInv' /\ AllocatorsConserved'
<1>1. main = "start" /\ Begin(<<>>, FALSE) /\ UNCHANGED <<caching, proving, trivial, unpaired_inits>>
  BY DEF Start
<1>2. DataType /\ KeyInv /\ InitsInv /\ OrderInv
  BY DEF DataInv
<1>3. entries = <<>> /\ unpaired_inits = NoData
  BY <1>1, <1>2 DEF KeyInv, OrderInv, NothingWaits
<1>4. Begin(entries, FALSE) /\ caching' \in BOOLEAN /\ proving' \in BOOLEAN
      /\ trivial' \in Nat /\ trivial' <= EmptyCircuits
  BY <1>1, <1>2, <1>3 DEF DataType, InitsInv
<1>5. Table(unpaired_inits') /\ SumFunction(unpaired_inits') = 0 /\ DOMAIN unpaired_inits' = {}
  BY <1>1, <1>3, NoDataTable
<1> QED BY <1>1, <1>4, <1>5, BeginKeepsData

\* ... and of prove.
LEMMA ProveKeepsData ==
  ASSUME Inv, DataInv, AllocatorsConserved, Prove
  PROVE  DataInv' /\ AllocatorsConserved'
<1>1. /\ main = "committed" /\ proving' = TRUE /\ UNCHANGED caching /\ trivial' = cached_trivial
      /\ unpaired_inits' = [q \in 0..(cached_trivial - 1) |-> 0]
      /\ Begin(entries, AllSent(Len(entries)))
  BY DEF Prove
<1>2. PICK all_sent \in BOOLEAN : all_sent = AllSent(Len(entries))
  BY DEF AllSent
<1>3. Begin(entries, all_sent)
  BY <1>1, <1>2
<1>4. DataType /\ KeyInv /\ InitsInv
  BY DEF DataInv
<1>5. caching /\ caching' \in BOOLEAN /\ proving' \in BOOLEAN /\ trivial' \in Nat
      /\ trivial' <= EmptyCircuits
  BY <1>1, <1>4 DEF DataType, KeyInv, InitsInv
<1>6. PICK c \in Nat : c = cached_trivial
  BY <1>4 DEF DataType
<1>7. PICK S, f : S = 0..(c - 1) /\ f = [q \in S |-> 0]
  OBVIOUS
<1>8. S \subseteq Nat /\ \A q \in S : q < c
  BY <1>7
<1>9. IsFiniteSet(S)
  BY <1>7, FS_Interval
<1>10. f = unpaired_inits' /\ f \in [S -> Nat] /\ DOMAIN f = S
  BY <1>1, <1>6, <1>7
<1>11. SumFunction(f) = 0
  <2>1. f \in [S -> Int] /\ \A x \in S : f[x] = 0
    BY <1>7
  <2> QED BY <1>9, <2>1, SumOfZeros
<1>12. Table(f)
  BY <1>8, <1>9, <1>10 DEF Table
<1>13. \A q \in DOMAIN unpaired_inits' : caching' /\ proving' /\ q < trivial'
  BY <1>1, <1>5, <1>6, <1>8, <1>10
<1> QED BY <1>1, <1>3, <1>5, <1>10, <1>11, <1>12, <1>13, BeginKeepsData

\* Every step keeps the invariant and the balance.
LEMMA NextKeepsData ==
  ASSUME Inv, DataInv, AllocatorsConserved, [Next]_vars
  PROVE  DataInv' /\ AllocatorsConserved'
<1>1. CASE Start
  BY <1>1, StartKeepsData
<1>2. CASE Prove
  BY <1>2, ProveKeepsData
<1>3. CASE SourceShared
  <2>1. /\ main' = "source_shared"
        /\ UNCHANGED <<dataState, uninitialized, unpaired_inits, unpaired_tracing,
                       cached_trivial, free_allocators>>
    BY <1>3 DEF SourceShared, dataState, requestVars, dataVars, resultVars, cacheVars, cpuVars,
       sharedVars, simulatorVars, producerVars, replayerVars
  <2> QED BY <2>1, IdleKeepsData
<1>4. CASE Loop
  BY <1>4, LoopKeepsData
<1>5. CASE Simulator /\ UNCHANGED clientVars
  BY <1>5, SimulatorKeepsData DEF Inv
<1>6. ASSUME NEW r \in Replayers, Replayer(r), UNCHANGED clientVars
      PROVE  DataInv' /\ AllocatorsConserved'
  BY <1>6, ReplayerKeepsData
<1>7. ASSUME NEW request \in gpu, Answer(request)
      PROVE  DataInv' /\ AllocatorsConserved'
  BY <1>7, AnswerKeepsData
<1>8. CASE UNCHANGED vars
  <2>1. /\ main' = main
        /\ UNCHANGED <<dataState, uninitialized, unpaired_inits, unpaired_tracing,
                       cached_trivial, free_allocators>>
    BY <1>8 DEF vars, dataState, requestVars, dataVars, resultVars, cacheVars, cpuVars,
       sharedVars, simulatorVars, producerVars, replayerVars
  <2> QED BY <2>1, IdleKeepsData
<1> QED BY <1>1, <1>2, <1>3, <1>4, <1>5, <1>6, <1>7, <1>8 DEF Next, GetResult, CpuWorkers, Finished

\* They hold at first.
LEMMA InitHasData == Init => DataInv /\ AllocatorsConserved
<1> SUFFICES ASSUME Init PROVE DataInv /\ AllocatorsConserved
  OBVIOUS
<1>1. /\ main = "start" /\ caching \in BOOLEAN /\ proving \in BOOLEAN /\ gpu = {}
      /\ gpu_work_requests_sender = FALSE /\ requests_served_from_cache = {} /\ trivial = 0
      /\ simulation_result = FALSE /\ abort_signaled = FALSE /\ uninitialized = {}
      /\ processed = {} /\ unpaired_inits = NoData /\ unpaired_tracing = NoData
      /\ completed = {} /\ entries = <<>> /\ cached_trivial = 0
  BY DEF Init
<1>2. /\ results = <<>> /\ free_allocators = Allocators /\ simulator = "done" /\ snapshot_index = 0
      /\ produced = NoRows /\ chunks = NoRows /\ room = NoRows
      /\ participating = [t \in Families |-> {}] /\ inits_index = 0 /\ inits_chunks = 0
      /\ replayer = [r \in Replayers |-> "done"]
  BY DEF Init, CpuInit, Families
<1>3. NoRows \in [Families -> Nat] /\ \A t \in Families : NoRows[t] = 0
  BY DEF NoRows, Families
<1>4. DataType
  BY <1>1, <1>2, NoDataTable, NothingOnTheWay, FS_EmptySet, SizesAssumption DEF DataType, Positions
<1>5. ProducerInv
  <2>1. \A t \in Families : chunks[t] = 0
    BY <1>2, <1>3
  <2>2. snapshot_index \in 0..Len(Run)
    BY <1>2, RunShape
  <2>3. inits_index <= EmptyCircuits + Partitions
    BY <1>2, EmptyType
  <2> QED BY <1>2, <1>3, <2>1, <2>2, <2>3 DEF ProducerInv, Producing
<1>6. /\ UninitializedKeys = {} /\ UnpairedKeys = {} /\ GpuKeys = {} /\ EntryKeys = {}
      /\ Upstream = {} /\ Downstream = {}
  <2>1. UninitializedKeys = {} /\ UnpairedKeys = {} /\ GpuKeys = {} /\ EntryKeys = {}
    BY <1>1, NoDataTable, NothingOnTheWay DEF UninitializedKeys, UnpairedKeys, GpuKeys, EntryKeys
  <2>2. \A type : KeysIn(results, type) = {}
    BY <1>2, NothingOnTheWay
  <2> QED BY <1>1, <2>1, <2>2 DEF Upstream, Downstream
<1>7. KeyInv
  <2>1. DistinctMessages(results) /\ \A type : KeysIn(results, type) = {}
    BY <1>2, NothingOnTheWay
  <2>2. DOMAIN entries = {} /\ DOMAIN unpaired_inits = {}
    BY <1>1, NoDataTable, NothingOnTheWay
  <2> QED BY <1>1, <1>6, <2>1, <2>2 DEF KeyInv, Apart, KeyedOnce
<1>8. DOMAIN results = {}
  BY <1>2, NothingOnTheWay
<1>9. InitsInv /\ OrderInv
  BY <1>1, <1>8, EmptyType DEF InitsInv, OrderInv, NothingWaits
<1>10. ReportInv
  <2>1. Busy("reporting") = {} /\ IndexesIn(results) = {}
    BY <1>2, NothingOnTheWay DEF Busy
  <2> QED BY <1>1, <2>1 DEF ReportInv, Reporting, Apart
<1>11. AllocatorsConserved
  <2>1. SumFunction(chunks) = 0
    <3>1. chunks \in [Families -> Int] /\ \A t \in Families : chunks[t] = 0
      BY <1>2, <1>3
    <3> QED BY <3>1, FamiliesFinite, SumOfZeros
  <2>2. ChunksOnTheWay(results) = 0 /\ ChunksOfFirst(entries, Len(entries)) = 0
    BY <1>1, <1>2, NothingOnTheWay
  <2>3. TotalChunks(uninitialized) = 0 /\ TotalChunks(gpu) = 0
    BY <1>1, NoRequests
  <2>4. SumFunction(unpaired_inits) = 0 /\ SumFunction(unpaired_tracing) = 0
    BY <1>1, NoDataTable
  <2>5. Allocators \in Nat
    BY SizesAssumption
  <2> QED BY <1>2, <2>1, <2>2, <2>3, <2>4, <2>5 DEF AllocatorsConserved, ChunksOnTheWay
<1> QED BY <1>4, <1>5, <1>7, <1>9, <1>10, <1>11 DEF DataInv

\* No host allocator is lost or returned twice, whatever the run, the sizes, the
\* number of replayers and the point at which a call is aborted: all of them
\* are free, with the simulator, in a message, waiting in the loop of get_result,
\* on the GPU side or in the cache.
THEOREM AllocatorsAreConserved == Spec => []AllocatorsConserved
<1>1. Init => Inv /\ TraceChunksConserved /\ DataInv /\ AllocatorsConserved
  BY InitHolds, InitHasData
<1>2. /\ Inv /\ TraceChunksConserved /\ DataInv /\ AllocatorsConserved /\ [Next]_vars
      => (Inv /\ TraceChunksConserved /\ DataInv /\ AllocatorsConserved)'
  BY NextKeeps, NextKeepsData
<1> QED BY <1>1, <1>2, PTL DEF Spec

=============================================================================
