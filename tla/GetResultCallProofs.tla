---------------------------- MODULE GetResultCallProofs ---------------------
(***************************************************************************)
(* What a call of get_result promises: the GPU only gets data whose rows   *)
(* have been written, its asserts hold, it returns with the answer for     *)
(* every circuit of the run, and its state is well typed.                  *)
(*                                                                         *)
(* Rows are written by replayers, after the data was sent.  CoverInv says  *)
(* that data the loop still waits with names every snapshot that has rows  *)
(* of its circuit and is not replayed yet, and that data it no longer      *)
(* waits with has none.  ReservedInv is what the simulator does for that:  *)
(* an incomplete circuit notes every snapshot with rows in it.             *)
(*                                                                         *)
(* CountInv says that the counters count circuits: those sent are the ones *)
(* that have reached the GPU side, those pending the ones it has not       *)
(* answered to the loop.  CompleteInv says that the simulator leaves no    *)
(* circuit out, and that the loop loses none: what was issued is on its    *)
(* way or has reached the GPU side.  A call that was not aborted ends with *)
(* nothing on its way; an aborted one has sent all circuits before.        *)
(***************************************************************************)
EXTENDS GetResultDataProofs

-----------------------------------------------------------------------------
(* Requests are sent when their rows are written. *)

\* Snapshots that are not taken yet, while the simulator takes them.
Ahead == IF Producing THEN {i \in DOMAIN Run : i > snapshot_index} ELSE {}

\* Snapshots whose rows can still be written.
Open == Live \cup Ahead

\* The open snapshots with rows of circuit k are among the indexes.
Covers(k, indexes) ==
  k \in Families \X Nat => Participants(k[1], k[2]) \cap Open \subseteq indexes

\* A producer has reserved the rows of the snapshots before the current one, and
\* has noted every snapshot with rows of the circuit it is filling.
ReservedInv ==
  /\ simulator = "trace" =>
       /\ snapshot_index # 0
       /\ \A t \in Families : Rows(t, snapshot_index - 1) <= produced[t]
  /\ simulator = "finalize" =>
       IF is_aborted
       THEN /\ snapshot_index # 0 /\ snapshot_index \notin Live
            /\ \A t \in Families : produced[t] = Rows(t, snapshot_index - 1)
       ELSE \A t \in Families : produced[t] = Rows(t, snapshot_index)
  /\ Producing \/ simulator = "finalize" =>
       \A t \in Families : chunks[t] # 0 =>
         \A i \in 1..snapshot_index :
           /\ Rows(t, i - 1) < Rows(t, i) /\ At(t) * CyclesPerCircuit[t] < Rows(t, i)
           /\ Rows(t, i - 1) < produced[t]
           => i \in participating[t]

\* The open snapshots of a circuit are those its data waits for; there are none
\* once the data has been found written.
CoverInv ==
  /\ \A i \in DOMAIN results : results[i].type = "TracingData" =>
       Covers(results[i].key, results[i].snapshots)
  /\ \A data \in uninitialized : Covers(data.key, data.snapshots)
  /\ \A k \in UnpairedKeys : Covers(k, {})
  /\ \A k \in (GpuKeys \cup KeysIn(results, "GpuWorkResult")) \ requests_served_from_cache :
       Covers(k, {})

\* The rows of the snapshots, in order, as numbers.
LEMMA ParticipantRows ==
  ASSUME NEW t \in Families, NEW q \in Nat, NEW i \in Participants(t, q)
  PROVE  /\ i \in 1..Len(Run) /\ i - 1 \in 0..Len(Run)
         /\ Rows(t, i - 1) \in Nat /\ Rows(t, i) \in Nat
         /\ Rows(t, i - 1) < Rows(t, i)
         /\ Rows(t, i - 1) < (q + 1) * CyclesPerCircuit[t]
         /\ q * CyclesPerCircuit[t] < Rows(t, i)
<1>1. /\ i \in DOMAIN Run /\ Rows(t, i - 1) < Rows(t, i)
      /\ Rows(t, i - 1) < (q + 1) * CyclesPerCircuit[t]
      /\ Rows(t, i) > q * CyclesPerCircuit[t]
  BY DEF Participants
<1>2. i \in 1..Len(Run) /\ i - 1 \in 0..Len(Run) /\ i \in 0..Len(Run)
  BY <1>1, RunShape
<1>3. Rows(t, i - 1) \in Nat /\ Rows(t, i) \in Nat
  BY <1>2, RowsType
<1>4. PICK a \in Nat : a = q * CyclesPerCircuit[t]
  BY RunShape
<1> QED BY <1>1, <1>2, <1>3, <1>4

\* The live snapshots are among those taken.
LEMMA LiveIsTaken ==
  ASSUME SnapshotInv
  PROVE  Live \subseteq 0..snapshot_index
  BY DEF SnapshotInv

\* A snapshot with rows of the circuit that is filled next has been noted, if its
\* rows are reserved.
LEMMA NotedBefore ==
  ASSUME ProducerInv, ReservedInv, Producing \/ simulator = "finalize", NEW t \in Families,
         NEW i \in Participants(t, At(t)), i <= snapshot_index, Rows(t, i) <= produced[t],
         chunks[t] # 0
  PROVE  i \in participating[t]
<1>1. At(t) \in Nat /\ produced[t] \in Nat /\ snapshot_index \in Nat
  <2>1. produced[t] \in Nat /\ snapshot_index \in 0..Len(Run)
    BY DEF ProducerInv
  <2> QED BY <2>1, RunShape, Division DEF At
<1>2. /\ i \in 1..Len(Run) /\ Rows(t, i - 1) \in Nat /\ Rows(t, i) \in Nat
      /\ Rows(t, i - 1) < Rows(t, i) /\ At(t) * CyclesPerCircuit[t] < Rows(t, i)
  BY <1>1, ParticipantRows
<1>3. i \in 1..snapshot_index /\ Rows(t, i - 1) < produced[t]
  BY <1>1, <1>2
<1> QED BY <1>2, <1>3 DEF ReservedInv

\* The data that Reserve sends names the open snapshots of its circuit.
LEMMA ReserveCovers ==
  ASSUME ProducerInv, ReservedInv, SnapshotInv, simulator = "trace", NEW t \in Families,
         (At(t) + 1) * CyclesPerCircuit[t] <= Rows(t, snapshot_index),
         NEW indexes, indexes = participating[t] \cup {snapshot_index}
  PROVE  Covers(<<t, At(t)>>, indexes)
<1>1. /\ produced[t] \in Nat /\ snapshot_index \in 0..Len(Run) /\ At(t) \in Nat
      /\ CyclesPerCircuit[t] \in Nat \ {0} /\ Len(Run) \in Nat
  <2>1. produced[t] \in Nat /\ snapshot_index \in 0..Len(Run)
    BY DEF ProducerInv
  <2> QED BY <2>1, RunShape, Division DEF At
<1>2. snapshot_index # 0 /\ Rows(t, snapshot_index - 1) <= produced[t]
  BY DEF ReservedInv
<1>3. ASSUME NEW i \in Participants(t, At(t))
      PROVE  i \in indexes
  <2>1. /\ i \in 1..Len(Run) /\ i - 1 \in 0..Len(Run)
        /\ Rows(t, i - 1) \in Nat /\ Rows(t, i) \in Nat
        /\ Rows(t, i - 1) < (At(t) + 1) * CyclesPerCircuit[t]
        /\ At(t) * CyclesPerCircuit[t] < Rows(t, i)
    BY <1>1, ParticipantRows
  <2>2. CASE i = snapshot_index
    BY <2>2
  <2>3. CASE i > snapshot_index
    <3>1. snapshot_index <= i - 1
      BY <1>1, <2>1, <2>3
    <3>2. Rows(t, snapshot_index) <= Rows(t, i - 1)
      BY <1>1, <2>1, <3>1, RowsGrow
    <3>3. PICK a \in Nat, b \in Nat : a = Rows(t, snapshot_index) /\ b = (At(t) + 1) * CyclesPerCircuit[t]
      BY <1>1, RowsType
    <3> QED BY <2>1, <3>2, <3>3
  <2>4. CASE i < snapshot_index
    <3>1. i <= snapshot_index - 1 /\ i \in 0..Len(Run) /\ snapshot_index - 1 \in 0..Len(Run)
      BY <1>1, <1>2, <2>1, <2>4
    <3>2. Rows(t, i) <= Rows(t, snapshot_index - 1)
      BY <3>1, RowsGrow
    <3>3. Rows(t, i) <= produced[t]
      <4>1. Rows(t, snapshot_index - 1) \in Nat
        BY <3>1, RowsType
      <4> QED BY <1>1, <1>2, <2>1, <3>2, <4>1
    <3>4. chunks[t] # 0
      <4>1. SUFFICES ASSUME chunks[t] = 0 PROVE FALSE
        OBVIOUS
      <4>2. At(t) * CyclesPerCircuit[t] = produced[t]
        BY <4>1 DEF ProducerInv, Producing
      <4> QED BY <1>1, <2>1, <3>3, <4>2
    <3>5. i \in participating[t]
      BY <1>1, <2>1, <2>4, <3>3, <3>4, NotedBefore DEF Producing
    <3> QED BY <3>5
  <2> QED BY <1>1, <2>1, <2>2, <2>3, <2>4
<1> QED BY <1>3 DEF Covers

\* So does the data of an incomplete circuit, also after an abort.
LEMMA FinalizeCovers ==
  ASSUME ProducerInv, ReservedInv, SnapshotInv, simulator = "finalize", NEW t \in Families,
         chunks[t] # 0
  PROVE  Covers(<<t, At(t)>>, participating[t])
<1>1. /\ produced[t] \in Nat /\ snapshot_index \in 0..Len(Run) /\ At(t) \in Nat
      /\ Len(Run) \in Nat
  <2>1. produced[t] \in Nat /\ snapshot_index \in 0..Len(Run)
    BY DEF ProducerInv
  <2> QED BY <2>1, RunShape, Division DEF At
<1>2. Open = Live /\ Live \subseteq 0..snapshot_index
  BY LiveIsTaken DEF Open, Ahead, Producing
<1>3. ASSUME NEW i \in Participants(t, At(t)), i \in Live
      PROVE  i \in participating[t]
  <2>1. i \in 1..Len(Run) /\ i <= snapshot_index /\ i \in 0..Len(Run) /\ Rows(t, i) \in Nat
    BY <1>1, <1>2, <1>3, ParticipantRows
  <2>2. Rows(t, i) <= produced[t]
    <3>1. CASE is_aborted
      <4>1. /\ snapshot_index # 0 /\ snapshot_index \notin Live
            /\ produced[t] = Rows(t, snapshot_index - 1)
        BY <3>1 DEF ReservedInv
      <4>2. i <= snapshot_index - 1 /\ snapshot_index - 1 \in 0..Len(Run)
        BY <1>1, <1>3, <2>1, <4>1
      <4> QED BY <2>1, <4>1, <4>2, RowsGrow
    <3>2. CASE ~is_aborted
      BY <1>1, <2>1, <3>2, RowsGrow DEF ReservedInv
    <3> QED BY <3>1, <3>2
  <2> QED BY <2>1, <2>2, NotedBefore
<1> QED BY <1>2, <1>3 DEF Covers

\* Fewer open snapshots are covered by the same indexes.
LEMMA CoversStays ==
  ASSUME Open' \subseteq Open, NEW k, NEW indexes, Covers(k, indexes)
  PROVE  Covers(k, indexes)'
  BY DEF Covers

\* A task that sends no data keeps CoverInv if it opens no snapshot ...
LEMMA QuietKeepsCover ==
  ASSUME CoverInv, UNCHANGED clientVars, UNCHANGED results, Open' \subseteq Open
  PROVE  CoverInv'
<1>1. /\ UNCHANGED <<uninitialized, requests_served_from_cache, results>>
      /\ UnpairedKeys' = UnpairedKeys /\ GpuKeys' = GpuKeys
  BY ClientUnchanged, ClientKeysUnchanged
<1> QED BY <1>1, CoversStays DEF CoverInv

\* ... and one that sends data, if the data names the open snapshots.
LEMMA SendKeepsCover ==
  ASSUME CoverInv, DataType, UNCHANGED clientVars, Open' \subseteq Open,
         NEW m \in Messages, Send(m), m.type # "GpuWorkResult",
         m.type = "TracingData" => Covers(m.key, m.snapshots)
  PROVE  CoverInv'
<1>1. /\ UNCHANGED <<uninitialized, requests_served_from_cache>>
      /\ UnpairedKeys' = UnpairedKeys /\ GpuKeys' = GpuKeys
  BY ClientUnchanged, ClientKeysUnchanged
<1>2. results' = Append(results, m) /\ results \in Seq(Messages)
  BY DEF Send, DataType
<1>3. KeysIn(results', "GpuWorkResult") = KeysIn(results, "GpuWorkResult")
  BY <1>2, SendKeys
<1>4. ASSUME NEW i \in DOMAIN results', results'[i].type = "TracingData"
      PROVE  (Covers(results[i].key, results[i].snapshots))'
  <2>1. PICK d : d = results'[i]
    OBVIOUS
  <2>2. \/ d = m
        \/ i \in DOMAIN results /\ d = results[i]
    BY <1>2, <2>1, Grown
  <2>3. Covers(d.key, d.snapshots)
    BY <1>4, <2>1, <2>2 DEF CoverInv
  <2>4. Covers(d.key, d.snapshots)'
    BY <2>3, CoversStays
  <2> QED BY <2>1, <2>4 DEF Covers
<1>5. \A d \in uninitialized' : Covers(d.key, d.snapshots)'
  BY <1>1, CoversStays DEF CoverInv
<1>6. \A k \in UnpairedKeys' : Covers(k, {})'
  BY <1>1, CoversStays DEF CoverInv
<1>7. \A k \in (GpuKeys' \cup KeysIn(results', "GpuWorkResult")) \ requests_served_from_cache' :
        Covers(k, {})'
  BY <1>1, <1>3, CoversStays DEF CoverInv
<1> QED BY <1>4, <1>5, <1>6, <1>7 DEF CoverInv

\* A step of the simulator opens no snapshot.
LEMMA SimulatorOpensNothing ==
  ASSUME StateInv, ProducerInv, SnapshotInv, Simulator
  PROVE  /\ Open' \subseteq Open
         /\ snapshot_index' # snapshot_index => ProcessTrace
         /\ simulator = "finalize" => Live' \subseteq Live
<1>1. snapshot_index \in 0..Len(Run) /\ Len(Run) \in Nat /\ DOMAIN Run = 1..Len(Run)
  BY RunShape DEF ProducerInv
<1>2. CASE ProcessTrace
  <2>1. /\ simulator = "run" /\ simulator' \in {"finalize", "trace"}
        /\ snapshot_index' = snapshot_index + 1 /\ snapshot_index < Len(Run)
        /\ UNCHANGED <<snapshots, replayer, replaying>>
    BY <1>2 DEF ProcessTrace, replayerVars, ProducerInv
  <2>2. Live' \subseteq Live \cup {snapshot_index'}
    BY <2>1 DEF Live
  <2>3. simulator' # "trace" => Live' \subseteq Live
    BY <2>1 DEF Live
  <2>4. Ahead' \subseteq Ahead /\ (simulator' = "trace" => snapshot_index' \in Ahead)
    BY <1>1, <2>1 DEF Ahead, Producing
  <2> QED BY <1>2, <2>1, <2>2, <2>3, <2>4 DEF Open
<1>3. CASE SendSnapshot
  <2>1. /\ simulator = "trace" /\ simulator' \in {"finalize", "chunk"}
        /\ snapshots' = Append(snapshots, snapshot_index)
        /\ UNCHANGED <<snapshot_index, replayer, replaying>>
    BY <1>3 DEF SendSnapshot, replayerVars
  <2>2. ToSet(snapshots') = ToSet(snapshots) \cup {snapshot_index}
    BY <1>1, <2>1, QueueGrows
  <2>3. Live' = Live /\ Ahead' \subseteq Ahead
    BY <2>1, <2>2 DEF Live, Ahead, Producing
  <2> QED BY <2>1, <2>3 DEF Open
<1>4. CASE ~ProcessTrace /\ ~SendSnapshot
  <2>1. /\ UNCHANGED <<snapshots, snapshot_index, replayer, replaying>>
        /\ simulator' \in {"run", "trace", "chunk"} => simulator \in {"run", "trace", "chunk"}
        /\ simulator' = "trace" => simulator = "trace"
    BY <1>4 DEF Simulator, Reserve, ReceiveChunk, FinalizeProducer, Finalized, FinishRun,
       SendEmptyInits, FillInitsChunk, SendInits, SendSimulationResult, DropSender, replayerVars
  <2>2. Live' \subseteq Live /\ Ahead' \subseteq Ahead
    BY <2>1 DEF Live, Ahead, Producing
  <2> QED BY <2>1, <2>2 DEF Open
<1> QED BY <1>2, <1>3, <1>4

\* What ReservedInv says of one type, in snapshot n, with p rows reserved.
Noted(t, n, p, indexes) ==
  \A i \in 1..n :
    /\ Rows(t, i - 1) < Rows(t, i) /\ (p \div CyclesPerCircuit[t]) * CyclesPerCircuit[t] < Rows(t, i)
    /\ Rows(t, i - 1) < p
    => i \in indexes

\* A new snapshot has no rows yet among those reserved.
LEMMA TakenIsNoted ==
  ASSUME NEW t \in Families, NEW n \in 0..(Len(Run) - 1), NEW indexes, Noted(t, n, Rows(t, n), indexes)
  PROVE  Noted(t, n + 1, Rows(t, n), indexes)
<1>1. n \in 0..Len(Run) /\ n \in Nat /\ Len(Run) \in Nat
  BY RunShape
<1>2. Rows(t, n) \in Nat
  BY <1>1, RowsType
<1>3. ASSUME NEW i \in 1..(n + 1), Rows(t, i - 1) < Rows(t, n)
      PROVE  i \in 1..n
  <2>1. i # n + 1
    BY <1>1, <1>2, <1>3
  <2> QED BY <1>1, <2>1
<1> QED BY <1>3 DEF Noted

\* Row p is in the circuit of row a.
Within(a, p, c) == a < p /\ p < (a \div c + 1) * c

LEMMA StaysWithin ==
  ASSUME NEW a \in Nat, NEW p \in Nat, NEW c \in Nat \ {0}, Within(a, p, c)
  PROVE  p \div c = a \div c
  BY GrowsWithinCircuit DEF Within

\* Rows reserved in the current snapshot, within a circuit: it is noted.
LEMMA ReservedIsNoted ==
  ASSUME NEW t \in Families, NEW n \in 1..Len(Run), NEW a \in Nat, NEW p \in Nat, a < p,
         p < (a \div CyclesPerCircuit[t] + 1) * CyclesPerCircuit[t], Rows(t, n - 1) <= a,
         NEW indexes, Noted(t, n, a, indexes) \/ (a \div CyclesPerCircuit[t]) * CyclesPerCircuit[t] = a
  PROVE  Noted(t, n, p, indexes \cup {n})
<1>1. PICK c \in Nat \ {0} : c = CyclesPerCircuit[t]
  BY RunShape
<1>2. p \div c = a \div c
  <2>1. Within(a, p, c)
    BY <1>1, Zenon DEF Within
  <2> QED BY ONLY <1>1, <2>1, a \in Nat, p \in Nat, StaysWithin
<1>3. PICK b \in Nat : b = (a \div c) * c
  BY Division
<1>4. ASSUME NEW i \in 1..n, i # n,
             Rows(t, i - 1) < Rows(t, i), (p \div c) * c < Rows(t, i), Rows(t, i - 1) < p
      PROVE  i \in indexes
  <2>1. i \in 0..Len(Run) /\ i - 1 \in 0..Len(Run) /\ n - 1 \in 0..Len(Run) /\ i <= n - 1
    BY <1>4, RunShape
  <2>2. Rows(t, i) <= Rows(t, n - 1)
    BY <2>1, RowsGrow
  <2>3. Rows(t, i) \in Nat /\ Rows(t, i - 1) \in Nat /\ Rows(t, n - 1) \in Nat
    BY <2>1, RowsType
  <2>4. Rows(t, i) <= a /\ Rows(t, i - 1) < a
    BY <1>4, <2>2, <2>3
  <2>5. b < Rows(t, i)
    BY <1>2, <1>3, <1>4
  <2>6. b # a
    BY <1>3, <2>3, <2>4, <2>5
  <2>7. Noted(t, n, a, indexes)
    BY <1>1, <1>3, <2>6
  <2>8. (a \div CyclesPerCircuit[t]) * CyclesPerCircuit[t] < Rows(t, i)
    BY <1>1, <1>3, <2>5
  <2> QED BY <1>4, <2>4, <2>7, <2>8 DEF Noted
<1>5. ASSUME NEW i \in 1..n, Rows(t, i - 1) < Rows(t, i), (p \div c) * c < Rows(t, i), Rows(t, i - 1) < p
      PROVE  i \in indexes \cup {n}
  BY <1>4, <1>5
<1> QED BY <1>1, <1>5 DEF Noted

\* Reserve notes the current snapshot in what it leaves incomplete.
LEMMA ReserveKeepsReserved ==
  ASSUME ProducerInv, ReservedInv, free_allocators \in Nat, Reserve
  PROVE  ReservedInv'
<1>0. PICK t \in Families, p \in Nat, n \in Nat \ {0}, indexes \in SUBSET Nat :
             Reserves(t, p, n, indexes)
  BY ReserveEffect
<1>1. /\ produced' = [produced EXCEPT ![t] = p]
      /\ produced[t] < p /\ p <= Rows(t, snapshot_index)
      /\ free_allocators' \in Nat /\ free_allocators' + n = free_allocators + chunks[t]
      /\ room' \in [Families -> Nat]
      /\ indexes = participating[t] \cup {snapshot_index}
      /\ \/ /\ p = (At(t) + 1) * CyclesPerCircuit[t]
            /\ Send(TracingData(<<t, At(t)>>, n, indexes))
            /\ chunks' = [chunks EXCEPT ![t] = 0]
            /\ participating' = [participating EXCEPT ![t] = {}]
         \/ /\ p < (At(t) + 1) * CyclesPerCircuit[t]
            /\ UNCHANGED results
            /\ chunks' = [chunks EXCEPT ![t] = n]
            /\ participating' = [participating EXCEPT ![t] = indexes]
  BY <1>0 DEF Reserves
<1>2. simulator = "trace" /\ simulator' = "trace" /\ UNCHANGED snapshot_index
  BY DEF Reserve
<1>3. /\ produced \in [Families -> Nat] /\ chunks \in [Families -> Nat]
      /\ participating \in [Families -> SUBSET Nat] /\ snapshot_index \in 0..Len(Run)
  BY DEF ProducerInv
<1>4. snapshot_index # 0 /\ \A s \in Families : Rows(s, snapshot_index - 1) <= produced[s]
  BY <1>2 DEF ReservedInv
<1>5. snapshot_index \in 1..Len(Run) /\ snapshot_index - 1 \in 0..Len(Run)
  BY <1>3, <1>4, RunShape
<1>6. PICK a \in Nat : a = produced[t]
  BY <1>3
<1>7. \A s \in Families : s # t => /\ produced'[s] = produced[s] /\ chunks'[s] = chunks[s]
                                   /\ participating'[s] = participating[s]
  BY <1>1, <1>3
<1>8. produced'[t] = p
  BY <1>1, <1>3
<1>9. \A s \in Families : Rows(s, snapshot_index - 1) <= produced'[s]
  <2>1. Rows(t, snapshot_index - 1) <= p
    <3>1. Rows(t, snapshot_index - 1) \in Nat
      BY <1>5, RowsType
    <3> QED BY <1>1, <1>4, <1>6, <3>1
  <2> QED BY <1>4, <1>7, <1>8, <2>1
<1>10. ASSUME NEW s \in Families, chunks'[s] # 0
       PROVE  Noted(s, snapshot_index, produced'[s], participating'[s])
  <2>1. CASE s # t
    BY <1>2, <1>7, <1>10, <2>1 DEF ReservedInv, Noted, At, Producing
  <2>2. CASE s = t
    <3>1. p < (At(t) + 1) * CyclesPerCircuit[t] /\ participating'[t] = indexes
      BY <1>1, <1>3, <1>10, <2>2
    <3>2. p < (a \div CyclesPerCircuit[t] + 1) * CyclesPerCircuit[t]
      BY <1>6, <3>1 DEF At
    <3>3. Noted(t, snapshot_index, a, participating[t]) \/ (a \div CyclesPerCircuit[t]) * CyclesPerCircuit[t] = a
      <4>1. CASE chunks[t] = 0
        BY <1>2, <1>6, <4>1 DEF ProducerInv, Producing, At
      <4>2. CASE chunks[t] # 0
        BY <1>2, <1>6, <4>2 DEF ReservedInv, Producing, At, Noted
      <4> QED BY <4>1, <4>2
    <3>4. a < p /\ Rows(t, snapshot_index - 1) <= a
      BY <1>1, <1>4, <1>6
    <3>5. Noted(t, snapshot_index, p, participating[t] \cup {snapshot_index})
      BY <1>5, <3>2, <3>3, <3>4, ReservedIsNoted
    <3> QED BY <1>1, <1>8, <2>2, <3>1, <3>5
  <2> QED BY <2>1, <2>2
<1> QED BY <1>2, <1>4, <1>9, <1>10 DEF ReservedInv, Noted, At

\* ReservedInv, one type at a time.
LEMMA ReservedIsNotedInv ==
  ReservedInv <=>
    /\ simulator = "trace" =>
         /\ snapshot_index # 0
         /\ \A t \in Families : Rows(t, snapshot_index - 1) <= produced[t]
    /\ simulator = "finalize" =>
         IF is_aborted
         THEN /\ snapshot_index # 0 /\ snapshot_index \notin Live
              /\ \A t \in Families : produced[t] = Rows(t, snapshot_index - 1)
         ELSE \A t \in Families : produced[t] = Rows(t, snapshot_index)
    /\ Producing \/ simulator = "finalize" =>
         \A t \in Families : chunks[t] # 0 =>
           Noted(t, snapshot_index, produced[t], participating[t])
  BY DEF ReservedInv, Noted, At

\* No step of the simulator loses sight of a snapshot.
LEMMA SimulatorKeepsReserved ==
  ASSUME StateInv, ControlInv, SnapshotInv, ProducerInv, ReservedInv, free_allocators \in Nat,
         Simulator
  PROVE  ReservedInv'
<1>1. /\ snapshot_index \in 0..Len(Run) /\ Len(Run) \in Nat /\ snapshot_index \in Nat
      /\ chunks \in [Families -> Nat]
  BY RunShape DEF ProducerInv
<1>2. CASE ProcessTrace
  <2>1. /\ simulator = "run" /\ snapshot_index' = snapshot_index + 1 /\ snapshot_index < Len(Run)
        /\ \/ simulator' = "finalize" /\ is_aborted'
           \/ simulator' = "trace"
        /\ UNCHANGED <<snapshots, replayer, replaying, produced, chunks, participating>>
    BY <1>2 DEF ProcessTrace, replayerVars, producerVars, ProducerInv
  <2>2. snapshot_index' # 0 /\ snapshot_index' - 1 = snapshot_index
        /\ snapshot_index \in 0..(Len(Run) - 1)
    BY <1>1, <2>1
  <2>3. \A t \in Families : produced'[t] = Rows(t, snapshot_index)
    BY <2>1 DEF ProducerInv
  <2>4. \A t \in Families : Rows(t, snapshot_index' - 1) = produced'[t] /\ produced'[t] \in Nat
    BY <1>1, <2>2, <2>3, RowsType
  <2>5. simulator' = "finalize" => snapshot_index' \notin Live'
    <3>1. simulator' = "finalize" => Live' \subseteq Live
      BY <2>1 DEF Live
    <3>2. snapshot_index' \notin Live
      BY <1>1, <2>1, LiveIsTaken
    <3> QED BY <3>1, <3>2
  <2>6. ASSUME NEW t \in Families, chunks'[t] # 0
        PROVE  Noted(t, snapshot_index', produced'[t], participating'[t])
    <3>1. Noted(t, snapshot_index, Rows(t, snapshot_index), participating[t])
      BY <2>1, <2>3, <2>6, ReservedIsNotedInv DEF Producing
    <3>2. Noted(t, snapshot_index + 1, Rows(t, snapshot_index), participating[t])
      BY <2>2, <3>1, TakenIsNoted
    <3> QED BY <2>1, <2>3, <3>2
  <2>7. simulator' = "trace" =>
          /\ snapshot_index' # 0
          /\ \A t \in Families : Rows(t, snapshot_index' - 1) <= produced'[t]
    BY <2>2, <2>4
  <2>8. simulator' = "finalize" =>
          /\ is_aborted' /\ snapshot_index' # 0 /\ snapshot_index' \notin Live'
          /\ \A t \in Families : produced'[t] = Rows(t, snapshot_index' - 1)
    BY <2>1, <2>2, <2>4, <2>5
  <2> QED BY <2>6, <2>7, <2>8 DEF ReservedInv, Noted, At
<1>3. CASE Reserve
  BY <1>3, ReserveKeepsReserved
<1>4. CASE SendSnapshot
  <2>1. /\ simulator = "trace" /\ simulator' \in {"finalize", "chunk"} /\ ~is_aborted
        /\ UNCHANGED <<is_aborted, snapshot_index, produced, chunks, participating>>
    BY <1>4 DEF SendSnapshot, producerVars, ControlInv
  <2>2. \A t \in Families : produced[t] = Rows(t, snapshot_index)
    <3>1. ASSUME NEW t \in Families
          PROVE  \E i \in DOMAIN Types : Types[i] = t
      BY <3>1 DEF Families, ToSet
    <3> QED BY <1>4, <3>1 DEF SendSnapshot, Unfinished
  <2> QED BY <2>1, <2>2 DEF ReservedInv, At, Producing
<1>5. CASE ReceiveChunk
  <2>1. /\ simulator = "chunk" /\ simulator' = "run"
        /\ UNCHANGED <<snapshot_index, produced, chunks, participating>>
    BY <1>5 DEF ReceiveChunk, producerVars
  <2> QED BY <2>1 DEF ReservedInv, At, Producing
<1>6. CASE FinalizeProducer
  <2>1. PICK t : t = Types[Min(Partial)]
    OBVIOUS
  <2>2. /\ simulator = "finalize" /\ simulator' = "finalize"
        /\ UNCHANGED <<snapshot_index, is_aborted, produced>>
        /\ chunks' = [chunks EXCEPT ![t] = 0]
        /\ participating' = [participating EXCEPT ![t] = {}]
    BY <1>6, <2>1 DEF FinalizeProducer
  <2>3. participating \in [Families -> SUBSET Nat]
    BY DEF ProducerInv
  <2>4. \A s \in Families : chunks'[s] # 0 =>
          chunks[s] # 0 /\ participating'[s] = participating[s]
    BY <1>1, <2>2, <2>3
  <2>5. Live' \subseteq Live
    BY <1>6, <2>2, SimulatorOpensNothing DEF Simulator
  <2> QED BY <2>2, <2>4, <2>5 DEF ReservedInv, At, Producing
<1>7. CASE \/ Finalized \/ FinishRun \/ SendEmptyInits \/ FillInitsChunk \/ SendInits
           \/ SendSimulationResult \/ DropSender
  <2>1. simulator' \notin {"run", "trace", "chunk", "finalize"}
    BY <1>7 DEF Finalized, FinishRun, SendEmptyInits, FillInitsChunk, SendInits,
       SendSimulationResult, DropSender
  <2> QED BY <2>1 DEF ReservedInv, Producing
<1> QED BY <1>2, <1>3, <1>4, <1>5, <1>6, <1>7 DEF Simulator

\* No step of the simulator sends data that leaves out an open snapshot.
LEMMA SimulatorKeepsCover ==
  ASSUME StateInv, SnapshotInv, DataInv, ReservedInv, CoverInv, Simulator, UNCHANGED clientVars
  PROVE  CoverInv'
<1>1. /\ ProducerInv /\ DataType /\ free_allocators \in Nat
      /\ chunks \in [Families -> Nat] /\ participating \in [Families -> SUBSET Nat]
      /\ produced \in [Families -> Nat] /\ inits_index \in Nat /\ inits_chunks \in Nat
  BY DEF DataInv, DataType, ProducerInv
<1>2. Open' \subseteq Open
  BY <1>1, SimulatorOpensNothing
<1>3. \A t \in Families : At(t) \in Nat
  BY <1>1, RunShape, Division DEF At
<1>4. CASE UNCHANGED results
  BY <1>2, <1>4, QuietKeepsCover
<1>5. CASE Reserve /\ results' # results
  <2>0. PICK t \in Families, p \in Nat, n \in Nat \ {0}, indexes \in SUBSET Nat :
               Reserves(t, p, n, indexes)
    BY <1>1, <1>5, ReserveEffect
  <2>1. /\ produced' = [produced EXCEPT ![t] = p]
        /\ produced[t] < p /\ p <= Rows(t, snapshot_index)
        /\ free_allocators' \in Nat /\ free_allocators' + n = free_allocators + chunks[t]
        /\ room' \in [Families -> Nat]
        /\ indexes = participating[t] \cup {snapshot_index}
        /\ \/ /\ p = (At(t) + 1) * CyclesPerCircuit[t]
              /\ Send(TracingData(<<t, At(t)>>, n, indexes))
              /\ chunks' = [chunks EXCEPT ![t] = 0]
              /\ participating' = [participating EXCEPT ![t] = {}]
           \/ /\ p < (At(t) + 1) * CyclesPerCircuit[t]
              /\ UNCHANGED results
              /\ chunks' = [chunks EXCEPT ![t] = n]
              /\ participating' = [participating EXCEPT ![t] = indexes]
    BY <2>0 DEF Reserves
  <2>2. PICK m : m = TracingData(<<t, At(t)>>, n, indexes)
    OBVIOUS
  <2>3. (At(t) + 1) * CyclesPerCircuit[t] <= Rows(t, snapshot_index) /\ Send(m)
    BY <1>5, <2>1, <2>2
  <2>4. Covers(<<t, At(t)>>, indexes)
    BY <1>1, <1>5, <2>1, <2>3, ReserveCovers DEF Reserve
  <2>5. /\ m.type = "TracingData" /\ m.key = <<t, At(t)>> /\ m.snapshots = indexes
        /\ m \in TracingMessages /\ m \in Messages
    BY <1>3, <2>2 DEF TracingData, TracingMessages, Messages
  <2>6. m.type # "GpuWorkResult" /\ (m.type = "TracingData" => Covers(m.key, m.snapshots))
    BY <2>4, <2>5
  <2> QED BY <1>1, <1>2, <2>3, <2>5, <2>6, SendKeepsCover
<1>6. CASE FinalizeProducer
  <2>1. PICK t : t = Types[Min(Partial)]
    OBVIOUS
  <2>2. t \in Families /\ chunks[t] > 0
    <3>1. Partial \subseteq DOMAIN Types /\ Partial # {}
      BY <1>6 DEF Partial, FinalizeProducer
    <3> QED BY <2>1, <3>1, ChosenType DEF Partial
  <2>3. PICK m : m = TracingData(<<t, At(t)>>, chunks[t], participating[t])
    OBVIOUS
  <2>4. simulator = "finalize" /\ Send(m)
    BY <1>6, <2>1, <2>3 DEF FinalizeProducer, At
  <2>5. Covers(<<t, At(t)>>, participating[t])
    BY <1>1, <2>2, <2>4, FinalizeCovers
  <2>6. /\ m.type = "TracingData" /\ m.key = <<t, At(t)>> /\ m.snapshots = participating[t]
        /\ m \in TracingMessages /\ m \in Messages
    BY <1>1, <1>3, <2>2, <2>3 DEF TracingData, TracingMessages, Messages
  <2>7. m.type # "GpuWorkResult" /\ (m.type = "TracingData" => Covers(m.key, m.snapshots))
    BY <2>5, <2>6
  <2> QED BY <1>1, <1>2, <2>4, <2>6, <2>7, SendKeepsCover
<1>7. ASSUME NEW m \in Messages, Send(m), m.type \notin {"GpuWorkResult", "TracingData"}
      PROVE  CoverInv'
  BY <1>1, <1>2, <1>7, SendKeepsCover
<1>8. CASE ProcessTrace /\ results' # results
  <2>1. Send(SnapshotProduced)
    BY <1>8 DEF ProcessTrace
  <2>2. PICK m : m = SnapshotProduced
    OBVIOUS
  <2>3. m \in Messages /\ m.type = "SnapshotProduced"
    BY <2>2 DEF SnapshotProduced, Messages, Notices
  <2> QED BY <1>7, <2>1, <2>2, <2>3
<1>9. CASE SendEmptyInits \/ SendInits
  <2>1. PICK m : m = InitsAndTeardownsData(inits_index, IF SendInits THEN inits_chunks ELSE 0)
    OBVIOUS
  <2>2. Send(m)
    BY <1>9, <2>1 DEF SendEmptyInits, SendInits
  <2>3. m \in Messages /\ m.type = "InitsAndTeardownsData"
    BY <1>1, <2>1 DEF InitsAndTeardownsData, InitsMessages, Messages
  <2> QED BY <1>7, <2>2, <2>3
<1>10. CASE SendSimulationResult
  <2>1. PICK m : m = SimulationResult
    OBVIOUS
  <2>2. m \in Messages /\ m.type = "SimulationResult" /\ Send(m)
    BY <1>10, <2>1 DEF SimulationResult, Messages, Notices, SendSimulationResult
  <2> QED BY <1>7, <2>2
<1>11. UNCHANGED results \/ Reserve \/ FinalizeProducer \/ ProcessTrace \/ SendEmptyInits \/ SendInits
       \/ SendSimulationResult
  BY DEF Simulator, SendSnapshot, ReceiveChunk, Finalized, FinishRun, FillInitsChunk, DropSender
<1> QED BY <1>4, <1>5, <1>6, <1>8, <1>9, <1>10, <1>11

\* The tasks are where they were.
LEMMA SameTasks ==
  ASSUME ReservedInv,
         UNCHANGED <<snapshots, simulator, snapshot_index, is_aborted, produced, chunks,
                     participating, replayer, replaying>>
  PROVE  ReservedInv' /\ Open' = Open
<1>1. Live' = Live /\ Ahead' = Ahead
  BY DEF Live, Ahead, Producing
<1> QED BY <1>1 DEF ReservedInv, At, Open, Producing

\* A replayer only ends the replay of open snapshots, and sends no data.
LEMMA ReplayerKeepsCover ==
  ASSUME StateInv, DataType, ReservedInv, CoverInv, NEW r \in Replayers, Replayer(r),
         UNCHANGED clientVars
  PROVE  ReservedInv' /\ CoverInv'
<1>1. /\ UNCHANGED <<simulator, snapshot_index, is_aborted, produced, chunks, participating>>
      /\ replayer \in [Replayers -> {"waiting", "replaying", "reporting", "done"}]
      /\ replaying \in [Replayers -> Nat] /\ snapshots \in Seq(Nat)
  BY ReplayerLeaves DEF StateInv
<1>2. Live' \subseteq Live
  <2>1. CASE TakeSnapshot(r)
    <3>1. /\ snapshots # <<>> /\ snapshots' = Tail(snapshots)
          /\ \/ UNCHANGED <<replayer, replaying>>
             \/ replayer' = [replayer EXCEPT ![r] = "replaying"]
                 /\ replaying' = [replaying EXCEPT ![r] = Head(snapshots)]
      BY <2>1 DEF TakeSnapshot
    <3>2. ToSet(snapshots') \subseteq ToSet(snapshots) /\ Head(snapshots) \in ToSet(snapshots)
      BY <3>1, QueueShrinks
    <3>3. \A s \in Replayers : replayer'[s] = "replaying" =>
            \/ replayer[s] = "replaying" /\ replaying'[s] = replaying[s]
            \/ replaying'[s] = Head(snapshots)
      BY <1>1, <3>1
    <3> QED BY <1>1, <3>2, <3>3 DEF Live
  <2>2. CASE FinishReplay(r) \/ ReportSnapshot(r) \/ FinishReplayer(r)
    <3>1. /\ UNCHANGED snapshots
          /\ \A s \in Replayers : replayer'[s] = "replaying" =>
               replayer[s] = "replaying" /\ replaying'[s] = replaying[s]
      BY <1>1, <2>2 DEF FinishReplay, ReportSnapshot, FinishReplayer
    <3> QED BY <1>1, <3>1 DEF Live
  <2> QED BY <2>1, <2>2 DEF Replayer
<1>3. Ahead' = Ahead
  BY <1>1 DEF Ahead, Producing
<1>4. ReservedInv'
  BY <1>1, <1>2 DEF ReservedInv, At, Producing
<1>5. Open' \subseteq Open
  BY <1>2, <1>3 DEF Open
<1>6. CASE UNCHANGED results
  BY <1>4, <1>5, <1>6, QuietKeepsCover
<1>7. CASE ReportSnapshot(r)
  <2>1. PICK m : m = SnapshotReplayed(replaying[r])
    OBVIOUS
  <2>2. m \in Messages /\ m.type = "SnapshotReplayed" /\ Send(m)
    BY <1>1, <1>7, <2>1 DEF SnapshotReplayed, Messages, Reports, ReportSnapshot
  <2> QED BY <1>4, <1>5, <2>2, SendKeepsCover
<1> QED BY <1>6, <1>7 DEF Replayer, TakeSnapshot, FinishReplay, FinishReplayer

\* An answer was a request.
LEMMA AnswerKeepsCover ==
  ASSUME DataType, ReservedInv, CoverInv, NEW request \in gpu, Answer(request)
  PROVE  ReservedInv' /\ CoverInv'
<1>1. PICK m : m = GpuWorkResult(request)
  OBVIOUS
<1>2. request \in Requests /\ results \in Seq(Messages)
  BY DEF DataType
<1>3. m \in Messages /\ m.type = "GpuWorkResult" /\ m.key = request.key
  BY <1>1, <1>2 DEF GpuWorkResult, Answers, Messages, Requests
<1>4. /\ results' = Append(results, m) /\ gpu' = gpu \ {request}
      /\ UNCHANGED <<requests_served_from_cache, uninitialized, unpaired_tracing, snapshots,
                     simulator, snapshot_index, is_aborted, produced, chunks, participating,
                     replayer, replaying>>
  BY <1>1 DEF Answer, Send, requestVars, dataVars, simulatorVars, producerVars, replayerVars
<1>5. ReservedInv' /\ Open' \subseteq Open
  BY <1>4, SameTasks
<1>6. KeysIn(results', "GpuWorkResult") = KeysIn(results, "GpuWorkResult") \cup {m.key}
  BY <1>2, <1>3, <1>4, SendKeys
<1>7. GpuKeys' \cup KeysIn(results', "GpuWorkResult") \subseteq GpuKeys \cup KeysIn(results, "GpuWorkResult")
  BY <1>3, <1>4, <1>6 DEF GpuKeys
<1>8. ASSUME NEW i \in DOMAIN results', results'[i].type = "TracingData"
      PROVE  (Covers(results[i].key, results[i].snapshots))'
  <2>1. PICK d : d = results'[i]
    OBVIOUS
  <2>2. i \in DOMAIN results /\ d = results[i]
    BY <1>2, <1>3, <1>4, <1>8, <2>1, Grown
  <2>3. Covers(d.key, d.snapshots)
    BY <1>8, <2>1, <2>2 DEF CoverInv
  <2>4. Covers(d.key, d.snapshots)'
    BY <1>5, <2>3, CoversStays
  <2> QED BY <2>1, <2>4 DEF Covers
<1>9. UnpairedKeys' = UnpairedKeys
  BY <1>4 DEF UnpairedKeys
<1>10. \A d \in uninitialized' : Covers(d.key, d.snapshots)'
  BY <1>4, <1>5, CoversStays DEF CoverInv
<1>11. \A k \in UnpairedKeys' : Covers(k, {})'
  BY <1>5, <1>9, CoversStays DEF CoverInv
<1>12. \A k \in (GpuKeys' \cup KeysIn(results', "GpuWorkResult")) \ requests_served_from_cache' :
         Covers(k, {})'
  BY <1>4, <1>5, <1>7, CoversStays DEF CoverInv
<1> QED BY <1>5, <1>8, <1>10, <1>11, <1>12 DEF CoverInv

\* Nothing is sent at the start of a call but what the cache held.
LEMMA BeginKeepsCover ==
  ASSUME StateInv, ControlInv, ReservedInv, main \in {"start", "committed"},
         NEW drained, NEW all_sent \in BOOLEAN, Begin(drained, all_sent)
  PROVE  ReservedInv' /\ CoverInv'
<1>1. /\ results' = <<>> /\ uninitialized' = {} /\ unpaired_tracing' = NoData
      /\ gpu' = ToSet(drained)
      /\ requests_served_from_cache' = {request.key : request \in ToSet(drained)}
  BY DEF ControlInv, Begin
<1>2. UnpairedKeys' = {} /\ DOMAIN results' = {} /\ KeysIn(results', "GpuWorkResult") = {}
  BY <1>1, NoDataTable, NothingOnTheWay DEF UnpairedKeys
<1>3. GpuKeys' \ requests_served_from_cache' = {}
  BY <1>1 DEF GpuKeys
<1>4. CoverInv'
  BY <1>1, <1>2, <1>3 DEF CoverInv
<1>5. ReservedInv'
  <2>1. CASE all_sent
    <3>1. UNCHANGED <<snapshots, simulator, snapshot_index, is_aborted, produced, chunks,
                      participating, replayer, replaying>>
      BY <2>1 DEF Begin, simulatorVars, producerVars, replayerVars
    <3> QED BY <3>1, SameTasks
  <2>2. CASE ~all_sent
    <3>1. simulator' = "run" /\ chunks' = NoRows
      BY <2>2 DEF Begin, Spawn
    <3>2. \A t \in Families : chunks'[t] = 0
      BY <3>1 DEF NoRows, Families
    <3> QED BY <3>1, <3>2 DEF ReservedInv
  <2> QED BY <2>1, <2>2
<1> QED BY <1>4, <1>5

\* What a handler of the loop has to ensure: it keeps data that was sent to it, and
\* lets go of data only when its rows are written.
LEMMA HandlerKeepsCover ==
  ASSUME DataType, ReservedInv, CoverInv, results # <<>>, NEW requests, NEW released, NEW simulated,
         Conclude(requests, released, simulated),
         \A data \in uninitialized' :
           data \notin uninitialized =>
             Head(results).type = "TracingData" /\ data = Head(results),
         \A k \in UnpairedKeys' : Covers(k, {}),
         \A request \in requests : Covers(request.key, {})
  PROVE  ReservedInv' /\ CoverInv'
<1>1. /\ results' = Tail(results) /\ gpu' = gpu \cup (requests \ Served(requests))
      /\ UNCHANGED requests_served_from_cache /\ UNCHANGED tasksVars
  BY ConcludeLeavesTasks DEF Conclude
<1>2. UNCHANGED <<snapshots, simulator, snapshot_index, is_aborted, produced, chunks,
                  participating, replayer, replaying>>
  BY <1>1 DEF tasksVars, simulatorVars, producerVars, replayerVars
<1>3. ReservedInv' /\ Open' \subseteq Open
  BY <1>2, SameTasks
<1>4. /\ results \in Seq(Messages) /\ Head(results) = results[1] /\ 1 \in DOMAIN results
      /\ \A i \in DOMAIN results' : i + 1 \in DOMAIN results /\ results'[i] = results[i + 1]
  BY <1>1, Shrunk DEF DataType
<1>5. ASSUME NEW i \in DOMAIN results', results'[i].type = "TracingData"
      PROVE  (Covers(results[i].key, results[i].snapshots))'
  <2>1. PICK d : d = results'[i]
    OBVIOUS
  <2>2. i + 1 \in DOMAIN results /\ d = results[i + 1]
    BY <1>4, <1>5, <2>1
  <2>3. Covers(d.key, d.snapshots)
    BY <1>5, <2>1, <2>2 DEF CoverInv
  <2>4. Covers(d.key, d.snapshots)'
    BY <1>3, <2>3, CoversStays
  <2> QED BY <2>1, <2>4 DEF Covers
<1>6. ASSUME NEW d \in uninitialized'
      PROVE  Covers(d.key, d.snapshots)'
  <2>1. Covers(d.key, d.snapshots)
    BY <1>4, <1>6 DEF CoverInv
  <2> QED BY <1>3, <2>1, CoversStays
<1>7. \A k \in UnpairedKeys' : Covers(k, {})'
  BY <1>3, CoversStays
<1>8. ASSUME NEW k \in (GpuKeys' \cup KeysIn(results', "GpuWorkResult")) \ requests_served_from_cache'
      PROVE  Covers(k, {})'
  <2>1. KeysIn(results', "GpuWorkResult") \subseteq KeysIn(results, "GpuWorkResult")
    BY <1>4 DEF KeysIn
  <2>2. GpuKeys' \subseteq GpuKeys \cup {request.key : request \in requests}
    BY <1>1 DEF GpuKeys
  <2>3. Covers(k, {})
    BY <1>1, <1>8, <2>1, <2>2 DEF CoverInv
  <2> QED BY <1>3, <2>3, CoversStays
<1> QED BY <1>3, <1>5, <1>6, <1>7, <1>8 DEF CoverInv

\* The rows of replayed snapshots are written.
LEMMA ReplayedIsClosed ==
  ASSUME StateInv, SnapshotInv
  PROVE  Replayed \cap Open = {}
<1>1. Live \cap Replayed = {} /\ Replayed \subseteq 0..snapshot_index /\ snapshot_index \in Nat
  BY DEF SnapshotInv, StateInv
<1>2. Replayed \cap Ahead = {}
  BY <1>1, RunShape DEF Ahead
<1> QED BY <1>1, <1>2 DEF Open

\* Data found written no longer covers an open snapshot.
LEMMA WrittenIsClosed ==
  ASSUME StateInv, SnapshotInv, NEW data, Covers(data.key, data.snapshots),
         NEW replayed, replayed \subseteq Replayed, Written(data, replayed)
  PROVE  Covers(data.key, {})
<1>1. data.snapshots \cap Open = {}
  BY ReplayedIsClosed DEF Written
<1> QED BY <1>1 DEF Covers

\* Offer sends and keeps data whose rows are written.
LEMMA OfferKeepsCover ==
  ASSUME DataType, ReservedInv, CoverInv, results # <<>>, NEW written, Offer(written),
         written \subseteq TracingMessages, \A data \in written : Covers(data.key, {}),
         \A data \in uninitialized' :
           data \notin uninitialized =>
             Head(results).type = "TracingData" /\ data = Head(results)
  PROVE  ReservedInv' /\ CoverInv'
<1>1. /\ unpaired_tracing' = Joined(written, unpaired_inits, unpaired_tracing)
      /\ Conclude(PlainRequests(written) \cup PairedRequests(written, unpaired_inits), 0,
                  simulation_result)
  BY OfferParts
<1>2. PICK requests : requests = PlainRequests(written) \cup PairedRequests(written, unpaired_inits)
  OBVIOUS
<1>3. Conclude(requests, 0, simulation_result)
  BY <1>1, <1>2
<1>4. ASSUME NEW request \in requests
      PROVE  Covers(request.key, {})
  <2>1. PICK d \in written : request.key = d.key
    BY <1>2, <1>4 DEF PlainRequests, PairedRequests, Plain, Paired, Request
  <2> QED BY <2>1
<1>5. ASSUME NEW k \in UnpairedKeys'
      PROVE  Covers(k, {})
  <2>1. PICK q \in DOMAIN unpaired_tracing' : k = <<"Unified", q>>
    BY <1>5 DEF UnpairedKeys
  <2>2. CASE q \in DOMAIN unpaired_tracing
    BY <2>1, <2>2 DEF CoverInv, UnpairedKeys
  <2>3. CASE q \notin DOMAIN unpaired_tracing
    <3>1. PICK d \in Waiting(written, unpaired_inits) : q = d.key[2]
      BY <1>1, <2>1, <2>3 DEF Joined
    <3>2. d \in written /\ d.key[1] = "Unified" /\ d.key \in Families \X Nat
      BY <3>1 DEF Waiting, TracingMessages
    <3>3. d.key = k
      BY <2>1, <3>1, <3>2
    <3> QED BY <3>2, <3>3
  <2> QED BY <2>2, <2>3
<1> QED BY <1>3, <1>4, <1>5, HandlerKeepsCover

\* Every handler of the loop does.
LEMMA LoopKeepsCover ==
  ASSUME Inv, DataInv, ReservedInv, CoverInv, Loop
  PROVE  ReservedInv' /\ CoverInv'
<1>1. DataType /\ StateInv /\ SnapshotInv /\ KeyInv
  BY DEF Inv, DataInv
<1>2. \A k \in UnpairedKeys : Covers(k, {})
  BY DEF CoverInv
<1>3. ASSUME NEW released, NEW simulated, Conclude({}, released, simulated), results # <<>>,
             UNCHANGED <<uninitialized, unpaired_tracing>>
      PROVE  ReservedInv' /\ CoverInv'
  <2>1. \A k \in UnpairedKeys' : Covers(k, {})
    BY <1>2, <1>3 DEF UnpairedKeys
  <2> QED BY <1>1, <1>3, <2>1, HandlerKeepsCover
<1>4. CASE HandleSnapshotProduced
  <2>1. results # <<>> /\ UNCHANGED <<uninitialized, unpaired_tracing>>
    BY <1>4 DEF HandleSnapshotProduced, Message
  <2>2. \E released : Conclude({}, released, simulation_result)
    BY <1>4 DEF HandleSnapshotProduced, Trim
  <2> QED BY <1>3, <2>1, <2>2
<1>5. CASE HandleSimulationResult
  <2>1. results # <<>> /\ UNCHANGED <<uninitialized, unpaired_tracing>> /\ Conclude({}, 0, TRUE)
    BY <1>5 DEF HandleSimulationResult, Message
  <2> QED BY <1>3, <2>1
<1>6. CASE HandleGpuWorkResult
  <2>1. results # <<>> /\ UNCHANGED <<uninitialized, unpaired_tracing>>
    BY <1>6 DEF HandleGpuWorkResult, Message
  <2>2. \E released : Conclude({}, released, simulation_result)
    BY <1>6 DEF HandleGpuWorkResult, Trim
  <2> QED BY <1>3, <2>1, <2>2
<1>7. CASE HandleInits
  <2>1. PICK data, requests : data = Head(results) /\ requests = {Request(data.key, data.chunks)}
    OBVIOUS
  <2>2. /\ results # <<>> /\ data \in Messages /\ data.type = "InitsAndTeardownsData" /\ ~Unified
        /\ UNCHANGED <<uninitialized, unpaired_tracing>>
        /\ Conclude(requests, 0, simulation_result)
    BY <1>1, <1>7, <2>1, Shrunk DEF HandleInits, Message, DataType
  <2>3. data.key \notin Families \X Nat
    <3>1. data \in InitsMessages
      BY <2>2, MessageKinds
    <3> QED BY <2>2, <3>1, InitsCircuitKind DEF InitsMessages
  <2>4. \A request \in requests : Covers(request.key, {})
    BY <2>1, <2>3 DEF Request, Covers
  <2>5. \A k \in UnpairedKeys' : Covers(k, {})
    BY <1>2, <2>2 DEF UnpairedKeys
  <2> QED BY <1>1, <2>2, <2>4, <2>5, HandlerKeepsCover
<1>8. CASE HandleUnifiedInits
  <2>1. PICK data, q : data = Head(results) /\ q = data.key[2]
    OBVIOUS
  <2>2. /\ results # <<>> /\ data \in Messages /\ data.type = "InitsAndTeardownsData" /\ Unified
        /\ UNCHANGED uninitialized
    BY <1>1, <1>8, <2>1, Shrunk DEF HandleUnifiedInits, Message, DataType
  <2>3. PICK awaited : awaited <=> (~proving \/ ~caching \/ q >= trivial)
    OBVIOUS
  <2>4. PICK requests :
          /\ requests \subseteq {Request(data.key, data.chunks + unpaired_tracing[q])}
          /\ requests # {} => q \in DOMAIN unpaired_tracing
          /\ Conclude(requests, 0, simulation_result)
    BY <1>8, <2>1 DEF HandleUnifiedInits
  <2>5. data.key = <<"Unified", q>>
    <3>1. data \in InitsMessages
      BY <2>2, MessageKinds
    <3> QED BY <2>1, <2>2, <3>1, InitsCircuitKind DEF InitsMessages
  <2>6. \A request \in requests : Covers(request.key, {})
    BY <1>2, <2>4, <2>5 DEF UnpairedKeys, Request
  <2>7. DOMAIN unpaired_tracing' \subseteq DOMAIN unpaired_tracing
    BY <1>8 DEF HandleUnifiedInits, Without
  <2>8. \A k \in UnpairedKeys' : Covers(k, {})
    BY <1>2, <2>7 DEF UnpairedKeys
  <2> QED BY <1>1, <2>2, <2>4, <2>6, <2>8, HandlerKeepsCover
<1>9. CASE HandleTracingData
  <2>1. PICK data : data = Head(results)
    OBVIOUS
  <2>2. /\ results # <<>> /\ data \in Messages /\ data.type = "TracingData" /\ data = results[1]
        /\ 1 \in DOMAIN results
    BY <1>1, <1>9, <2>1, Shrunk DEF HandleTracingData, Message, DataType
  <2>3. data \in TracingMessages /\ Covers(data.key, data.snapshots)
    BY <2>2, MessageKinds DEF CoverInv
  <2>4. CASE Written(data, processed)
    <3>1. UNCHANGED uninitialized /\ Offer({data})
      BY <1>9, <2>1, <2>4 DEF HandleTracingData
    <3>2. processed \subseteq Replayed
      BY DEF Replayed
    <3>3. Covers(data.key, {})
      BY <1>1, <2>3, <2>4, <3>2, WrittenIsClosed
    <3>4. PICK written : written = {data}
      OBVIOUS
    <3> QED BY <1>1, <2>2, <2>3, <3>1, <3>3, <3>4, OfferKeepsCover
  <2>5. CASE ~Written(data, processed)
    <3>1. uninitialized' = uninitialized \cup {data} /\ Offer({})
      BY <1>9, <2>1, <2>5 DEF HandleTracingData
    <3>2. PICK written : written = {}
      OBVIOUS
    <3> QED BY <1>1, <2>1, <2>2, <3>1, <3>2, OfferKeepsCover
  <2> QED BY <2>4, <2>5
<1>10. CASE HandleSnapshotReplayed
  <2>1. PICK index, replayed : index = Head(results).index /\ replayed = processed \cup {index}
    OBVIOUS
  <2>2. PICK written : written = {data \in uninitialized :
                                    index \in data.snapshots /\ Written(data, replayed)}
    OBVIOUS
  <2>3. /\ results # <<>> /\ Head(results).type = "SnapshotReplayed"
        /\ uninitialized' = uninitialized \ written /\ Offer(written)
    BY <1>10, <2>1, <2>2 DEF HandleSnapshotReplayed, Message
  <2>4. results' = Tail(results)
    BY <2>3 DEF Offer, Conclude
  <2>5. index \in Reported
    BY <1>1, <2>1, <2>3, <2>4, ReceiveReports
  <2>6. replayed \subseteq Replayed
    BY <2>1, <2>5 DEF Replayed
  <2>7. written \subseteq TracingMessages /\ \A data \in written : Covers(data.key, data.snapshots)
    BY <1>1, <2>2 DEF DataType, CoverInv
  <2>8. \A data \in written : Covers(data.key, {})
    BY <1>1, <2>2, <2>6, <2>7, WrittenIsClosed
  <2> QED BY <1>1, <2>3, <2>7, <2>8, OfferKeepsCover
<1>11. CASE Return
  <2>1. /\ uninitialized' = {} /\ unpaired_tracing' = NoData
        /\ UNCHANGED <<gpu, requests_served_from_cache, results, snapshots, simulator,
                       snapshot_index, is_aborted, produced, chunks, participating, replayer,
                       replaying>>
    BY <1>11 DEF Return, requestVars, simulatorVars, producerVars, replayerVars
  <2>2. ReservedInv' /\ Open' \subseteq Open
    BY <2>1, SameTasks
  <2>3. UnpairedKeys' = {} /\ GpuKeys' = GpuKeys
    BY <2>1, NoDataTable DEF UnpairedKeys, GpuKeys
  <2> QED BY <2>1, <2>2, <2>3, CoversStays DEF CoverInv
<1> QED BY <1>4, <1>5, <1>6, <1>7, <1>8, <1>9, <1>10, <1>11 DEF Loop

\* Before the first call nothing is reserved and nothing sent.
LEMMA InitIsWritten == Init => ReservedInv /\ CoverInv
<1> SUFFICES ASSUME Init PROVE ReservedInv /\ CoverInv
  OBVIOUS
<1>1. /\ results = <<>> /\ uninitialized = {} /\ unpaired_tracing = NoData /\ gpu = {}
      /\ simulator = "done"
  BY DEF Init, CpuInit
<1>2. /\ DOMAIN results = {} /\ KeysIn(results, "GpuWorkResult") = {} /\ UnpairedKeys = {}
      /\ GpuKeys = {}
  BY <1>1, NoDataTable, NothingOnTheWay DEF UnpairedKeys, GpuKeys
<1>3. CoverInv
  BY <1>1, <1>2 DEF CoverInv
<1>4. ReservedInv
  BY <1>1 DEF ReservedInv, Producing
<1> QED BY <1>3, <1>4

\* Every step keeps ReservedInv and CoverInv.
LEMMA NextKeepsCover ==
  ASSUME Inv, DataInv, ReservedInv, CoverInv, [Next]_vars
  PROVE  ReservedInv' /\ CoverInv'
<1>1. /\ StateInv /\ ControlInv /\ SnapshotInv /\ DataType /\ ProducerInv
      /\ free_allocators \in Nat
  BY DEF Inv, DataInv, DataType
<1>2. CASE Start
  <2>1. PICK all_sent \in BOOLEAN : all_sent = FALSE
    OBVIOUS
  <2>2. main = "start" /\ Begin(<<>>, all_sent)
    BY <1>2, <2>1 DEF Start
  <2> QED BY <1>1, <2>2, BeginKeepsCover
<1>3. CASE Prove
  <2>1. PICK all_sent \in BOOLEAN : all_sent = AllSent(Len(entries))
    BY DEF AllSent
  <2>2. main = "committed" /\ Begin(entries, all_sent)
    BY <1>3, <2>1 DEF Prove
  <2> QED BY <1>1, <2>2, BeginKeepsCover
<1>4. CASE SourceShared \/ UNCHANGED vars
  <2>1. /\ UNCHANGED <<results, uninitialized, unpaired_tracing, gpu, requests_served_from_cache>>
        /\ UNCHANGED <<snapshots, simulator, snapshot_index, is_aborted, produced, chunks,
                       participating, replayer, replaying>>
    BY <1>4 DEF SourceShared, vars, requestVars, dataVars, cpuVars, simulatorVars, producerVars,
       replayerVars
  <2>2. ReservedInv' /\ Open' \subseteq Open
    BY <2>1, SameTasks
  <2>3. UnpairedKeys' = UnpairedKeys /\ GpuKeys' = GpuKeys
    BY <2>1 DEF UnpairedKeys, GpuKeys
  <2> QED BY <2>1, <2>2, <2>3, CoversStays DEF CoverInv
<1>5. CASE Loop
  BY <1>5, LoopKeepsCover
<1>6. CASE Simulator /\ UNCHANGED clientVars
  BY <1>1, <1>6, SimulatorKeepsReserved, SimulatorKeepsCover
<1>7. ASSUME NEW r \in Replayers, Replayer(r), UNCHANGED clientVars
      PROVE  ReservedInv' /\ CoverInv'
  BY <1>1, <1>7, ReplayerKeepsCover
<1>8. ASSUME NEW request \in gpu, Answer(request)
      PROVE  ReservedInv' /\ CoverInv'
  BY <1>1, <1>8, AnswerKeepsCover
<1> QED BY <1>2, <1>3, <1>4, <1>5, <1>6, <1>7, <1>8 DEF Next, GetResult, CpuWorkers, Finished

\* What covers no open snapshot is written.
LEMMA CoveredIsWritten == CoverInv => SentTracesAreWritten
<1> SUFFICES ASSUME CoverInv,
                    NEW key \in ({request.key : request \in gpu} \cup Replies) \ requests_served_from_cache,
                    key \in TracingKeys
             PROVE  Participants(key[1], key[2]) \cap Live = {}
  BY DEF SentTracesAreWritten
<1>1. key \in Families \X Nat
  BY DEF TracingKeys, Families
<1>2. Covers(key, {})
  BY DEF CoverInv, GpuKeys, Replies, KeysIn
<1> QED BY <1>1, <1>2 DEF Covers, Open

\* What was sent to the GPU is written: no snapshot with rows of a requested circuit
\* is being simulated, queued or replayed, for any run, any number of replayers
\* and any order of replays, reports and aborts.
THEOREM SentTracesStayWritten == Spec => []SentTracesAreWritten
<1>1. Init => Inv /\ TraceChunksConserved /\ DataInv /\ AllocatorsConserved /\ ReservedInv /\ CoverInv
  BY InitHolds, InitHasData, InitIsWritten
<1>2. /\ Inv /\ TraceChunksConserved /\ DataInv /\ AllocatorsConserved /\ ReservedInv /\ CoverInv
      /\ [Next]_vars
      => (Inv /\ TraceChunksConserved /\ DataInv /\ AllocatorsConserved /\ ReservedInv /\ CoverInv)'
  BY NextKeeps, NextKeepsData, NextKeepsCover
<1> QED BY <1>1, <1>2, CoveredIsWritten, PTL DEF Spec

-----------------------------------------------------------------------------
(* A call is complete when it returns. *)

\* Requests the GPU side has not answered to the loop.
Pending == GpuKeys \cup KeysIn(results, "GpuWorkResult")

\* The counters count circuits, and the cache speaks of the circuits of the run.
CountInv ==
  /\ main # "panicked"
  /\ sent_requests_count = Cardinality(Downstream)
  /\ pending_requests_count = Cardinality(Pending)
  /\ requests_served_from_cache \subseteq Downstream /\ Downstream \subseteq AllKeys
  /\ \A t \in Families : produced[t] <= Rows(t, Len(Run))
  /\ main = "loop" /\ abort => abort_signaled
  /\ abort_signaled => simulation_result /\ Downstream = AllKeys /\ caching /\ proving
  /\ requests_served_from_cache # {} => caching /\ proving
  /\ total_requests_count \in {0, Cardinality(AllKeys)}
  /\ main = "committed" \/ (caching /\ proving) =>
       total_requests_count = Cardinality(AllKeys) /\ cached_trivial = EmptyCircuits
  /\ caching /\ proving => trivial = EmptyCircuits
  /\ proving => entries = <<>>
  /\ main \in {"committed", "done"} => completed = AllKeys

\* Before an abort the simulator leaves nothing out, and what it has sent is on
\* its way or has reached the GPU side.
CompleteInv ==
  main = "loop" /\ ~abort_signaled =>
    /\ ~Producing => \A t \in Families : produced[t] = Rows(t, Len(Run))
    /\ SimulatorOver => inits_index = EmptyCircuits + Partitions
    /\ \A k \in Keys : Issued(k) => k \in Upstream \cup Downstream
    /\ \A q \in Nat :
         Unified /\ q < inits_index /\ q < EmptyCircuits =>
           q < trivial \/ <<InitsCircuit, q>> \in KeysIn(results, "InitsAndTeardownsData")

-----------------------------------------------------------------------------
(* The circuits of a run. *)

\* A number of blocks covers what is in their blocks.
LEMMA CeilDivBound ==
  ASSUME NEW a \in Nat, NEW b \in Nat \ {0}, NEW q \in Nat
  PROVE  q * b < a <=> q < CeilDiv(a, b)
<1>6. PICK s \in Nat : s = a + b - 1
  OBVIOUS
<1>7. PICK e \in Nat : e = s \div b
  BY Division
<1>8. e = CeilDiv(a, b)
  BY <1>6, <1>7 DEF CeilDiv
<1>1. s = a + b - 1 /\ e = CeilDiv(a, b) /\ e = s \div b
  BY <1>6, <1>7, <1>8
<1>2. e * b <= s /\ s < (e + 1) * b /\ e * b \in Nat /\ (e + 1) * b = e * b + b
  BY <1>1, Division
<1>3. PICK x \in Nat, y \in Nat : x = q * b /\ y = e * b
  BY <1>2, Multiples
<1>4. CASE q < e
  <2>1. (q + 1) * b <= e * b /\ (q + 1) * b = q * b + b
    BY <1>4, Multiples
  <2>2. x + b <= y /\ y <= a + b - 1
    BY <1>1, <1>2, <1>3, <2>1
  <2>3. x < a
    BY <2>2
  <2> QED BY <1>1, <1>3, <1>4, <2>3
<1>5. CASE ~ (q < e)
  <2>1. ~ (q * b < e * b)
    BY <1>5, Multiples
  <2>2. ~ (x < y) /\ a + b - 1 < y + b
    BY <1>1, <1>2, <1>3, <2>1
  <2>3. ~ (x < a)
    BY <2>2
  <2> QED BY <1>1, <1>3, <1>5, <2>3
<1> QED BY <1>4, <1>5

\* The circuits of a type are those that start before its last row.
LEMMA TracingCircuit ==
  ASSUME NEW t \in Families, NEW q \in Nat
  PROVE  <<t, q>> \in TracingKeys <=> q * CyclesPerCircuit[t] < Rows(t, Len(Run))
<1>1. PICK n \in Nat, c \in Nat \ {0} : n = Rows(t, Len(Run)) /\ c = CyclesPerCircuit[t]
  BY RunShape, RowsType
<1>2. PICK e \in Nat : e = CeilDiv(n, c)
  BY CeilDivType
<1>3. q * c < n <=> q < e
  BY <1>2, CeilDivBound
<1>4. <<t, q>> \in TracingKeys
        <=> q \in 0..(CeilDiv(Rows(t, Len(Run)), CyclesPerCircuit[t]) - 1)
  BY DEF TracingKeys, Families
<1>5. q \in 0..(e - 1) <=> q < e
  OBVIOUS
<1> QED BY <1>1, <1>2, <1>3, <1>4, <1>5

\* A type has a number of circuits.
LEMMA CircuitsType ==
  ASSUME NEW t \in Families
  PROVE  CeilDiv(Rows(t, Len(Run)), CyclesPerCircuit[t]) \in Nat
<1>1. PICK n \in Nat, c \in Nat \ {0} : n = Rows(t, Len(Run)) /\ c = CyclesPerCircuit[t]
  BY RunShape, RowsType
<1> QED BY <1>1, CeilDivType

\* A circuit with rows is a type and a number.
LEMMA TracingKeysType == TracingKeys \subseteq Families \X Nat
<1>1. ASSUME NEW t \in Families
      PROVE  {<<t, q>> : q \in 0..(CeilDiv(Rows(t, Len(Run)), CyclesPerCircuit[t]) - 1)}
               \subseteq Families \X Nat
  <2>1. CeilDiv(Rows(t, Len(Run)), CyclesPerCircuit[t]) \in Nat
    BY CircuitsType
  <2> QED BY <2>1
<1> QED BY <1>1 DEF TracingKeys, Families

\* The circuits of a run are a type and a number.
LEMMA AllKeysType == AllKeys \subseteq Keys
<1>1. InitsKeys \subseteq {InitsCircuit} \X Nat
  BY EmptyType DEF InitsKeys
<1> QED BY <1>1, TracingKeysType DEF AllKeys, Keys

\* There are finitely many.
LEMMA AllKeysFinite == IsFiniteSet(AllKeys) /\ Cardinality(AllKeys) \in Nat
<1>1. ASSUME NEW c, NEW n \in Nat
      PROVE  IsFiniteSet({<<c, q>> : q \in 0..(n - 1)})
  <2>1. PICK S : S = 0..(n - 1)
    OBVIOUS
  <2>2. IsFiniteSet(S)
    BY <2>1, FS_Interval
  <2>3. PICK f : f = [q \in S |-> <<c, q>>]
    OBVIOUS
  <2>4. IsFiniteSet({f[q] : q \in S})
    BY <2>2, <2>3, FiniteImage
  <2>5. {f[q] : q \in S} = {<<c, q>> : q \in 0..(n - 1)}
    BY <2>1, <2>3
  <2> QED BY <2>4, <2>5
<1>2. PICK g : g = [t \in Families |->
                      {<<t, q>> : q \in 0..(CeilDiv(Rows(t, Len(Run)), CyclesPerCircuit[t]) - 1)}]
  OBVIOUS
<1>3. PICK U : U = {g[t] : t \in Families}
  OBVIOUS
<1>4. IsFiniteSet(U)
  <2>1. PICK F : F = Families
    OBVIOUS
  <2>2. DOMAIN g = F /\ g = [t \in F |-> g[t]]
    BY <1>2, <2>1
  <2>3. IsFiniteSet({g[t] : t \in F})
    BY <2>1, <2>2, FamiliesFinite, FiniteImage
  <2> QED BY <1>3, <2>1, <2>3
<1>5. ASSUME NEW T \in U PROVE IsFiniteSet(T)
  <2>1. PICK t \in Families : T = g[t]
    BY <1>3
  <2>2. PICK n \in Nat : n = CeilDiv(Rows(t, Len(Run)), CyclesPerCircuit[t])
    BY CircuitsType
  <2>3. T = {<<t, q>> : q \in 0..(n - 1)}
    BY <1>2, <2>1, <2>2
  <2> QED BY <1>1, <2>3
<1>6. IsFiniteSet(UNION U)
  BY <1>4, <1>5, FS_UNION
<1>7. TracingKeys = UNION U
  BY <1>2, <1>3 DEF TracingKeys, Families
<1>8. IsFiniteSet(InitsKeys)
  <2>1. CASE Unified
    BY <2>1, FS_EmptySet DEF InitsKeys
  <2>2. CASE ~Unified
    BY <1>1, <2>2, EmptyType DEF InitsKeys
  <2> QED BY <2>1, <2>2
<1>9. IsFiniteSet(AllKeys)
  BY <1>6, <1>7, <1>8, FS_Union DEF AllKeys
<1> QED BY <1>9, FS_CardinalityType

\* The unrolled machine has no empty circuits.
LEMMA NoEmptyCircuits == ~Unified => EmptyCircuits = 0
  BY DEF EmptyCircuits

\* What the simulator sends are circuits of the run ...
LEMMA IssuedIsCircuit ==
  ASSUME ProducerInv, \A t \in Families : produced[t] <= Rows(t, Len(Run)), NEW k, Issued(k)
  PROVE  k \in AllKeys
<1>1. CASE k \in Families \X Nat /\ k[2] * CyclesPerCircuit[k[1]] < produced[k[1]]
  <2>1. PICK t \in Families, q \in Nat : k = <<t, q>>
    BY <1>1
  <2>6. PICK c \in Nat \ {0} : c = CyclesPerCircuit[t]
    BY RunShape
  <2>7. PICK n \in Nat : n = Rows(t, Len(Run))
    BY RunShape, RowsType
  <2>8. PICK p \in Nat : p = produced[t]
    BY DEF ProducerInv
  <2>5. c = CyclesPerCircuit[t] /\ p = produced[t] /\ n = Rows(t, Len(Run))
    BY <2>6, <2>7, <2>8
  <2>2. PICK x \in Nat : x = q * c
    BY Multiples
  <2>3. x < p /\ p <= n
    BY <1>1, <2>1, <2>2, <2>5
  <2>4. x < n
    BY <2>3
  <2> QED BY <2>1, <2>2, <2>4, <2>5, TracingCircuit DEF AllKeys
<1>2. CASE ~Unified /\ k \in {InitsCircuit} \X Nat /\ k[2] < inits_index
  <2>1. PICK q \in Nat : k = <<InitsCircuit, q>>
    BY <1>2
  <2>2. q < Partitions
    <3>1. PICK i \in Nat, n \in Nat : i = inits_index /\ n = Partitions
      BY EmptyType DEF ProducerInv
    <3>2. i <= 0 + n
      BY <1>2, <3>1, NoEmptyCircuits DEF ProducerInv
    <3> QED BY <1>2, <2>1, <3>1, <3>2
  <2>3. q \in 0..(Partitions - 1)
    BY <2>2, EmptyType
  <2> QED BY <1>2, <2>1, <2>3 DEF InitsKeys, AllKeys
<1> QED BY <1>1, <1>2 DEF Issued

\* ... and all of them, when it has come to its end.
LEMMA CircuitIsIssued ==
  ASSUME ProducerInv, \A t \in Families : produced[t] = Rows(t, Len(Run)),
         \A t \in Families : chunks[t] = 0,
         inits_index = EmptyCircuits + Partitions, NEW k \in AllKeys
  PROVE  Issued(k)
<1>1. CASE k \in TracingKeys
  <2>1. PICK t \in Families, q \in Nat : k = <<t, q>>
    BY <1>1, TracingKeysType
  <2>2. q * CyclesPerCircuit[t] < produced[t]
    BY <1>1, <2>1, TracingCircuit
  <2> QED BY <2>1, <2>2 DEF Issued
<1>2. CASE k \in InitsKeys
  <2>1. ~Unified
    BY <1>2 DEF InitsKeys
  <2>2. PICK q \in 0..(Partitions - 1) : k = <<InitsCircuit, q>>
    BY <1>2, <2>1 DEF InitsKeys
  <2>3. q \in Nat /\ q < 0 + Partitions
    BY <2>2, EmptyType
  <2>4. q < inits_index
    BY <2>1, <2>3, NoEmptyCircuits
  <2> QED BY <2>1, <2>2, <2>3, <2>4 DEF Issued
<1> QED BY <1>1, <1>2 DEF AllKeys

-----------------------------------------------------------------------------
(* Counting. *)

\* Requests for different circuits are as many as their circuits.
LEMMA KeysCount ==
  ASSUME NEW T, IsFiniteSet(T), KeyedOnce(T), NEW K, K = {d.key : d \in T}
  PROVE  IsFiniteSet(K) /\ Cardinality(K) = Cardinality(T)
<1>1. PICK f : f = [d \in T |-> d.key]
  OBVIOUS
<1>2. f \in Bijection(T, K)
  <2>1. f \in [T -> K]
    BY <1>1
  <2>2. \A d, e \in T : f[d] = f[e] => d = e
    BY <1>1 DEF KeyedOnce
  <2>3. \A k \in K : \E d \in T : f[d] = k
    BY <1>1
  <2>4. f \in Injection(T, K)
    BY <2>1, <2>2 DEF Injection, IsInjective
  <2>5. f \in Surjection(T, K)
    BY <2>1, <2>3 DEF Surjection
  <2> QED BY <2>4, <2>5 DEF Bijection
<1> QED BY <1>2, FS_Bijection, FS_Surjection DEF Bijection

\* Two sets without a common element.
LEMMA DisjointCount ==
  ASSUME NEW S, IsFiniteSet(S), NEW T, IsFiniteSet(T), S \cap T = {}
  PROVE  IsFiniteSet(S \cup T) /\ Cardinality(S \cup T) = Cardinality(S) + Cardinality(T)
<1>1. PICK a \in Nat, b \in Nat : a = Cardinality(S) /\ b = Cardinality(T)
  BY FS_CardinalityType
<1>2. Cardinality(S \cap T) = 0
  BY FS_EmptySet
<1>3. Cardinality(S \cup T) = a + b - 0
  BY <1>1, <1>2, FS_Union
<1>4. a + b - 0 = a + b
  OBVIOUS
<1> QED BY <1>1, <1>3, <1>4, FS_Union

\* What a handler does with the circuits on the way: it passes some of them on to
\* the GPU side and loses none.
Passed(requests) ==
  /\ requests \subseteq Requests /\ IsFiniteSet(requests) /\ KeyedOnce(requests)
  /\ {request.key : request \in requests} \subseteq Upstream
  /\ Upstream \subseteq Upstream' \cup {request.key : request \in requests}

\* What it does with an answer.
Answered ==
  IF Head(results).type = "GpuWorkResult"
  THEN completed' = completed \cup {Head(results).key}
  ELSE completed' = completed

\* The loop has as many answers to wait for as requests.
Counted(fresh) ==
  pending_requests_count' =
    IF Head(results).type = "GpuWorkResult"
    THEN pending_requests_count + Cardinality(fresh) - 1
    ELSE pending_requests_count + Cardinality(fresh)

\* Circuits on the way are circuits of the run.
LEMMA UpstreamOfRun ==
  ASSUME DataInv, CountInv
  PROVE  Upstream \subseteq AllKeys
<1>1. \A k \in Upstream : Issued(k)
  BY DEF DataInv, KeyInv
<1> QED BY <1>1, IssuedIsCircuit DEF DataInv, CountInv

\* The requests are finitely many.
LEMMA PlacesFinite ==
  ASSUME CountInv
  PROVE  /\ IsFiniteSet(Downstream) /\ IsFiniteSet(Pending)
         /\ Cardinality(Downstream) \in Nat /\ Cardinality(Pending) \in Nat
<1>1. Downstream \in SUBSET AllKeys /\ Pending \in SUBSET AllKeys
  BY DEF CountInv, Pending, Downstream
<1>2. IsFiniteSet(Downstream) /\ IsFiniteSet(Pending)
  BY <1>1, AllKeysFinite, FS_Subset
<1> QED BY <1>2, FS_CardinalityType

\* The keys of the answers on the way, after a message is received.
LEMMA AnswersLeft ==
  ASSUME DataInv, results # <<>>, results' = Tail(results)
  PROVE  /\ Head(results).type = "GpuWorkResult" =>
              /\ Head(results).key \in KeysIn(results, "GpuWorkResult")
              /\ KeysIn(results', "GpuWorkResult") = KeysIn(results, "GpuWorkResult") \ {Head(results).key}
         /\ Head(results).type # "GpuWorkResult" =>
              KeysIn(results', "GpuWorkResult") = KeysIn(results, "GpuWorkResult")
  BY ReceiveKeys DEF DataInv, DataType, KeyInv, Keyed

\* The counters after a message.
LEMMA HandlerCounts ==
  ASSUME DataInv, CountInv, results # <<>>, NEW requests, NEW released, NEW simulated,
         Conclude(requests, released, simulated), Passed(requests), Answered,
         NEW fresh, fresh = requests \ Served(requests), Counted(fresh),
         NEW F, F = {request.key : request \in fresh}
  PROVE  /\ Downstream' = Downstream \cup F /\ F \subseteq AllKeys
         /\ Upstream \cup Downstream \subseteq Upstream' \cup Downstream'
         /\ sent_requests_count' = Cardinality(Downstream')
         /\ pending_requests_count' = Cardinality(Pending')
         /\ requests_served_from_cache' \subseteq Downstream' /\ Downstream' \subseteq AllKeys
         /\ Downstream = AllKeys => fresh = {} /\ Downstream' = AllKeys
<1>1. /\ results' = Tail(results) /\ gpu' = gpu \cup fresh
      /\ sent_requests_count' = sent_requests_count + Cardinality(fresh)
      /\ requests_served_from_cache' = requests_served_from_cache
  BY DEF Conclude
<1>2. PICK K : K = {request.key : request \in requests}
  OBVIOUS
<1>3. K \subseteq Upstream /\ Upstream \subseteq Upstream' \cup K
  BY <1>2 DEF Passed
<1>4. fresh \subseteq requests /\ F = K \ requests_served_from_cache
  BY <1>2 DEF Served
<1>5. F \cap Downstream = {} /\ F \subseteq AllKeys
  <2>1. (Upstream \ requests_served_from_cache) \cap Downstream = {}
    BY DEF DataInv, KeyInv
  <2> QED BY <1>3, <1>4, <2>1, UpstreamOfRun
<1>6. IsFiniteSet(F) /\ Cardinality(F) = Cardinality(fresh)
  <2>1. IsFiniteSet(fresh)
    BY <1>4, FS_Subset DEF Passed
  <2>2. KeyedOnce(fresh)
    BY <1>4 DEF Passed, KeyedOnce
  <2> QED BY <2>1, <2>2, KeysCount
<1>7. GpuKeys' = GpuKeys \cup F
  BY <1>1 DEF GpuKeys
<1>8. PICK A, B : A = KeysIn(results, "GpuWorkResult") /\ B = KeysIn(results', "GpuWorkResult")
  OBVIOUS
<1>9. B \cup completed' = A \cup completed
  BY <1>1, <1>8, AnswersLeft DEF Answered
<1>10. Downstream' = Downstream \cup F
  BY <1>7, <1>8, <1>9 DEF Downstream
<1>11. PICK f \in Nat, s \in Nat, p \in Nat :
         f = Cardinality(F) /\ s = Cardinality(Downstream) /\ p = Cardinality(Pending)
  BY <1>6, PlacesFinite, FS_CardinalityType
<1>12. sent_requests_count' = Cardinality(Downstream')
  <2>1. Cardinality(Downstream \cup F) = s + f
    BY <1>5, <1>6, <1>11, PlacesFinite, DisjointCount
  <2> QED BY <1>1, <1>6, <1>10, <1>11, <2>1 DEF CountInv
<1>13. pending_requests_count' = Cardinality(Pending')
  <2>1. Pending \cap F = {}
    BY <1>5 DEF Pending, Downstream
  <2>2. IsFiniteSet(Pending \cup F) /\ Cardinality(Pending \cup F) = p + f
    BY <1>6, <1>11, <2>1, PlacesFinite, DisjointCount
  <2>3. pending_requests_count = p
    BY <1>11 DEF CountInv
  <2>4. CASE Head(results).type = "GpuWorkResult"
    <3>1. PICK k : k = Head(results).key
      OBVIOUS
    <3>2. k \in A /\ B = A \ {k}
      BY <1>1, <1>8, <2>4, <3>1, AnswersLeft
    <3>3. k \notin GpuKeys
      BY <1>8, <3>2 DEF DataInv, KeyInv, Apart
    <3>4. k \in Pending \cup F /\ k \notin F
      BY <1>8, <2>1, <3>2 DEF Pending
    <3>5. Pending' = (Pending \cup F) \ {k}
      BY <1>7, <1>8, <3>2, <3>3, <3>4 DEF Pending
    <3>6. Cardinality((Pending \cup F) \ {k}) = p + f - 1
      <4>1. PICK S : S = Pending \cup F
        OBVIOUS
      <4>2. IsFiniteSet(S) /\ Cardinality(S) = p + f /\ k \in S
        BY <2>2, <3>4, <4>1
      <4>3. Cardinality(S \ {k}) = Cardinality(S) - 1
        BY <4>2, FS_RemoveElement
      <4> QED BY <4>1, <4>2, <4>3
    <3>7. pending_requests_count' = p + f - 1
      BY <1>6, <1>11, <2>3, <2>4 DEF Counted
    <3> QED BY <3>5, <3>6, <3>7
  <2>5. CASE Head(results).type # "GpuWorkResult"
    <3>1. B = A
      BY <1>1, <1>8, <2>5, AnswersLeft
    <3>2. Pending' = Pending \cup F
      BY <1>7, <1>8, <3>1 DEF Pending
    <3>3. pending_requests_count' = p + f
      BY <1>6, <1>11, <2>3, <2>5 DEF Counted
    <3> QED BY <2>2, <3>2, <3>3
  <2> QED BY <2>4, <2>5
<1>14. Downstream \subseteq AllKeys /\ requests_served_from_cache \subseteq Downstream
  BY DEF CountInv
<1>15. Downstream = AllKeys => fresh = {}
  <2>1. Downstream = AllKeys => F = {}
    BY <1>5
  <2> QED BY <2>1
<1>16. Upstream \cup Downstream \subseteq Upstream' \cup Downstream'
  BY <1>3, <1>4, <1>10, <1>14
<1> QED BY <1>1, <1>5, <1>10, <1>12, <1>13, <1>14, <1>15, <1>16

-----------------------------------------------------------------------------
(* What the handlers pass on. *)

\* The keys of the data on the way, after a message is received.
LEMMA DataLeft ==
  ASSUME DataInv, results # <<>>, results' = Tail(results),
         NEW type \in {"TracingData", "InitsAndTeardownsData"}
  PROVE  /\ KeysIn(results', type) \subseteq KeysIn(results, type)
         /\ Head(results).type # type => KeysIn(results', type) = KeysIn(results, type)
         /\ Head(results).type = type =>
              /\ Head(results).key \in KeysIn(results, type)
              /\ KeysIn(results, type) = KeysIn(results', type) \cup {Head(results).key}
<1>1. results \in Seq(Messages) /\ DistinctMessages(results) /\ type \in Keyed
  BY DEF DataInv, DataType, KeyInv, Keyed
<1>2. /\ KeysIn(Tail(results), type) = IF Head(results).type = type
                                       THEN KeysIn(results, type) \ {Head(results).key}
                                       ELSE KeysIn(results, type)
      /\ Head(results).type = type => Head(results).key \in KeysIn(results, type)
  BY <1>1, ReceiveKeys
<1> QED BY <1>2

\* Nothing, when the message is not about data.
LEMMA QuietPasses ==
  ASSUME DataInv, results # <<>>, results' = Tail(results),
         UNCHANGED <<uninitialized, unpaired_tracing>>, Head(results).type # "TracingData",
         Unified \/ Head(results).type # "InitsAndTeardownsData"
  PROVE  Passed({})
<1>1. KeysIn(results', "TracingData") = KeysIn(results, "TracingData")
  BY DataLeft
<1>2. ~Unified => KeysIn(results', "InitsAndTeardownsData") = KeysIn(results, "InitsAndTeardownsData")
  BY DataLeft
<1>3. UninitializedKeys' = UninitializedKeys /\ UnpairedKeys' = UnpairedKeys
  BY DEF UninitializedKeys, UnpairedKeys
<1>4. Upstream' = Upstream
  BY <1>1, <1>2, <1>3 DEF Upstream
<1> QED BY <1>4, NoRequests DEF Passed

\* The inits and teardowns of a circuit are a request of their own.
LEMMA InitsPass ==
  ASSUME DataInv, results # <<>>, results' = Tail(results),
         UNCHANGED <<uninitialized, unpaired_tracing>>, ~Unified,
         Head(results).type = "InitsAndTeardownsData",
         NEW requests, requests = {Request(Head(results).key, Head(results).chunks)}
  PROVE  Passed(requests)
<1>1. PICK d : d = Request(Head(results).key, Head(results).chunks)
  OBVIOUS
<1>2. Head(results) \in InitsMessages
  BY Shrunk, MessageKinds DEF DataInv, DataType
<1>3. d \in Requests /\ d.key = Head(results).key
  BY <1>1, <1>2 DEF Request, Requests, InitsMessages, Keys
<1>4. requests = {d}
  BY <1>1
<1>5. requests \subseteq Requests /\ IsFiniteSet(requests) /\ KeyedOnce(requests)
  BY <1>3, <1>4, FS_Singleton DEF KeyedOnce
<1>6. {request.key : request \in requests} = {Head(results).key}
  BY <1>3, <1>4
<1>7. KeysIn(results', "TracingData") = KeysIn(results, "TracingData")
  BY DataLeft
<1>8. /\ Head(results).key \in KeysIn(results, "InitsAndTeardownsData")
      /\ KeysIn(results, "InitsAndTeardownsData")
           = KeysIn(results', "InitsAndTeardownsData") \cup {Head(results).key}
  BY DataLeft
<1>9. UninitializedKeys' = UninitializedKeys /\ UnpairedKeys' = UnpairedKeys
  BY DEF UninitializedKeys, UnpairedKeys
<1>10. Head(results).key \in Upstream /\ Upstream \subseteq Upstream' \cup {Head(results).key}
  BY <1>7, <1>8, <1>9 DEF Upstream
<1> QED BY <1>5, <1>6, <1>10 DEF Passed

\* Those of the unified machine complete the request of the tracing data that
\* waits for them.
LEMMA PairPasses ==
  ASSUME DataInv, results # <<>>, results' = Tail(results), UNCHANGED uninitialized, Unified,
         Head(results).type = "InitsAndTeardownsData",
         Head(results).key[2] \in DOMAIN unpaired_tracing,
         unpaired_tracing' = Without(unpaired_tracing, Head(results).key[2]),
         NEW requests,
         requests = {Request(Head(results).key,
                             Head(results).chunks + unpaired_tracing[Head(results).key[2]])}
  PROVE  Passed(requests)
<1>1. PICK q, n : q = Head(results).key[2] /\ n = Head(results).chunks + unpaired_tracing[q]
  OBVIOUS
<1>2. Head(results) \in InitsMessages
  BY Shrunk, MessageKinds DEF DataInv, DataType
<1>3. q \in Nat /\ n \in Nat /\ Head(results).key = <<"Unified", q>> /\ "Unified" \in Families
  BY <1>1, <1>2, InitsCircuitKind DEF InitsMessages, DataInv, DataType, Table
<1>4. PICK d : d = Request(<<"Unified", q>>, n)
  OBVIOUS
<1>5. d \in Requests /\ d.key = <<"Unified", q>> /\ requests = {d}
  BY <1>1, <1>3, <1>4 DEF Request, Requests, Keys
<1>6. requests \subseteq Requests /\ IsFiniteSet(requests) /\ KeyedOnce(requests)
  BY <1>5, FS_Singleton DEF KeyedOnce
<1>7. {request.key : request \in requests} = {<<"Unified", q>>}
  BY <1>5
<1>8. KeysIn(results', "TracingData") = KeysIn(results, "TracingData")
  BY DataLeft
<1>9. UninitializedKeys' = UninitializedKeys
  BY DEF UninitializedKeys
<1>10. DOMAIN unpaired_tracing' = DOMAIN unpaired_tracing \ {q}
  BY <1>1 DEF Without
<1>11. <<"Unified", q>> \in UnpairedKeys /\ UnpairedKeys \subseteq UnpairedKeys' \cup {<<"Unified", q>>}
  BY <1>1, <1>10 DEF UnpairedKeys
<1>12. <<"Unified", q>> \in Upstream /\ Upstream \subseteq Upstream' \cup {<<"Unified", q>>}
  BY <1>8, <1>9, <1>11 DEF Upstream
<1> QED BY <1>6, <1>7, <1>12 DEF Passed

\* Offer passes on what it is given, except what has to wait for its inits and
\* teardowns.
LEMMA OfferPasses ==
  ASSUME DataInv, results # <<>>, NEW written, Offer(written), results' = Tail(results),
         written \subseteq TracingMessages, IsFiniteSet(written), KeyedOnce(written),
         NEW K, K = {d.key : d \in written},
         K \subseteq KeysIn(results, "TracingData") \cup UninitializedKeys,
         KeysIn(results, "TracingData") \cup UninitializedKeys
           \subseteq KeysIn(results', "TracingData") \cup UninitializedKeys' \cup K,
         Head(results).type # "InitsAndTeardownsData"
  PROVE  \E requests : Conclude(requests, 0, simulation_result) /\ Sent(requests) /\ Passed(requests)
<1>1. PICK ui, ut : ui = unpaired_inits /\ ut = unpaired_tracing
  OBVIOUS
<1>2. PICK requests : requests = PlainRequests(written) \cup PairedRequests(written, ui)
  OBVIOUS
<1>3. /\ unpaired_tracing' = Joined(written, ui, ut)
      /\ Conclude(requests, 0, simulation_result) /\ Sent(requests)
  BY <1>1, <1>2, OfferParts
<1>4. Table(ui)
  BY <1>1 DEF DataInv, DataType
<1>5. requests \subseteq Requests /\ IsFiniteSet(requests) /\ KeyedOnce(requests)
  <2>1. requests \subseteq Requests
    BY <1>2, <1>4, OfferedRequests
  <2>2. IsFiniteSet(requests)
    BY <1>2, <1>4, OfferedRequests
  <2>3. KeyedOnce(requests)
    BY <1>2, <1>4, OfferedRequests
  <2> QED BY <2>1, <2>2, <2>3
<1>6. {request.key : request \in requests} \subseteq K
  <2> SUFFICES ASSUME NEW request \in requests PROVE request.key \in K
    OBVIOUS
  <2>1. PICK d \in written : request.key = d.key
    BY <1>2 DEF PlainRequests, PairedRequests, Plain, Paired, Request
  <2> QED BY <2>1
<1>7. ASSUME NEW k \in K
      PROVE  k \in UnpairedKeys' \cup {request.key : request \in requests}
  <2>1. PICK d \in written : k = d.key
    BY <1>7
  <2>2. d.key = <<d.key[1], d.key[2]>>
    BY <2>1 DEF TracingMessages
  <2>3. CASE d \in Waiting(written, ui)
    <3>1. d.key[1] = "Unified"
      BY <2>3 DEF Waiting
    <3>2. d.key[2] \in DOMAIN unpaired_tracing'
      BY <1>3, <2>3 DEF Joined
    <3> QED BY <2>1, <2>2, <3>1, <3>2 DEF UnpairedKeys
  <2>4. CASE d \in Paired(written, ui)
    <3>1. PICK r : r = Request(d.key, d.chunks + ui[d.key[2]])
      OBVIOUS
    <3>2. r \in requests /\ r.key = k
      BY <1>2, <2>1, <2>4, <3>1 DEF PairedRequests, Request
    <3> QED BY <3>2
  <2>5. CASE d \in Plain(written)
    <3>1. PICK r : r = Request(d.key, d.chunks)
      OBVIOUS
    <3>2. r \in requests /\ r.key = k
      BY <1>2, <2>1, <2>5, <3>1 DEF PlainRequests, Request
    <3> QED BY <3>2
  <2> QED BY <2>1, <2>3, <2>4, <2>5 DEF Waiting, Paired, Plain
<1>8. UnpairedKeys \subseteq UnpairedKeys'
  <2>1. DOMAIN unpaired_tracing \subseteq DOMAIN unpaired_tracing'
    BY <1>1, <1>3 DEF Joined
  <2> QED BY <2>1 DEF UnpairedKeys
<1>9. ~Unified => KeysIn(results', "InitsAndTeardownsData") = KeysIn(results, "InitsAndTeardownsData")
  BY DataLeft
<1>10. PICK R : R = {request.key : request \in requests}
  OBVIOUS
<1>11. R \subseteq Upstream
  BY <1>6, <1>10 DEF Upstream
<1>12. Upstream \subseteq Upstream' \cup R
  <2>1. K \subseteq UnpairedKeys' \cup R
    BY <1>7, <1>10
  <2> QED BY <1>8, <1>9, <2>1 DEF Upstream
<1>13. Passed(requests)
  BY <1>5, <1>10, <1>11, <1>12 DEF Passed
<1> QED BY <1>3, <1>13

-----------------------------------------------------------------------------
(* A handler keeps the counters right. *)

\* A set of circuits as large as the run holds all of them.
LEMMA AllCounted ==
  ASSUME NEW S, S \subseteq AllKeys, Cardinality(S) = Cardinality(AllKeys)
  PROVE  S = AllKeys
  BY AllKeysFinite, FS_Subset

\* When the channel of requests is closed and the call not aborted, nothing is on
\* the way.
LEMMA NothingUpstream ==
  ASSUME DataInv, main = "loop", ~abort_signaled, ~gpu_work_requests_sender
  PROVE  Upstream = {}
<1>1. NothingWaits /\ \A j \in DOMAIN results : results[j].type \notin FromSimulator
  BY DEF DataInv, OrderInv
<1>2. KeysIn(results, "TracingData") = {} /\ KeysIn(results, "InitsAndTeardownsData") = {}
  BY <1>1 DEF KeysIn, FromSimulator
<1>3. UninitializedKeys = {} /\ UnpairedKeys = {}
  BY <1>1, NoDataTable DEF NothingWaits, UninitializedKeys, UnpairedKeys
<1> QED BY <1>2, <1>3 DEF Upstream

\* No request is left to send without a sender.
LEMMA SenderStays ==
  ASSUME DataInv, CountInv, main = "loop", ~gpu_work_requests_sender, NEW requests, Passed(requests),
         NEW fresh, fresh = requests \ Served(requests), Downstream = AllKeys => fresh = {}
  PROVE  fresh = {}
<1>1. CASE abort_signaled
  BY <1>1 DEF CountInv
<1>2. CASE ~abort_signaled
  <2>1. Upstream = {}
    BY <1>2, NothingUpstream
  <2>2. requests = {}
    BY <2>1 DEF Passed
  <2> QED BY <2>2
<1> QED BY <1>1, <1>2

\* What Conclude decides.
LEMMA Decisions ==
  ASSUME NEW requests, NEW released, NEW simulated \in BOOLEAN,
         Conclude(requests, released, simulated), abort \in BOOLEAN, abort_signaled \in BOOLEAN,
         NEW fresh, fresh = requests \ Served(requests)
  PROVE  \E stop \in BOOLEAN :
           /\ stop => caching /\ proving /\ sent_requests_count' = total_requests_count
           /\ simulation_result' = (simulated \/ stop)
           /\ abort_signaled' = (abort_signaled \/ stop)
           /\ abort' = (abort \/ stop)
           /\ main' = IF fresh # {} /\ ~gpu_work_requests_sender THEN "panicked" ELSE "loop"
           /\ UNCHANGED <<caching, proving, requests_served_from_cache, total_requests_count,
                          cached_trivial, simulatorVars>>
<1>1. PICK open \in BOOLEAN : open = (gpu_work_requests_sender /\ ~NothingFollows(simulated))
  OBVIOUS
<1>2. PICK sent : sent = sent_requests_count + Cardinality(fresh)
  OBVIOUS
<1>3. PICK stop \in BOOLEAN :
        stop = (caching /\ proving /\ ~abort_signaled /\ open /\ sent = total_requests_count)
  OBVIOUS
<1>4. /\ sent_requests_count' = sent
      /\ simulation_result' = (simulated \/ stop)
      /\ abort_signaled' = (abort_signaled \/ stop)
      /\ abort' = (abort \/ stop)
      /\ main' = IF fresh # {} /\ ~gpu_work_requests_sender THEN "panicked" ELSE "loop"
      /\ UNCHANGED <<caching, proving, requests_served_from_cache, total_requests_count,
                     cached_trivial, simulatorVars>>
  BY <1>1, <1>2, <1>3, Zenon DEF Conclude, AllSent
<1> QED BY <1>3, <1>4

\* Inits and teardowns the handler has seen are behind `trivial`.
InitsSeen ==
  Unified /\ Head(results).type = "InitsAndTeardownsData" /\ Head(results).key[2] < EmptyCircuits
    => Head(results).key[2] < trivial'

\* What a handler has to ensure: it passes on what it is given, and counts it.
LEMMA HandlerKeepsCount ==
  ASSUME StateInv, DataInv, DataInv', CountInv, CompleteInv, main = "loop", results # <<>>,
         NEW requests, NEW released, NEW simulated \in BOOLEAN,
         Conclude(requests, released, simulated), Passed(requests), Answered,
         Counted(requests \ Served(requests)),
         simulation_result => simulated, trivial <= trivial', proving => entries' = entries,
         InitsSeen
  PROVE  CountInv' /\ CompleteInv'
<1>1. PICK fresh, F : fresh = requests \ Served(requests) /\ F = {request.key : request \in fresh}
  OBVIOUS
<1>2. /\ Upstream \cup Downstream \subseteq Upstream' \cup Downstream'
      /\ sent_requests_count' = Cardinality(Downstream')
      /\ pending_requests_count' = Cardinality(Pending')
      /\ requests_served_from_cache' \subseteq Downstream' /\ Downstream' \subseteq AllKeys
      /\ Downstream = AllKeys => fresh = {} /\ Downstream' = AllKeys
  BY <1>1, HandlerCounts
<1>3. abort \in BOOLEAN /\ abort_signaled \in BOOLEAN /\ trivial \in Nat /\ trivial' \in Nat
  BY DEF StateInv, DataInv, DataType
<1>4. PICK stop \in BOOLEAN :
        /\ stop => caching /\ proving /\ sent_requests_count' = total_requests_count
        /\ simulation_result' = (simulated \/ stop)
        /\ abort_signaled' = (abort_signaled \/ stop)
        /\ abort' = (abort \/ stop)
        /\ main' = IF fresh # {} /\ ~gpu_work_requests_sender THEN "panicked" ELSE "loop"
        /\ UNCHANGED <<caching, proving, requests_served_from_cache, total_requests_count,
                       cached_trivial, simulatorVars>>
  BY <1>1, <1>3, Decisions
<1>5. main' = "loop"
  <2>1. ~gpu_work_requests_sender => fresh = {}
    BY <1>1, <1>2, SenderStays
  <2> QED BY <1>4, <2>1
<1>6. /\ UNCHANGED <<simulator, produced, chunks, inits_index, inits_chunks>>
      /\ results' = Tail(results)
  BY <1>4 DEF simulatorVars, producerVars, Conclude
<1>7. caching /\ proving => trivial' = EmptyCircuits
  <2>1. trivial' <= EmptyCircuits
    BY DEF DataInv, InitsInv
  <2> QED BY <1>3, <2>1, EmptyType DEF CountInv
<1>8. abort_signaled' => simulation_result' /\ Downstream' = AllKeys /\ caching' /\ proving'
  <2>1. CASE abort_signaled
    BY <1>2, <1>4, <2>1 DEF CountInv
  <2>2. CASE stop
    <3>1. caching /\ proving /\ Cardinality(Downstream') = total_requests_count
      BY <1>2, <1>4, <2>2
    <3>2. Cardinality(Downstream') = Cardinality(AllKeys)
      BY <3>1 DEF CountInv
    <3>3. Downstream' = AllKeys
      BY <1>2, <3>2, AllCounted
    <3> QED BY <1>4, <2>2, <3>1, <3>3
  <2> QED BY <1>4, <2>1, <2>2
<1>9. CountInv'
  <2>1. abort' => abort_signaled'
    BY <1>4 DEF CountInv
  <2>2. \A t \in Families : produced'[t] <= Rows(t, Len(Run))
    BY <1>6 DEF CountInv
  <2>3. requests_served_from_cache' # {} => caching' /\ proving'
    BY <1>4 DEF CountInv
  <2>4. /\ total_requests_count' \in {0, Cardinality(AllKeys)}
        /\ caching' /\ proving' =>
             total_requests_count' = Cardinality(AllKeys) /\ cached_trivial' = EmptyCircuits
    BY <1>4 DEF CountInv
  <2>5. proving' => entries' = <<>>
    BY <1>4 DEF CountInv
  <2> QED BY <1>2, <1>4, <1>5, <1>7, <1>8, <2>1, <2>2, <2>3, <2>4, <2>5 DEF CountInv
<1>10. ASSUME ~abort_signaled' PROVE CompleteInv'
  <2>1. ~abort_signaled
    BY <1>4, <1>10
  <2>2. /\ ~Producing => \A t \in Families : produced[t] = Rows(t, Len(Run))
        /\ SimulatorOver => inits_index = EmptyCircuits + Partitions
        /\ \A k \in Keys : Issued(k) => k \in Upstream \cup Downstream
        /\ \A q \in Nat :
             Unified /\ q < inits_index /\ q < EmptyCircuits =>
               q < trivial \/ <<InitsCircuit, q>> \in KeysIn(results, "InitsAndTeardownsData")
    BY <2>1 DEF CompleteInv
  <2>3. ~Producing' => \A t \in Families : produced'[t] = Rows(t, Len(Run))
    BY <1>6, <2>2 DEF Producing
  <2>4. SimulatorOver' => inits_index' = EmptyCircuits + Partitions
    BY <1>6, <2>2 DEF SimulatorOver
  <2>5. \A k \in Keys : Issued(k)' => k \in Upstream' \cup Downstream'
    BY <1>2, <1>6, <2>2 DEF Issued, At
  <2>6. ASSUME NEW q \in Nat, Unified, q < inits_index', q < EmptyCircuits
        PROVE  q < trivial' \/ <<InitsCircuit, q>> \in KeysIn(results', "InitsAndTeardownsData")
    <3>1. CASE q < trivial
      BY <1>3, <3>1
    <3>2. CASE <<InitsCircuit, q>> \in KeysIn(results, "InitsAndTeardownsData")
      <4>1. PICK A, B : /\ A = KeysIn(results, "InitsAndTeardownsData")
                        /\ B = KeysIn(results', "InitsAndTeardownsData")
        OBVIOUS
      <4>2. \/ A = B
            \/ Head(results).type = "InitsAndTeardownsData" /\ A = B \cup {Head(results).key}
        BY <1>6, <4>1, DataLeft
      <4>3. CASE Head(results).type = "InitsAndTeardownsData" /\ Head(results).key = <<InitsCircuit, q>>
        <5>1. Head(results).key[2] = q
          BY <4>3
        <5> QED BY <2>6, <4>3, <5>1 DEF InitsSeen
      <4> QED BY <3>2, <4>1, <4>2, <4>3
    <3> QED BY <1>6, <2>2, <2>6, <3>1, <3>2
  <2> QED BY <2>3, <2>4, <2>5, <2>6 DEF CompleteInv
<1> QED BY <1>9, <1>10 DEF CompleteInv

-----------------------------------------------------------------------------
(* Every handler keeps the counters right. *)

\* The counts of pending requests, as the handlers of data change it.
LEMMA SentIsCounted ==
  ASSUME NEW requests, Sent(requests), Head(results).type # "GpuWorkResult"
  PROVE  Counted(requests \ Served(requests))
  BY DEF Sent, Counted

\* ... and as those that send no request do.
LEMMA NothingIsCounted ==
  ASSUME CountInv,
         pending_requests_count' = IF Head(results).type = "GpuWorkResult"
                                   THEN pending_requests_count - 1 ELSE pending_requests_count
  PROVE  Counted({} \ Served({}))
<1>1. PICK fresh : fresh = {} \ Served({})
  OBVIOUS
<1>2. Cardinality(fresh) = 0
  BY <1>1, FS_EmptySet
<1>3. pending_requests_count \in Nat
  BY PlacesFinite DEF CountInv
<1> QED BY <1>1, <1>2, <1>3 DEF Counted

\* A handler of a message that is not about data.
LEMMA QuietCount ==
  ASSUME StateInv, DataInv, DataInv', CountInv, CompleteInv, main = "loop", results # <<>>,
         Head(results).type \notin {"TracingData", "InitsAndTeardownsData"},
         NEW released, NEW simulated \in BOOLEAN, Conclude({}, released, simulated),
         simulation_result => simulated,
         UNCHANGED <<trivial, uninitialized, unpaired_tracing>>, Answered,
         pending_requests_count' = IF Head(results).type = "GpuWorkResult"
                                   THEN pending_requests_count - 1 ELSE pending_requests_count,
         proving => entries' = entries
  PROVE  CountInv' /\ CompleteInv'
<1>1. results' = Tail(results)
  BY DEF Conclude
<1>2. Passed({})
  BY <1>1, QuietPasses
<1>3. Counted({} \ Served({}))
  BY NothingIsCounted
<1>4. InitsSeen
  BY DEF InitsSeen
<1>5. trivial <= trivial'
  BY DEF DataInv, DataType
<1> QED BY <1>2, <1>3, <1>4, <1>5, HandlerKeepsCount

\* The handler of SnapshotProduced.
LEMMA SnapshotProducedCount ==
  ASSUME StateInv, DataInv, DataInv', CountInv, CompleteInv, HandleSnapshotProduced
  PROVE  CountInv' /\ CompleteInv'
<1>1. main = "loop" /\ results # <<>> /\ Head(results).type = "SnapshotProduced"
  BY MessageIs DEF HandleSnapshotProduced
<1>2. UNCHANGED <<trivial, uninitialized, unpaired_tracing, completed, pending_requests_count>>
  BY DEF HandleSnapshotProduced, resultVars
<1>3. Answered
  BY <1>1, <1>2 DEF Answered
<1>4. simulation_result \in BOOLEAN
  BY DEF DataInv, DataType
<1>5. \E released : Conclude({}, released, simulation_result) /\ (proving => entries' = entries)
  BY DEF HandleSnapshotProduced, Trim
<1> QED BY <1>1, <1>2, <1>3, <1>4, <1>5, QuietCount

\* The handler of SimulationResult.
LEMMA SimulationResultCount ==
  ASSUME StateInv, DataInv, DataInv', CountInv, CompleteInv, HandleSimulationResult
  PROVE  CountInv' /\ CompleteInv'
<1>1. main = "loop" /\ results # <<>> /\ Head(results).type = "SimulationResult"
  BY MessageIs DEF HandleSimulationResult
<1>2. UNCHANGED <<trivial, uninitialized, unpaired_tracing, completed, pending_requests_count, entries>>
  BY DEF HandleSimulationResult, resultVars
<1>3. Answered
  BY <1>1, <1>2 DEF Answered
<1>4. Conclude({}, 0, TRUE)
  BY DEF HandleSimulationResult
<1> QED BY <1>1, <1>2, <1>3, <1>4, QuietCount

\* The handler of GpuWorkResult.
LEMMA GpuWorkResultCount ==
  ASSUME StateInv, DataInv, DataInv', CountInv, CompleteInv, HandleGpuWorkResult
  PROVE  CountInv' /\ CompleteInv'
<1>1. main = "loop" /\ results # <<>> /\ Head(results).type = "GpuWorkResult"
  BY MessageIs DEF HandleGpuWorkResult
<1>2. PICK done : done = Request(Head(results).key, Head(results).chunks)
  OBVIOUS
<1>3. /\ UNCHANGED <<trivial, uninitialized, unpaired_tracing>>
      /\ pending_requests_count' = pending_requests_count - 1
      /\ completed' = completed \cup {done.key}
      /\ IF proving \/ ~caching
         THEN Conclude({}, done.chunks, simulation_result) /\ UNCHANGED entries
         ELSE IF simulation_result
         THEN Conclude({}, 0, simulation_result) /\ entries' = Append(entries, done)
         ELSE Trim(Append(entries, done))
  BY <1>2, Zenon DEF HandleGpuWorkResult
<1>4. done.key = Head(results).key
  BY <1>2 DEF Request
<1>5. Answered
  BY <1>1, <1>3, <1>4 DEF Answered
<1>6. simulation_result \in BOOLEAN
  BY DEF DataInv, DataType
<1>7. \E released : Conclude({}, released, simulation_result) /\ (proving => entries' = entries)
  BY <1>3 DEF Trim
<1> QED BY <1>1, <1>3, <1>5, <1>6, <1>7, QuietCount

\* The inits and teardowns of the unrolled machine.
LEMMA InitsCount ==
  ASSUME StateInv, DataInv, DataInv', CountInv, CompleteInv, HandleInits
  PROVE  CountInv' /\ CompleteInv'
<1>1. main = "loop" /\ results # <<>> /\ Head(results).type = "InitsAndTeardownsData"
  BY MessageIs DEF HandleInits
<1>2. PICK requests : requests = {Request(Head(results).key, Head(results).chunks)}
  OBVIOUS
<1>3. /\ ~Unified /\ Conclude(requests, 0, simulation_result) /\ Sent(requests)
      /\ UNCHANGED <<trivial, uninitialized, unpaired_tracing, completed, entries>>
  BY <1>2 DEF HandleInits
<1>4. results' = Tail(results)
  BY <1>3 DEF Conclude
<1>5. Passed(requests)
  BY <1>1, <1>2, <1>3, <1>4, InitsPass
<1>6. Counted(requests \ Served(requests))
  BY <1>1, <1>3, SentIsCounted
<1>7. Answered /\ InitsSeen
  BY <1>1, <1>3 DEF Answered, InitsSeen
<1>8. trivial <= trivial' /\ simulation_result \in BOOLEAN
  BY <1>3 DEF DataInv, DataType
<1> QED BY <1>1, <1>3, <1>5, <1>6, <1>7, <1>8, HandlerKeepsCount

\* Those of the unified machine: circuits that have none are counted.
LEMMA UnifiedInitsCount ==
  ASSUME StateInv, DataInv, DataInv', CountInv, CompleteInv, HandleUnifiedInits
  PROVE  CountInv' /\ CompleteInv'
<1>1. /\ main = "loop" /\ results # <<>> /\ Head(results).type = "InitsAndTeardownsData"
      /\ Head(results) \in Messages /\ Unified
  BY MessageIs DEF HandleUnifiedInits
<1>2. PICK data, q, awaited, paired, requests :
        /\ data = Head(results) /\ q = data.key[2]
        /\ awaited = (~proving \/ ~caching \/ q >= trivial)
        /\ paired = (q \in DOMAIN unpaired_tracing)
        /\ requests = IF awaited /\ paired
                      THEN {Request(data.key, data.chunks + unpaired_tracing[q])} ELSE {}
  OBVIOUS
<1>3. /\ UNCHANGED <<uninitialized, processed, completed, entries>>
      /\ trivial' = IF awaited /\ q >= trivial /\ data.chunks = 0 THEN q + 1 ELSE trivial
      /\ unpaired_tracing' = IF awaited /\ paired THEN Without(unpaired_tracing, q)
                             ELSE unpaired_tracing
      /\ Conclude(requests, 0, simulation_result) /\ Sent(requests)
  BY <1>2 DEF HandleUnifiedInits
<1>4. results' = Tail(results)
  BY <1>3 DEF Conclude
<1>5. /\ q \in Nat /\ trivial \in Nat /\ simulation_result \in BOOLEAN
      /\ data.chunks = 0 <=> q < EmptyCircuits
  <2>1. data \in InitsMessages
    BY <1>1, <1>2, MessageKinds
  <2>2. Head(results) = results[1] /\ 1 \in DOMAIN results
    BY <1>1, Shrunk DEF DataInv, DataType
  <2> QED BY <1>1, <1>2, <2>1, <2>2 DEF InitsMessages, DataInv, DataType, InitsInv
<1>6. trivial <= trivial' /\ (q < EmptyCircuits => q < trivial')
  <2>1. CASE q >= trivial /\ awaited /\ data.chunks = 0
    <3>1. trivial' = q + 1
      BY <1>3, <2>1
    <3> QED BY <1>5, <2>1, <3>1
  <2>2. CASE ~(q >= trivial /\ awaited /\ data.chunks = 0)
    <3>1. trivial' = trivial
      BY <1>3, <2>2
    <3>2. q >= trivial => awaited
      BY <1>2
    <3> QED BY <1>5, <2>2, <3>1, <3>2
  <2> QED BY <2>1, <2>2
<1>7. Answered /\ InitsSeen
  BY <1>1, <1>2, <1>3, <1>6 DEF Answered, InitsSeen
<1>8. Passed(requests)
  <2>1. CASE awaited /\ paired
    <3>1. /\ q = Head(results).key[2] /\ q \in DOMAIN unpaired_tracing
          /\ unpaired_tracing' = Without(unpaired_tracing, Head(results).key[2])
          /\ requests = {Request(Head(results).key,
                                 Head(results).chunks + unpaired_tracing[Head(results).key[2]])}
      BY <1>2, <1>3, <2>1
    <3> QED BY <1>1, <1>3, <1>4, <3>1, PairPasses
  <2>2. CASE ~(awaited /\ paired)
    <3>1. requests = {} /\ UNCHANGED <<uninitialized, unpaired_tracing>>
      BY <1>2, <1>3, <2>2
    <3>2. Passed({})
      BY <1>1, <1>4, <3>1, QuietPasses
    <3> QED BY <3>1, <3>2
  <2> QED BY <2>1, <2>2
<1>9. Counted(requests \ Served(requests))
  BY <1>1, <1>3, SentIsCounted
<1> QED BY <1>1, <1>3, <1>5, <1>6, <1>7, <1>8, <1>9, HandlerKeepsCount

\* A handler that offers the tracing data whose rows are written.
LEMMA OfferCount ==
  ASSUME StateInv, DataInv, DataInv', CountInv, CompleteInv, main = "loop", results # <<>>,
         Head(results).type \in {"TracingData", "SnapshotReplayed"},
         NEW written, Offer(written), UNCHANGED <<trivial, completed, entries>>,
         written \subseteq TracingMessages, IsFiniteSet(written), KeyedOnce(written),
         NEW K, K = {d.key : d \in written},
         K \subseteq KeysIn(results, "TracingData") \cup UninitializedKeys,
         KeysIn(results, "TracingData") \cup UninitializedKeys
           \subseteq KeysIn(results', "TracingData") \cup UninitializedKeys' \cup K
  PROVE  CountInv' /\ CompleteInv'
<1>1. results' = Tail(results)
  BY DEF Offer, Conclude
<1>2. PICK requests : Conclude(requests, 0, simulation_result) /\ Sent(requests) /\ Passed(requests)
  BY <1>1, OfferPasses
<1>3. Answered /\ InitsSeen
  BY DEF Answered, InitsSeen
<1>4. Counted(requests \ Served(requests))
  BY <1>2, SentIsCounted
<1>5. trivial <= trivial' /\ simulation_result \in BOOLEAN
  BY DEF DataInv, DataType
<1> QED BY <1>2, <1>3, <1>4, <1>5, HandlerKeepsCount

\* The handler of TracingData.
LEMMA TracingDataCount ==
  ASSUME StateInv, DataInv, DataInv', CountInv, CompleteInv, HandleTracingData
  PROVE  CountInv' /\ CompleteInv'
<1>1. /\ main = "loop" /\ results # <<>> /\ Head(results).type = "TracingData"
      /\ Head(results) \in Messages
  BY MessageIs DEF HandleTracingData
<1>2. PICK data : data = Head(results)
  OBVIOUS
<1>3. /\ UNCHANGED <<trivial, completed, entries>>
      /\ \/ UNCHANGED uninitialized /\ Offer({data})
         \/ uninitialized' = uninitialized \cup {data} /\ Offer({})
  BY <1>2 DEF HandleTracingData
<1>4. results' = Tail(results)
  BY <1>3 DEF Offer, Conclude
<1>5. data \in TracingMessages
  BY <1>1, <1>2, MessageKinds
<1>6. /\ data.key \in KeysIn(results, "TracingData")
      /\ KeysIn(results, "TracingData") = KeysIn(results', "TracingData") \cup {data.key}
  BY <1>1, <1>2, <1>4, DataLeft
<1>7. CASE UNCHANGED uninitialized /\ Offer({data})
  <2>1. PICK written, K : written = {data} /\ K = {d.key : d \in written}
    OBVIOUS
  <2>2. K = {data.key} /\ written \subseteq TracingMessages /\ KeyedOnce(written)
    BY <1>5, <2>1 DEF KeyedOnce
  <2>3. IsFiniteSet(written) /\ Offer(written)
    BY <1>7, <2>1, FS_Singleton
  <2>4. UninitializedKeys' = UninitializedKeys
    BY <1>7 DEF UninitializedKeys
  <2> QED BY <1>1, <1>3, <1>6, <2>1, <2>2, <2>3, <2>4, OfferCount
<1>8. CASE uninitialized' = uninitialized \cup {data} /\ Offer({})
  <2>1. PICK written, K : written = {} /\ K = {d.key : d \in written}
    OBVIOUS
  <2>2. K = {} /\ written \subseteq TracingMessages /\ KeyedOnce(written) /\ IsFiniteSet(written)
    BY <2>1, FS_EmptySet DEF KeyedOnce
  <2>3. Offer(written)
    BY <1>8, <2>1
  <2>4. UninitializedKeys' = UninitializedKeys \cup {data.key}
    BY <1>8 DEF UninitializedKeys
  <2> QED BY <1>1, <1>3, <1>6, <2>1, <2>2, <2>3, <2>4, OfferCount
<1> QED BY <1>3, <1>7, <1>8

\* The handler of SnapshotReplayed.
LEMMA SnapshotReplayedCount ==
  ASSUME StateInv, DataInv, DataInv', CountInv, CompleteInv, HandleSnapshotReplayed
  PROVE  CountInv' /\ CompleteInv'
<1>1. main = "loop" /\ results # <<>> /\ Head(results).type = "SnapshotReplayed"
  BY MessageIs DEF HandleSnapshotReplayed
<1>2. PICK written :
        written \subseteq uninitialized /\ uninitialized' = uninitialized \ written /\ Offer(written)
  BY DEF HandleSnapshotReplayed
<1>3. UNCHANGED <<trivial, completed, entries>>
  BY DEF HandleSnapshotReplayed
<1>4. results' = Tail(results)
  BY <1>2 DEF Offer, Conclude
<1>5. KeysIn(results', "TracingData") = KeysIn(results, "TracingData")
  BY <1>1, <1>4, DataLeft
<1>6. PICK K : K = {d.key : d \in written}
  OBVIOUS
<1>7. written \subseteq TracingMessages /\ KeyedOnce(written)
  BY <1>2 DEF DataInv, DataType, KeyInv, KeyedOnce
<1>8. IsFiniteSet(written)
  <2>1. \A S \in SUBSET uninitialized : IsFiniteSet(S)
    BY FS_Subset DEF DataInv, DataType
  <2> QED BY <1>2, <2>1
<1>9. K \subseteq UninitializedKeys /\ UninitializedKeys \subseteq UninitializedKeys' \cup K
  BY <1>2, <1>6 DEF UninitializedKeys
<1> QED BY <1>1, <1>2, <1>3, <1>5, <1>6, <1>7, <1>8, <1>9, OfferCount

-----------------------------------------------------------------------------
(* A step of the simulator keeps the counters right. *)

\* The simulator takes no message back and answers no request.
SendsData ==
  /\ KeysIn(results', "GpuWorkResult") = KeysIn(results, "GpuWorkResult")
  /\ KeysIn(results, "TracingData") \subseteq KeysIn(results', "TracingData")
  /\ KeysIn(results, "InitsAndTeardownsData") \subseteq KeysIn(results', "InitsAndTeardownsData")

\* What the simulator sends goes to the loop.
LEMMA SimulatorSends ==
  ASSUME DataInv, \/ UNCHANGED results
                  \/ \E m \in Messages : Send(m) /\ m.type # "GpuWorkResult"
  PROVE  SendsData
<1>1. CASE UNCHANGED results
  BY <1>1 DEF SendsData
<1>2. ASSUME NEW m \in Messages, Send(m), m.type # "GpuWorkResult"
      PROVE  SendsData
  <2>1. results' = Append(results, m) /\ results \in Seq(Messages)
    BY <1>2 DEF Send, DataInv, DataType
  <2>2. \A type : KeysIn(results', type) = IF m.type = type THEN KeysIn(results, type) \cup {m.key}
                                           ELSE KeysIn(results, type)
    BY <2>1, SendKeys
  <2> QED BY <1>2, <2>2 DEF SendsData
<1> QED BY <1>1, <1>2

\* The key of a message sent is on the way.
LEMMA SentIsOnTheWay ==
  ASSUME DataInv, NEW m \in Messages, Send(m)
  PROVE  m.key \in KeysIn(results', m.type)
<1>1. results' = Append(results, m) /\ results \in Seq(Messages)
  BY DEF Send, DataInv, DataType
<1>2. KeysIn(results', m.type) = KeysIn(results, m.type) \cup {m.key}
  BY <1>1, SendKeys
<1> QED BY <1>2

\* What reaches the GPU side is unchanged.
LEMMA TaskKeepsCount ==
  ASSUME CountInv, UNCHANGED clientVars,
         KeysIn(results', "GpuWorkResult") = KeysIn(results, "GpuWorkResult"),
         abort' = abort, \A t \in Families : produced'[t] <= Rows(t, Len(Run))
  PROVE  CountInv' /\ Downstream' = Downstream
<1>1. Downstream' = Downstream /\ Pending' = Pending
  BY ClientUnchanged, ClientKeysUnchanged DEF Downstream, Pending
<1>2. CountInv'
  BY <1>1, ClientUnchanged DEF CountInv
<1> QED BY <1>1, <1>2

\* What is issued by a step was sent by it.
NewlyIssued ==
  \A k \in Keys : Issued(k)' =>
    \/ Issued(k)
    \/ k \in KeysIn(results', "TracingData")
    \/ ~Unified /\ k \in KeysIn(results', "InitsAndTeardownsData")

NewInits ==
  \A q \in Nat : q < inits_index' =>
    q < inits_index \/ <<InitsCircuit, q>> \in KeysIn(results', "InitsAndTeardownsData")

\* A task that says what it has newly issued keeps CompleteInv.
LEMMA TaskKeepsComplete ==
  ASSUME CompleteInv, UNCHANGED clientVars, SendsData, Downstream' = Downstream,
         main = "loop" /\ ~abort_signaled =>
           /\ ~Producing' => \A t \in Families : produced'[t] = Rows(t, Len(Run))
           /\ SimulatorOver' => inits_index' = EmptyCircuits + Partitions
           /\ NewlyIssued /\ NewInits
  PROVE  CompleteInv'
<1> SUFFICES ASSUME main = "loop", ~abort_signaled PROVE CompleteInv'
  BY ClientUnchanged DEF CompleteInv
<1>1. Upstream \subseteq Upstream'
  BY ClientKeysUnchanged DEF Upstream, SendsData
<1>2. ASSUME NEW k \in Keys, Issued(k)' PROVE k \in Upstream' \cup Downstream'
  <2>1. CASE Issued(k)
    BY <1>1, <2>1 DEF CompleteInv
  <2>2. CASE \/ k \in KeysIn(results', "TracingData")
             \/ ~Unified /\ k \in KeysIn(results', "InitsAndTeardownsData")
    BY <2>2 DEF Upstream
  <2> QED BY <1>2, <2>1, <2>2 DEF NewlyIssued
<1>3. ASSUME NEW q \in Nat, Unified, q < inits_index', q < EmptyCircuits
      PROVE  q < trivial' \/ <<InitsCircuit, q>> \in KeysIn(results', "InitsAndTeardownsData")
  <2>1. trivial' = trivial
    BY ClientUnchanged
  <2>2. CASE q < inits_index
    BY <1>3, <2>1, <2>2 DEF CompleteInv, SendsData
  <2> QED BY <1>3, <2>2 DEF NewInits
<1> QED BY <1>2, <1>3 DEF CompleteInv

\* Rows of one circuit, at most to its end, issue no other.
LEMMA OthersIssued ==
  ASSUME ProducerInv, NEW t \in Families, NEW p \in Nat, produced' = [produced EXCEPT ![t] = p],
         produced[t] <= p, p <= (At(t) + 1) * CyclesPerCircuit[t],
         NEW n \in Nat, chunks' = [chunks EXCEPT ![t] = n],
         n # 0 => produced[t] < p /\ p < (At(t) + 1) * CyclesPerCircuit[t],
         UNCHANGED inits_index, NEW k \in Keys, Issued(k)'
  PROVE  Issued(k) \/ (n = 0 /\ k = <<t, At(t)>>)
<1>1. PICK old, was : old = chunks /\ was = produced
  OBVIOUS
<1>2. /\ old \in [Families -> Nat] /\ was \in [Families -> Nat]
      /\ chunks' = [old EXCEPT ![t] = n] /\ produced' = [was EXCEPT ![t] = p]
  BY <1>1 DEF ProducerInv
<1>3. CASE ~Unified /\ k \in {InitsCircuit} \X Nat /\ k[2] < inits_index'
  BY <1>3 DEF Issued
<1>4. CASE /\ k \in Families \X Nat
           /\ k[2] * CyclesPerCircuit[k[1]] < produced'[k[1]]
           /\ chunks'[k[1]] # 0 => k[2] # At(k[1])'
  <2>1. PICK s \in Families, q \in Nat : k = <<s, q>>
    BY <1>4
  <2>2. CASE s # t
    <3>1. produced'[s] = was[s] /\ chunks'[s] = old[s] /\ At(s)' = At(s)
      BY <1>1, <1>2, <2>2 DEF At
    <3> QED BY <1>1, <1>4, <2>1, <3>1 DEF Issued
  <2>3. CASE s = t
    <3>1. PICK c \in Nat \ {0} : c = CyclesPerCircuit[t]
      BY RunShape
    <3>2. PICK a \in Nat : a = was[t] \div c
      BY <1>2, <3>1, Division
    <3>3. a = At(t)
      BY <1>1, <3>1, <3>2 DEF At
    <3>4. produced'[t] = p /\ chunks'[t] = n
      BY <1>2
    <3>5. q * c < p /\ p <= (a + 1) * c
      BY <1>4, <2>1, <2>3, <3>1, <3>3, <3>4
    <3>6. q < a + 1
      <4>1. PICK x \in Nat, y \in Nat : x = q * c /\ y = (a + 1) * c
        BY <3>1, Multiples
      <4>2. x < y
        BY <3>5, <4>1
      <4> QED BY <3>1, <4>1, <4>2, Multiples
    <3>7. CASE q < a
      <4>1. q * c < was[t]
        <5>1. PICK x \in Nat, y \in Nat, w \in Nat : x = q * c /\ y = a * c /\ w = was[t]
          BY <1>2, <3>1, Multiples
        <5>2. x < y
          BY <3>1, <3>7, <5>1, Multiples
        <5>3. y <= w
          BY <3>1, <3>2, <5>1, Division
        <5> QED BY <5>1, <5>2, <5>3
      <4>2. q # a
        BY <3>7
      <4> QED BY <1>1, <2>1, <2>3, <3>1, <3>3, <4>1, <4>2 DEF Issued
    <3>8. CASE q = a
      <4>1. CASE n = 0
        BY <2>1, <2>3, <3>3, <3>8, <4>1
      <4>2. CASE n # 0
        <5>1. PICK w \in Nat : w = was[t]
          BY <1>2
        <5>2. w < p /\ p < (w \div c + 1) * c
          BY <1>1, <3>1, <3>2, <3>3, <4>2, <5>1
        <5>3. p \div c = w \div c
          <6>1. Within(w, p, c)
            BY ONLY <5>2 DEF Within
          <6> QED BY ONLY <3>1, <5>1, <6>1, p \in Nat, StaysWithin
        <5>4. At(t)' = a
          BY <3>1, <3>2, <3>4, <5>1, <5>3 DEF At
        <5> QED BY <1>4, <2>1, <2>3, <3>4, <3>8, <4>2, <5>4
      <4> QED BY <4>1, <4>2
    <3> QED BY <3>6, <3>7, <3>8
  <2> QED BY <2>2, <2>3
<1> QED BY <1>3, <1>4 DEF Issued

\* A step that reserves and sends no data.
LEMMA MoveCount ==
  ASSUME DataInv, CountInv, CompleteInv, UNCHANGED clientVars,
         UNCHANGED <<produced, chunks, inits_index, abort>>,
         \/ UNCHANGED results
         \/ Send(SnapshotProduced)
         \/ Send(SimulationResult),
         main = "loop" /\ ~abort_signaled =>
           /\ ~Producing' => \A t \in Families : produced[t] = Rows(t, Len(Run))
           /\ SimulatorOver' => inits_index = EmptyCircuits + Partitions
  PROVE  CountInv' /\ CompleteInv'
<1>1. /\ SnapshotProduced \in Messages /\ SnapshotProduced.type = "SnapshotProduced"
      /\ SimulationResult \in Messages /\ SimulationResult.type = "SimulationResult"
  BY DEF SnapshotProduced, SimulationResult, Messages, Notices
<1>2. SendsData
  BY <1>1, SimulatorSends
<1>3. CountInv' /\ Downstream' = Downstream
  <2>1. \A t \in Families : produced'[t] <= Rows(t, Len(Run))
    BY DEF CountInv
  <2> QED BY <1>2, <2>1, TaskKeepsCount DEF SendsData
<1>4. NewlyIssued /\ NewInits
  BY DEF NewlyIssued, NewInits, Issued, At
<1>5. CompleteInv'
  BY <1>2, <1>3, <1>4, TaskKeepsComplete
<1> QED BY <1>3, <1>5

\* Rows are reserved, and the data of a full circuit sent.
LEMMA ReserveCount ==
  ASSUME DataInv, CountInv, CompleteInv, UNCHANGED clientVars, Reserve
  PROVE  CountInv' /\ CompleteInv'
<1>1. ProducerInv /\ free_allocators \in Nat
  BY DEF DataInv, DataType
<1>0. PICK t \in Families, p \in Nat, n \in Nat \ {0}, indexes \in SUBSET Nat :
        Reserves(t, p, n, indexes)
  BY <1>1, ReserveEffect
<1>2. /\ n # 0
      /\ produced' = [produced EXCEPT ![t] = p]
      /\ produced[t] < p /\ p <= Rows(t, snapshot_index)
      /\ \/ /\ p = (At(t) + 1) * CyclesPerCircuit[t]
            /\ Send(TracingData(<<t, At(t)>>, n, indexes))
            /\ chunks' = [chunks EXCEPT ![t] = 0]
         \/ /\ p < (At(t) + 1) * CyclesPerCircuit[t]
            /\ UNCHANGED results
            /\ chunks' = [chunks EXCEPT ![t] = n]
  BY <1>0 DEF Reserves
<1>3. UNCHANGED <<simulator, inits_index, abort>> /\ simulator = "trace"
  BY DEF Reserve
<1>4. PICK m : m = TracingData(<<t, At(t)>>, n, indexes)
  OBVIOUS
<1>5. At(t) \in Nat
  BY <1>1, RunShape, Division DEF At, ProducerInv
<1>6. m \in Messages /\ m.type = "TracingData" /\ m.key = <<t, At(t)>>
  BY <1>4, <1>5 DEF TracingData, TracingMessages, Messages
<1>7. SendsData
  BY <1>2, <1>4, <1>6, SimulatorSends
<1>8. CountInv' /\ Downstream' = Downstream
  <2>1. ASSUME NEW s \in Families PROVE produced'[s] <= Rows(s, Len(Run))
    <3>1. CASE s # t
      BY <1>1, <1>2, <3>1 DEF CountInv, ProducerInv
    <3>2. CASE s = t
      <4>1. snapshot_index \in 0..Len(Run) /\ Len(Run) \in 0..Len(Run) /\ snapshot_index <= Len(Run)
        <5>1. PICK l \in Nat : l = Len(Run)
          BY RunShape
        <5>2. snapshot_index \in 0..l
          BY <1>1, <5>1 DEF ProducerInv
        <5> QED BY <5>1, <5>2
      <4>2. PICK x \in Nat : x = Rows(t, snapshot_index)
        BY <4>1, RowsType
      <4>3. PICK y \in Nat : y = Rows(t, Len(Run))
        BY <4>1, RowsType
      <4>4. x <= y
        BY <4>1, <4>2, <4>3, RowsGrow
      <4>5. produced'[s] = p
        BY <1>1, <1>2, <3>2 DEF ProducerInv
      <4> QED BY <1>2, <3>2, <4>2, <4>3, <4>4, <4>5
    <3> QED BY <3>1, <3>2
  <2> QED BY <1>3, <1>7, <2>1, TaskKeepsCount DEF SendsData
<1>9. NewlyIssued
  <2> SUFFICES ASSUME NEW k \in Keys, Issued(k)'
               PROVE  Issued(k) \/ k \in KeysIn(results', "TracingData")
    BY DEF NewlyIssued
  <2>1. CASE /\ p = (At(t) + 1) * CyclesPerCircuit[t]
             /\ Send(TracingData(<<t, At(t)>>, n, indexes))
             /\ chunks' = [chunks EXCEPT ![t] = 0]
    <3>1. Issued(k) \/ k = <<t, At(t)>>
      <4>1. PICK z \in Nat : z = 0
        OBVIOUS
      <4>2. chunks' = [chunks EXCEPT ![t] = z]
        BY <2>1, <4>1
      <4>3. PICK w \in Nat : w = produced[t]
        BY <1>1 DEF ProducerInv
      <4>4. produced[t] <= p
        BY <1>2, <4>3
      <4>5. p <= (At(t) + 1) * CyclesPerCircuit[t]
        BY <2>1
      <4> QED BY <1>1, <1>2, <1>3, <4>1, <4>2, <4>4, <4>5, OthersIssued
    <3>2. <<t, At(t)>> \in KeysIn(results', "TracingData")
      <4>1. m.key \in KeysIn(results', m.type)
        BY <1>4, <1>6, <2>1, SentIsOnTheWay
      <4> QED BY <1>6, <4>1
    <3> QED BY <3>1, <3>2
  <2>2. CASE /\ p < (At(t) + 1) * CyclesPerCircuit[t]
             /\ UNCHANGED results
             /\ chunks' = [chunks EXCEPT ![t] = n]
    <3>1. PICK w \in Nat : w = produced[t]
      BY <1>1 DEF ProducerInv
    <3>2. produced[t] <= p
      BY <1>2, <3>1
    <3>3. PICK e \in Nat : e = (At(t) + 1) * CyclesPerCircuit[t]
      <4>1. PICK c \in Nat \ {0}, a \in Nat : c = CyclesPerCircuit[t] /\ a = At(t)
        BY <1>5, RunShape
      <4>2. (a + 1) * c \in Nat
        BY Multiples
      <4> QED BY <4>1, <4>2
    <3>4. p <= (At(t) + 1) * CyclesPerCircuit[t]
      BY <2>2, <3>3
    <3> QED BY <1>1, <1>2, <1>3, <2>2, <3>2, <3>4, OthersIssued
  <2> QED BY <1>2, <2>1, <2>2
<1>10. NewInits /\ Producing' /\ ~SimulatorOver'
  BY <1>3 DEF NewInits, Producing, SimulatorOver
<1>11. CompleteInv'
  BY <1>7, <1>8, <1>9, <1>10, TaskKeepsComplete
<1> QED BY <1>8, <1>11

\* The data of an incomplete circuit is sent.
LEMMA FinalizeCount ==
  ASSUME DataInv, CountInv, CompleteInv, UNCHANGED clientVars, FinalizeProducer
  PROVE  CountInv' /\ CompleteInv'
<1>1. ProducerInv
  BY DEF DataInv
<1>2. PICK t : t = Types[Min(Partial)]
  OBVIOUS
<1>3. t \in Families
  <2>1. Partial \subseteq DOMAIN Types /\ Partial # {}
    BY DEF Partial, FinalizeProducer
  <2> QED BY <1>2, <2>1, ChosenType DEF Partial
<1>4. PICK m : m = TracingData(<<t, At(t)>>, chunks[t], participating[t])
  OBVIOUS
<1>5. /\ Send(m) /\ chunks' = [chunks EXCEPT ![t] = 0]
      /\ simulator = "finalize" /\ simulator' = "finalize"
      /\ UNCHANGED <<produced, inits_index, abort>>
  BY <1>2, <1>4 DEF FinalizeProducer, At, sharedVars
<1>6. At(t) \in Nat
  BY <1>1, <1>3, RunShape, Division DEF At, ProducerInv
<1>7. m \in Messages /\ m.type = "TracingData" /\ m.key = <<t, At(t)>>
  <2>1. chunks[t] \in Nat /\ participating[t] \in SUBSET Nat
    BY <1>1, <1>3 DEF ProducerInv
  <2> QED BY <1>3, <1>4, <1>6, <2>1 DEF TracingData, TracingMessages, Messages
<1>8. SendsData
  BY <1>5, <1>7, SimulatorSends
<1>9. CountInv' /\ Downstream' = Downstream
  <2>1. \A s \in Families : produced'[s] <= Rows(s, Len(Run))
    BY <1>5 DEF CountInv
  <2> QED BY <1>5, <1>8, <2>1, TaskKeepsCount DEF SendsData
<1>10. NewlyIssued
  <2> SUFFICES ASSUME NEW k \in Keys, Issued(k)'
               PROVE  Issued(k) \/ k \in KeysIn(results', "TracingData")
    BY DEF NewlyIssued
  <2>1. PICK p \in Nat : p = produced[t]
    BY <1>1, <1>3 DEF ProducerInv
  <2>2. PICK z \in Nat : z = 0
    OBVIOUS
  <2>3. produced' = [produced EXCEPT ![t] = p] /\ chunks' = [chunks EXCEPT ![t] = z]
    BY <1>1, <1>5, <2>1, <2>2 DEF ProducerInv
  <2>4. p <= (At(t) + 1) * CyclesPerCircuit[t]
    <3>1. PICK c \in Nat \ {0} : c = CyclesPerCircuit[t]
      BY <1>3, RunShape
    <3>2. p < (p \div c + 1) * c /\ (p \div c + 1) * c = (p \div c) * c + c /\ (p \div c) * c \in Nat
      BY <3>1, Division
    <3>3. p <= (p \div c + 1) * c
      BY <3>2
    <3> QED BY <2>1, <3>1, <3>3 DEF At
  <2>5. produced[t] <= p
    BY <2>1
  <2>6. Issued(k) \/ k = <<t, At(t)>>
    BY <1>1, <1>3, <1>5, <2>2, <2>3, <2>4, <2>5, OthersIssued
  <2>7. <<t, At(t)>> \in KeysIn(results', "TracingData")
    <3>1. m.key \in KeysIn(results', m.type)
      BY <1>5, <1>7, SentIsOnTheWay
    <3> QED BY <1>7, <3>1
  <2> QED BY <2>6, <2>7
<1>11. NewInits
  BY <1>5 DEF NewInits
<1>12. CompleteInv'
  <2>1. /\ ~Producing' => ~Producing
        /\ ~SimulatorOver'
    BY <1>5 DEF Producing, SimulatorOver
  <2>2. main = "loop" /\ ~abort_signaled /\ ~Producing' =>
          \A s \in Families : produced'[s] = Rows(s, Len(Run))
    BY <1>5, <2>1 DEF CompleteInv
  <2> QED BY <1>8, <1>9, <1>10, <1>11, <2>1, <2>2, TaskKeepsComplete
<1> QED BY <1>9, <1>12

\* Inits and teardowns are sent.
LEMMA SendInitsCount ==
  ASSUME DataInv, CountInv, CompleteInv, UNCHANGED clientVars, SendEmptyInits \/ SendInits
  PROVE  CountInv' /\ CompleteInv'
<1>1. ProducerInv /\ inits_index \in Nat /\ inits_chunks \in Nat
  BY DEF DataInv, ProducerInv
<1>2. PICK n \in Nat : Send(InitsAndTeardownsData(inits_index, n))
  BY <1>1 DEF SendEmptyInits, SendInits
<1>3. PICK m : m = InitsAndTeardownsData(inits_index, n)
  OBVIOUS
<1>4. /\ simulator = "inits" /\ UNCHANGED <<simulator, produced, chunks, abort>>
      /\ inits_index' = inits_index + 1 /\ Send(m)
  BY <1>2, <1>3 DEF SendEmptyInits, SendInits, producerVars, sharedVars
<1>5. m \in Messages /\ m.type = "InitsAndTeardownsData" /\ m.key = <<InitsCircuit, inits_index>>
  BY <1>1, <1>3 DEF InitsAndTeardownsData, InitsMessages, Messages
<1>6. SendsData
  BY <1>4, <1>5, SimulatorSends
<1>7. CountInv' /\ Downstream' = Downstream
  <2>1. \A s \in Families : produced'[s] <= Rows(s, Len(Run))
    BY <1>4 DEF CountInv
  <2> QED BY <1>4, <1>6, <2>1, TaskKeepsCount DEF SendsData
<1>8. <<InitsCircuit, inits_index>> \in KeysIn(results', "InitsAndTeardownsData")
  <2>1. m.key \in KeysIn(results', m.type)
    BY <1>4, <1>5, SentIsOnTheWay
  <2> QED BY <1>5, <2>1
<1>9. \A q \in Nat : q < inits_index' => q < inits_index \/ q = inits_index
  BY <1>1, <1>4
<1>10. NewInits
  BY <1>8, <1>9 DEF NewInits
<1>11. NewlyIssued
  <2> SUFFICES ASSUME NEW k \in Keys, Issued(k)'
               PROVE  Issued(k) \/ (~Unified /\ k = <<InitsCircuit, inits_index>>)
    BY <1>8 DEF NewlyIssued
  <2>1. CASE ~Unified /\ k \in {InitsCircuit} \X Nat /\ k[2] < inits_index'
    <3>1. PICK q \in Nat : k = <<InitsCircuit, q>>
      BY <2>1
    <3> QED BY <1>9, <2>1, <3>1 DEF Issued
  <2>2. CASE ~(~Unified /\ k \in {InitsCircuit} \X Nat /\ k[2] < inits_index')
    BY <1>4, <2>2 DEF Issued, At
  <2> QED BY <2>1, <2>2
<1>12. CompleteInv'
  <2>1. ~Producing /\ ~SimulatorOver'
    BY <1>4 DEF Producing, SimulatorOver
  <2>2. main = "loop" /\ ~abort_signaled /\ ~Producing' =>
          \A s \in Families : produced'[s] = Rows(s, Len(Run))
    BY <1>4, <2>1 DEF CompleteInv
  <2> QED BY <1>6, <1>7, <1>10, <1>11, <2>1, <2>2, TaskKeepsComplete
<1> QED BY <1>7, <1>12

\* A step of the simulator.
LEMMA SimulatorKeepsCount ==
  ASSUME StateInv, ControlInv, DataInv, CountInv, CompleteInv, Simulator, UNCHANGED clientVars
  PROVE  CountInv' /\ CompleteInv'
<1>0. main = "loop" /\ ~abort_signaled => ~abort /\ ~is_aborted
  BY DEF CountInv, ControlInv
<1>1. CASE ProcessTrace
  <2>1. /\ UNCHANGED <<produced, chunks, inits_index, abort>>
        /\ UNCHANGED results \/ Send(SnapshotProduced)
        /\ ~abort => Producing' /\ ~SimulatorOver'
        /\ ~SimulatorOver'
    BY <1>1 DEF ProcessTrace, producerVars, sharedVars, Producing, SimulatorOver
  <2> QED BY <1>0, <2>1, MoveCount
<1>2. CASE Reserve
  BY <1>2, ReserveCount
<1>3. CASE SendSnapshot
  <2>1. /\ UNCHANGED <<produced, chunks, inits_index, abort, results>>
        /\ Unfinished = {}
        /\ ~Producing' => snapshot_index = Len(Run)
        /\ ~SimulatorOver'
    BY <1>3 DEF SendSnapshot, producerVars, sharedVars, Producing, SimulatorOver
  <2>2. \A t \in Families : produced[t] = Rows(t, snapshot_index)
    BY <2>1 DEF Unfinished, Families, ToSet
  <2> QED BY <2>1, <2>2, MoveCount
<1>4. CASE ReceiveChunk \/ Finalized
  <2>1. /\ UNCHANGED <<produced, chunks, inits_index, abort, results>>
        /\ ~Producing' => ~Producing
        /\ ~SimulatorOver'
    BY <1>4 DEF ReceiveChunk, Finalized, producerVars, sharedVars, Producing, SimulatorOver
  <2>2. main = "loop" /\ ~abort_signaled /\ ~Producing' =>
          \A t \in Families : produced[t] = Rows(t, Len(Run))
    BY <2>1 DEF CompleteInv
  <2> QED BY <2>1, <2>2, MoveCount
<1>5. CASE FinishRun
  <2>1. /\ UNCHANGED <<produced, chunks, inits_index, abort, results>>
        /\ ~Producing
        /\ ~abort => ~SimulatorOver'
    BY <1>5 DEF FinishRun, producerVars, Producing, SimulatorOver
  <2>2. main = "loop" /\ ~abort_signaled => \A t \in Families : produced[t] = Rows(t, Len(Run))
    BY <2>1 DEF CompleteInv
  <2> QED BY <1>0, <2>1, <2>2, MoveCount
<1>6. CASE SendSimulationResult
  <2>1. /\ UNCHANGED <<produced, chunks, inits_index, abort>>
        /\ Send(SimulationResult) /\ ~Producing /\ inits_index = EmptyCircuits + Partitions
    BY <1>6 DEF SendSimulationResult, producerVars, sharedVars, Producing
  <2>2. main = "loop" /\ ~abort_signaled => \A t \in Families : produced[t] = Rows(t, Len(Run))
    BY <2>1 DEF CompleteInv
  <2> QED BY <2>1, <2>2, MoveCount
<1>7. CASE DropSender
  <2>1. /\ UNCHANGED <<produced, chunks, inits_index, abort, results>>
        /\ ~Producing /\ SimulatorOver
    BY <1>7 DEF DropSender, producerVars, sharedVars, Producing, SimulatorOver
  <2>2. main = "loop" /\ ~abort_signaled =>
          /\ \A t \in Families : produced[t] = Rows(t, Len(Run))
          /\ inits_index = EmptyCircuits + Partitions
    BY <2>1 DEF CompleteInv
  <2> QED BY <2>1, <2>2, MoveCount
<1>8. CASE FillInitsChunk
  <2>1. /\ UNCHANGED <<produced, chunks, inits_index, abort, results>>
        /\ ~Producing /\ ~SimulatorOver'
    BY <1>8 DEF FillInitsChunk, producerVars, Producing, SimulatorOver
  <2>2. main = "loop" /\ ~abort_signaled => \A t \in Families : produced[t] = Rows(t, Len(Run))
    BY <2>1 DEF CompleteInv
  <2> QED BY <2>1, <2>2, MoveCount
<1>9. CASE SendEmptyInits \/ SendInits
  BY <1>9, SendInitsCount
<1>10. CASE FinalizeProducer
  BY <1>10, FinalizeCount
<1> QED BY <1>1, <1>2, <1>3, <1>4, <1>5, <1>6, <1>7, <1>8, <1>9, <1>10 DEF Simulator

-----------------------------------------------------------------------------
(* The other steps. *)

\* A replayer reports what the loop counts no requests by.
LEMMA ReplayerKeepsCount ==
  ASSUME StateInv, DataInv, CountInv, CompleteInv, NEW r \in Replayers, Replayer(r),
         UNCHANGED clientVars
  PROVE  CountInv' /\ CompleteInv'
<1>1. UNCHANGED <<simulator, produced, chunks, inits_index>>
  BY ReplayerLeaves
<1>2. abort' = abort
  BY DEF Replayer, TakeSnapshot, FinishReplay, ReportSnapshot, FinishReplayer, sharedVars
<1>3. UNCHANGED results \/ \E m \in Messages : Send(m) /\ m.type # "GpuWorkResult"
  <2>1. CASE ReportSnapshot(r)
    <3>1. PICK m : m = SnapshotReplayed(replaying[r])
      OBVIOUS
    <3>2. Send(m) /\ replaying[r] \in Nat
      BY <2>1, <3>1 DEF ReportSnapshot, StateInv
    <3>3. m \in Messages /\ m.type = "SnapshotReplayed"
      BY <3>1, <3>2 DEF SnapshotReplayed, Messages, Reports
    <3> QED BY <3>2, <3>3
  <2>2. CASE ~ReportSnapshot(r)
    BY <2>2 DEF Replayer, TakeSnapshot, FinishReplay, FinishReplayer
  <2> QED BY <2>1, <2>2
<1>4. SendsData
  BY <1>3, SimulatorSends
<1>5. CountInv' /\ Downstream' = Downstream
  <2>1. \A t \in Families : produced'[t] <= Rows(t, Len(Run))
    BY <1>1 DEF CountInv
  <2> QED BY <1>2, <1>4, <2>1, TaskKeepsCount DEF SendsData
<1>6. NewlyIssued /\ NewInits
  BY <1>1 DEF NewlyIssued, NewInits, Issued, At
<1>7. main = "loop" /\ ~abort_signaled =>
           /\ ~Producing' => \A t \in Families : produced'[t] = Rows(t, Len(Run))
           /\ SimulatorOver' => inits_index' = EmptyCircuits + Partitions
  BY <1>1 DEF CompleteInv, Producing, SimulatorOver
<1> QED BY <1>4, <1>5, <1>6, <1>7, TaskKeepsComplete

\* An answer moves a circuit from the GPU side to the channel.
LEMMA AnswerKeepsCount ==
  ASSUME DataInv, CountInv, CompleteInv, NEW request \in gpu, Answer(request)
  PROVE  CountInv' /\ CompleteInv'
<1>1. PICK m : m = GpuWorkResult(request)
  OBVIOUS
<1>2. /\ Send(m) /\ gpu' = gpu \ {request}
      /\ UNCHANGED <<main, caching, proving, sent_requests_count, pending_requests_count,
                     requests_served_from_cache, abort_signaled, trivial, simulation_result,
                     uninitialized, unpaired_tracing, completed, entries, total_requests_count,
                     cached_trivial, abort, simulator, produced, chunks, inits_index>>
  BY <1>1 DEF Answer, requestVars, dataVars, resultVars, cacheVars, sharedVars, simulatorVars,
              producerVars
<1>3. m \in Messages /\ m.type = "GpuWorkResult" /\ m.key = request.key
  <2>1. request \in Requests
    BY DEF DataInv, DataType
  <2> QED BY <1>1, <2>1 DEF GpuWorkResult, Answers, Messages, Requests
<1>4. results' = Append(results, m) /\ results \in Seq(Messages)
  BY <1>2 DEF Send, DataInv, DataType
<1>5. \A type : KeysIn(results', type) = IF m.type = type THEN KeysIn(results, type) \cup {m.key}
                                         ELSE KeysIn(results, type)
  BY <1>3, <1>4, SendKeys
<1>6. /\ KeysIn(results', "GpuWorkResult") = KeysIn(results, "GpuWorkResult") \cup {request.key}
      /\ KeysIn(results', "TracingData") = KeysIn(results, "TracingData")
      /\ KeysIn(results', "InitsAndTeardownsData") = KeysIn(results, "InitsAndTeardownsData")
  BY <1>3, <1>5
<1>7. GpuKeys' \cup {request.key} = GpuKeys
  BY <1>2 DEF GpuKeys
<1>8. Downstream' = Downstream /\ Pending' = Pending
  BY <1>2, <1>6, <1>7 DEF Downstream, Pending
<1>9. Upstream' = Upstream
  BY <1>2, <1>6 DEF Upstream, UninitializedKeys, UnpairedKeys
<1>10. CountInv'
  BY <1>2, <1>8 DEF CountInv
<1>11. CompleteInv'
  BY <1>2, <1>6, <1>8, <1>9 DEF CompleteInv, Producing, SimulatorOver, Issued, At
<1> QED BY <1>10, <1>11

\* The entries of the cache are as many as their circuits.
LEMMA EntriesCount ==
  ASSUME DataInv
  PROVE  Cardinality(EntryKeys) = Len(entries)
<1>1. entries \in Seq(Requests) /\ \A i, j \in DOMAIN entries : i # j => entries[i].key # entries[j].key
  BY DEF DataInv, DataType, KeyInv
<1>2. PICK n \in Nat : n = Len(entries) /\ DOMAIN entries = 1..n
  BY <1>1
<1>3. PICK S : S = 1..n
  OBVIOUS
<1>4. PICK f : f = [i \in S |-> entries[i].key]
  OBVIOUS
<1>5. f \in Bijection(S, EntryKeys)
  <2>1. f \in [S -> EntryKeys]
    BY <1>2, <1>3, <1>4 DEF EntryKeys, ToSet
  <2>2. \A i, j \in S : f[i] = f[j] => i = j
    BY <1>1, <1>2, <1>3, <1>4
  <2>3. \A k \in EntryKeys : \E i \in S : f[i] = k
    BY <1>2, <1>3, <1>4 DEF EntryKeys, ToSet
  <2>4. f \in Injection(S, EntryKeys)
    BY <2>1, <2>2 DEF Injection, IsInjective
  <2>5. f \in Surjection(S, EntryKeys)
    BY <2>1, <2>3 DEF Surjection
  <2> QED BY <2>4, <2>5 DEF Bijection
<1>6. IsFiniteSet(S) /\ Cardinality(S) = n
  BY <1>3, FS_Interval
<1>7. PICK K : K = EntryKeys
  OBVIOUS
<1>8. f \in Injection(S, K) /\ f \in Surjection(S, K)
  BY <1>5, <1>7 DEF Bijection
<1>9. Cardinality(K) = Cardinality(S)
  BY <1>6, <1>8, FS_Surjection
<1> QED BY <1>2, <1>6, <1>7, <1>9

\* The start of a call.
LEMMA BeginKeepsCount ==
  ASSUME StateInv, ControlInv, DataInv, CountInv, main \in {"start", "committed"},
         NEW all_sent \in BOOLEAN, Begin(entries, all_sent),
         all_sent => Len(entries) = total_requests_count /\ main = "committed",
         main = "start" => UNCHANGED <<caching, proving, trivial>>,
         main = "committed" => caching' /\ proving' /\ trivial' = cached_trivial
  PROVE  CountInv' /\ CompleteInv'
<1>1. /\ main' = "loop" /\ gpu' = ToSet(entries)
      /\ sent_requests_count' = Len(entries) /\ pending_requests_count' = Len(entries)
      /\ requests_served_from_cache' = EntryKeys
      /\ simulation_result' = all_sent /\ abort_signaled' = all_sent
      /\ completed' = {} /\ entries' = <<>>
      /\ UNCHANGED <<total_requests_count, cached_trivial, results>>
  BY DEF Begin, EntryKeys
<1>2. results' = <<>>
  BY <1>1 DEF ControlInv
<1>3. KeysIn(results', "GpuWorkResult") = {} /\ GpuKeys' = EntryKeys
  BY <1>1, <1>2, NothingOnTheWay DEF GpuKeys, EntryKeys
<1>4. Downstream' = EntryKeys /\ Pending' = EntryKeys
  BY <1>1, <1>3 DEF Downstream, Pending
<1>5. EntryKeys \subseteq AllKeys /\ Cardinality(EntryKeys) = Len(entries)
  BY EntriesCount DEF DataInv, KeyInv, CountInv, Downstream
<1>6. main = "start" => EntryKeys = {}
  <2>1. main = "start" => ToSet(entries) = {}
    BY NothingOnTheWay DEF DataInv, KeyInv
  <2> QED BY <2>1 DEF EntryKeys
<1>7. \/ ~all_sent /\ Spawn
      \/ all_sent /\ UNCHANGED produced
  BY DEF Begin, simulatorVars, producerVars
<1>8. ASSUME NEW t \in Families PROVE produced'[t] <= Rows(t, Len(Run))
  <2>1. CASE Spawn
    <3>1. produced'[t] = 0
      BY <2>1 DEF Spawn, NoRows, Families
    <3>2. Rows(t, Len(Run)) \in Nat
      BY RunShape, RowsType
    <3> QED BY <3>1, <3>2
  <2>2. CASE UNCHANGED produced
    BY <2>2 DEF CountInv
  <2> QED BY <1>7, <2>1, <2>2
<1>9. abort' => all_sent
  BY <1>7 DEF Spawn
<1>10. all_sent => EntryKeys = AllKeys
  <2>1. all_sent => total_requests_count = Cardinality(AllKeys)
    BY DEF CountInv
  <2> QED BY <1>5, <2>1, AllCounted
<1>11. caching' /\ proving' =>
         /\ total_requests_count = Cardinality(AllKeys) /\ cached_trivial = EmptyCircuits
         /\ trivial' = EmptyCircuits
  BY DEF CountInv
<1>12. CountInv'
  <2>1. abort_signaled' => simulation_result' /\ Downstream' = AllKeys /\ caching' /\ proving'
    BY <1>1, <1>4, <1>10
  <2>2. requests_served_from_cache' # {} => caching' /\ proving'
    BY <1>1, <1>6
  <2>3. total_requests_count' \in {0, Cardinality(AllKeys)}
    BY <1>1 DEF CountInv
  <2> QED BY <1>1, <1>4, <1>5, <1>8, <1>9, <1>11, <2>1, <2>2, <2>3 DEF CountInv
<1>13. CompleteInv'
  <2> SUFFICES ASSUME ~abort_signaled' PROVE CompleteInv'
    BY DEF CompleteInv
  <2>1. Spawn
    BY <1>1, <1>7
  <2>2. /\ simulator' = "run" /\ inits_index' = 0 /\ produced' = [t \in Families |-> 0]
    BY <2>1 DEF Spawn, NoRows, Families
  <2>3. Producing' /\ ~SimulatorOver'
    BY <2>2 DEF Producing, SimulatorOver
  <2>4. ASSUME NEW k \in Keys, Issued(k)' PROVE FALSE
    <3>1. CASE ~Unified /\ k \in {InitsCircuit} \X Nat /\ k[2] < inits_index'
      BY <2>2, <3>1
    <3>2. CASE k \in Families \X Nat /\ k[2] * CyclesPerCircuit[k[1]] < produced'[k[1]]
      <4>1. PICK t \in Families, q \in Nat : k = <<t, q>>
        BY <3>2
      <4>2. PICK x \in Nat : x = q * CyclesPerCircuit[t]
        <5>1. PICK c \in Nat \ {0} : c = CyclesPerCircuit[t]
          BY RunShape
        <5>2. q * c \in Nat
          BY Multiples
        <5> QED BY <5>1, <5>2
      <4>3. x < 0
        BY <2>2, <3>2, <4>1, <4>2
      <4> QED BY <4>3
    <3> QED BY <2>4, <3>1, <3>2 DEF Issued
  <2>5. \A q \in Nat : ~(q < inits_index')
    BY <2>2
  <2> QED BY <2>3, <2>4, <2>5 DEF CompleteInv
<1> QED BY <1>12, <1>13

\* The end of a call: all circuits are done.
LEMMA ReturnKeepsCount ==
  ASSUME DataInv, CountInv, CompleteInv, Return
  PROVE  CountInv' /\ CompleteInv'
<1>1. /\ main = "loop" /\ results = <<>> /\ ~gpu_work_requests_sender /\ gpu = {}
      /\ main' = (IF caching /\ ~proving THEN "committed" ELSE "done")
      /\ IF caching /\ ~proving
         THEN total_requests_count' = sent_requests_count /\ cached_trivial' = trivial
         ELSE UNCHANGED <<total_requests_count, cached_trivial>>
      /\ UNCHANGED <<caching, proving, gpu, sent_requests_count, requests_served_from_cache,
                     abort_signaled, trivial, simulation_result, pending_requests_count,
                     completed, entries, results, produced, abort>>
  BY DEF Return, Disconnected, requestVars, resultVars, simulatorVars, producerVars
<1>2. \A type : KeysIn(results, type) = {}
  BY <1>1, NothingOnTheWay
<1>3. Downstream = completed /\ Downstream' = Downstream /\ Pending' = Pending
  BY <1>1, <1>2 DEF Downstream, Pending, GpuKeys
<1>4. ASSUME ~abort_signaled
      PROVE  SimulatorOver /\ inits_index = EmptyCircuits + Partitions /\ completed = AllKeys
  <2>1. SimulatorOver /\ Upstream = {}
    BY <1>1, <1>4, NothingUpstream DEF DataInv, OrderInv
  <2>2. /\ ProducerInv /\ \A t \in Families : produced[t] = Rows(t, Len(Run))
        /\ inits_index = EmptyCircuits + Partitions
    <3>1. ~Producing
      BY <2>1 DEF SimulatorOver, Producing
    <3> QED BY <1>1, <1>4, <2>1, <3>1 DEF CompleteInv, DataInv
  <2>3. \A t \in Families : chunks[t] = 0
    BY <2>1 DEF DataInv, ProducerInv, SimulatorOver
  <2>4. \A k \in AllKeys : Issued(k)
    BY <2>2, <2>3, CircuitIsIssued
  <2>5. AllKeys \subseteq completed
    BY <1>1, <1>3, <1>4, <2>1, <2>4, AllKeysType DEF CompleteInv
  <2> QED BY <1>3, <2>1, <2>2, <2>5 DEF CountInv
<1>5. completed = AllKeys
  BY <1>3, <1>4 DEF CountInv
<1>6. caching /\ ~proving => sent_requests_count = Cardinality(AllKeys) /\ trivial = EmptyCircuits
  <2> SUFFICES ASSUME caching, ~proving
               PROVE  sent_requests_count = Cardinality(AllKeys) /\ trivial = EmptyCircuits
    OBVIOUS
  <2>1. sent_requests_count = Cardinality(AllKeys)
    BY <1>3, <1>5 DEF CountInv
  <2>2. ~abort_signaled
    BY DEF CountInv
  <2>3. PICK t \in Nat, e \in Nat, p \in Nat : t = trivial /\ e = EmptyCircuits /\ p = Partitions
    BY EmptyType DEF DataInv, DataType
  <2>4. t <= e
    BY <2>3 DEF DataInv, InitsInv
  <2>5. ASSUME t < e PROVE FALSE
    <3>1. Unified
      BY <2>3, <2>5, NoEmptyCircuits
    <3>2. t < inits_index
      BY <1>4, <2>2, <2>3, <2>5
    <3>3. t < trivial \/ <<InitsCircuit, t>> \in KeysIn(results, "InitsAndTeardownsData")
      BY <1>1, <2>2, <2>3, <2>5, <3>1, <3>2 DEF CompleteInv
    <3> QED BY <1>2, <2>3, <3>3
  <2> QED BY <2>1, <2>3, <2>4, <2>5
<1>7. CountInv'
  <2>1. main' \in {"committed", "done"} /\ (main' = "committed" => caching /\ ~proving)
    BY <1>1
  <2>2. total_requests_count' \in {0, Cardinality(AllKeys)}
    BY <1>1, <1>6 DEF CountInv
  <2>3. main' = "committed" \/ (caching' /\ proving') =>
          total_requests_count' = Cardinality(AllKeys) /\ cached_trivial' = EmptyCircuits
    BY <1>1, <1>6, <2>1 DEF CountInv
  <2>4. /\ sent_requests_count' = Cardinality(Downstream')
        /\ pending_requests_count' = Cardinality(Pending')
        /\ requests_served_from_cache' \subseteq Downstream' /\ Downstream' \subseteq AllKeys
        /\ \A t \in Families : produced'[t] <= Rows(t, Len(Run))
        /\ abort_signaled' => simulation_result' /\ Downstream' = AllKeys /\ caching' /\ proving'
        /\ requests_served_from_cache' # {} => caching' /\ proving'
        /\ caching' /\ proving' => trivial' = EmptyCircuits
        /\ proving' => entries' = <<>>
    BY <1>1, <1>3 DEF CountInv
  <2> QED BY <1>1, <1>5, <2>1, <2>2, <2>3, <2>4 DEF CountInv
<1>8. CompleteInv'
  BY <1>1 DEF CompleteInv
<1> QED BY <1>7, <1>8

-----------------------------------------------------------------------------
(* Every step keeps the count. *)

\* Nothing happens to what is counted.
LEMMA IdleKeepsCount ==
  ASSUME CountInv, CompleteInv,
         UNCHANGED <<caching, proving, gpu, requestVars, dataVars, resultVars, cacheVars, cpuVars>>,
         main' = main \/ main' = "source_shared"
  PROVE  CountInv' /\ CompleteInv'
<1>1. /\ UNCHANGED <<caching, proving, gpu, gpu_work_requests_sender, sent_requests_count,
                     pending_requests_count, requests_served_from_cache, trivial>>
      /\ UNCHANGED <<simulation_result, abort_signaled, uninitialized, unpaired_inits,
                     unpaired_tracing, completed, entries, total_requests_count, cached_trivial>>
      /\ UNCHANGED <<results, abort, simulator, produced, chunks, inits_index>>
  BY DEF requestVars, dataVars, resultVars, cacheVars, cpuVars, sharedVars, simulatorVars,
     producerVars
<1>2. Downstream' = Downstream /\ Pending' = Pending
  BY <1>1 DEF Downstream, Pending, GpuKeys
<1>3. Upstream' = Upstream
  BY <1>1 DEF Upstream, UninitializedKeys, UnpairedKeys
<1>4. CountInv'
  BY <1>1, <1>2 DEF CountInv
<1>5. \A k \in Keys : Issued(k)' => Issued(k)
  BY <1>1 DEF Issued, At
<1>6. CompleteInv'
  <2> SUFFICES ASSUME main' = "loop", ~abort_signaled' PROVE CompleteInv'
    BY DEF CompleteInv
  <2>1. main = "loop" /\ ~abort_signaled
    BY <1>1
  <2>2. Producing' = Producing /\ SimulatorOver' = SimulatorOver
    BY <1>1 DEF Producing, SimulatorOver
  <2> QED BY <1>1, <1>2, <1>3, <1>5, <2>1, <2>2 DEF CompleteInv
<1> QED BY <1>4, <1>6

\* The first call starts ...
LEMMA StartKeepsCount ==
  ASSUME Inv, DataInv, CountInv, Start
  PROVE  CountInv' /\ CompleteInv'
<1>1. main = "start" /\ Begin(<<>>, FALSE) /\ UNCHANGED <<caching, proving, trivial>>
  BY DEF Start
<1>2. Begin(entries, FALSE)
  BY <1>1 DEF DataInv, KeyInv
<1> QED BY <1>1, <1>2, BeginKeepsCount DEF Inv

\* ... and goes on to prove.
LEMMA ProveKeepsCount ==
  ASSUME Inv, DataInv, CountInv, Prove
  PROVE  CountInv' /\ CompleteInv'
<1>1. /\ main = "committed" /\ proving' = TRUE /\ UNCHANGED caching /\ trivial' = cached_trivial
      /\ Begin(entries, AllSent(Len(entries)))
  BY DEF Prove
<1>2. PICK all_sent \in BOOLEAN : all_sent = AllSent(Len(entries))
  BY DEF AllSent
<1>3. Begin(entries, all_sent) /\ (all_sent => Len(entries) = total_requests_count)
  BY <1>1, <1>2 DEF AllSent
<1>4. caching' /\ proving'
  BY <1>1 DEF DataInv, KeyInv
<1> QED BY <1>1, <1>3, <1>4, BeginKeepsCount DEF Inv

\* Every step of the loop.
LEMMA LoopKeepsCount ==
  ASSUME Inv, DataInv, DataInv', CountInv, CompleteInv, Loop
  PROVE  CountInv' /\ CompleteInv'
<1>1. StateInv
  BY DEF Inv
<1>2. CASE HandleSnapshotProduced
  BY <1>1, <1>2, SnapshotProducedCount
<1>3. CASE HandleInits
  BY <1>1, <1>3, InitsCount
<1>4. CASE HandleUnifiedInits
  BY <1>1, <1>4, UnifiedInitsCount
<1>5. CASE HandleTracingData
  BY <1>1, <1>5, TracingDataCount
<1>6. CASE HandleSnapshotReplayed
  BY <1>1, <1>6, SnapshotReplayedCount
<1>7. CASE HandleSimulationResult
  BY <1>1, <1>7, SimulationResultCount
<1>8. CASE HandleGpuWorkResult
  BY <1>1, <1>8, GpuWorkResultCount
<1>9. CASE Return
  BY <1>9, ReturnKeepsCount
<1> QED BY <1>2, <1>3, <1>4, <1>5, <1>6, <1>7, <1>8, <1>9 DEF Loop

\* Every step.
LEMMA NextKeepsCount ==
  ASSUME Inv, DataInv, DataInv', CountInv, CompleteInv, [Next]_vars
  PROVE  CountInv' /\ CompleteInv'
<1>1. CASE Start
  BY <1>1, StartKeepsCount
<1>2. CASE Prove
  BY <1>2, ProveKeepsCount
<1>3. CASE SourceShared
  BY <1>3, IdleKeepsCount DEF SourceShared
<1>4. CASE Loop
  BY <1>4, LoopKeepsCount
<1>5. CASE Simulator /\ UNCHANGED clientVars
  BY <1>5, SimulatorKeepsCount DEF Inv
<1>6. ASSUME NEW r \in Replayers, Replayer(r), UNCHANGED clientVars
      PROVE  CountInv' /\ CompleteInv'
  BY <1>6, ReplayerKeepsCount DEF Inv
<1>7. ASSUME NEW request \in gpu, Answer(request)
      PROVE  CountInv' /\ CompleteInv'
  BY <1>7, AnswerKeepsCount
<1>8. CASE UNCHANGED vars
  <2>1. /\ main' = main
        /\ UNCHANGED <<caching, proving, gpu, requestVars, dataVars, resultVars, cacheVars, cpuVars>>
    BY <1>8 DEF vars
  <2> QED BY <2>1, IdleKeepsCount
<1> QED BY <1>1, <1>2, <1>3, <1>4, <1>5, <1>6, <1>7, <1>8 DEF Next, GetResult, CpuWorkers, Finished

\* It holds at first.
LEMMA InitCounts == Init => CountInv /\ CompleteInv
<1> SUFFICES ASSUME Init PROVE CountInv /\ CompleteInv
  OBVIOUS
<1>1. /\ main = "start" /\ caching \in BOOLEAN /\ proving \in BOOLEAN /\ gpu = {}
      /\ (caching => ~proving) /\ sent_requests_count = 0 /\ pending_requests_count = 0
      /\ requests_served_from_cache = {} /\ abort_signaled = FALSE
      /\ completed = {} /\ entries = <<>> /\ total_requests_count = 0
  BY DEF Init
<1>2. results = <<>> /\ produced = NoRows
  BY DEF Init, CpuInit
<1>3. KeysIn(results, "GpuWorkResult") = {}
  BY <1>2, NothingOnTheWay
<1>4. Downstream = {} /\ Pending = {}
  BY <1>1, <1>3 DEF Downstream, Pending, GpuKeys
<1>5. Cardinality(Downstream) = 0 /\ Cardinality(Pending) = 0
  BY <1>4, FS_EmptySet
<1>6. ASSUME NEW t \in Families PROVE produced[t] <= Rows(t, Len(Run))
  <2>1. produced[t] = 0 /\ Rows(t, Len(Run)) \in Nat
    BY <1>2, RunShape, RowsType DEF NoRows, Families
  <2> QED BY <2>1
<1>7. CountInv
  BY <1>1, <1>4, <1>5, <1>6 DEF CountInv
<1>8. CompleteInv
  BY <1>1 DEF CompleteInv
<1> QED BY <1>7, <1>8

-----------------------------------------------------------------------------
(* The asserts of the loop. *)

\* The message that is received next is one of the channel's.
LEMMA NextMessage ==
  ASSUME DataInv, results # <<>>
  PROVE  /\ Head(results).type = "SnapshotReplayed" => Head(results).index \in IndexesIn(results)
         /\ \A type : Head(results).type = type => Head(results).key \in KeysIn(results, type)
         /\ 1 \in DOMAIN results /\ Head(results) = results[1]
<1>1. results \in Seq(Messages)
  BY DEF DataInv, DataType
<1>2. 1 \in DOMAIN results /\ Head(results) = results[1]
  BY <1>1
<1> QED BY <1>2 DEF KeysIn, IndexesIn

\* No answer too many, and none twice.
LEMMA AnswerIsAwaited ==
  ASSUME DataInv, CountInv, Message("GpuWorkResult")
  PROVE  pending_requests_count # 0 /\ Head(results).key \notin completed
<1>1. PICK k : k = Head(results).key
  OBVIOUS
<1>2. k \in KeysIn(results, "GpuWorkResult")
  BY <1>1, NextMessage DEF Message
<1>3. k \notin completed
  BY <1>2 DEF DataInv, KeyInv, Apart
<1>4. PICK P : P = Pending
  OBVIOUS
<1>5. IsFiniteSet(P) /\ P # {}
  BY <1>2, <1>4, PlacesFinite DEF Pending
<1>6. Cardinality(P) # 0
  BY <1>5, FS_EmptySet
<1> QED BY <1>1, <1>3, <1>4, <1>6 DEF CountInv

\* No snapshot is reported twice, no circuit traced twice.
LEMMA ReportedOnce ==
  ASSUME DataInv
  PROVE  /\ Message("SnapshotReplayed") => Head(results).index \notin processed
         /\ Message("TracingData") =>
              LET key == Head(results).key
              IN  /\ \A data \in uninitialized : data.key # key
                  /\ key[1] = "Unified" => key[2] \notin DOMAIN unpaired_tracing
<1>1. ASSUME Message("SnapshotReplayed") PROVE Head(results).index \notin processed
  BY <1>1, NextMessage DEF Message, DataInv, ReportInv, Apart
<1>2. ASSUME Message("TracingData")
      PROVE  /\ \A data \in uninitialized : data.key # Head(results).key
             /\ Head(results).key[1] = "Unified" =>
                  Head(results).key[2] \notin DOMAIN unpaired_tracing
  <2>1. PICK k : k = Head(results).key
    OBVIOUS
  <2>2. k \in KeysIn(results, "TracingData")
    BY <1>2, <2>1, NextMessage DEF Message
  <2>3. k \notin UninitializedKeys /\ k \notin UnpairedKeys
    BY <2>2 DEF DataInv, KeyInv, Apart
  <2>4. Head(results) \in TracingMessages
    BY <1>2, MessageIs, MessageKinds
  <2>5. PICK t \in Families, q \in Nat : k = <<t, q>>
    BY <2>1, <2>4 DEF TracingMessages
  <2>6. \A data \in uninitialized : data.key # k
    BY <2>3 DEF UninitializedKeys
  <2>7. k[1] = "Unified" => k[2] \notin DOMAIN unpaired_tracing
    BY <2>3, <2>5 DEF UnpairedKeys
  <2> QED BY <2>1, <2>6, <2>7
<1> QED BY <1>1, <1>2

\* No inits and teardowns twice, none for a circuit known to have none.
LEMMA InitsAreAwaited ==
  ASSUME DataInv, CountInv, Message("InitsAndTeardownsData")
  PROVE  LET q == Head(results).key[2]
             n == Head(results).chunks
         IN  IF proving /\ caching
             THEN IF q < trivial THEN n = 0 ELSE n # 0 /\ q \notin DOMAIN unpaired_inits
             ELSE (q < trivial => n = 0) /\ q \notin DOMAIN unpaired_inits
<1>1. Head(results) \in InitsMessages /\ Head(results).type = "InitsAndTeardownsData"
  BY MessageIs, MessageKinds
<1>2. PICK q \in Nat, n \in Nat : Head(results).key = <<InitsCircuit, q>> /\ Head(results).chunks = n
  BY <1>1 DEF InitsMessages
<1>3. q = Head(results).key[2]
  BY <1>2
<1>4. PICK e \in Nat, t \in Nat : e = EmptyCircuits /\ t = trivial
  BY EmptyType DEF DataInv, DataType
<1>5. n = 0 <=> q < e
  <2>1. 1 \in DOMAIN results /\ results[1] = Head(results)
    BY NextMessage DEF Message
  <2>2. results[1].chunks = 0 <=> results[1].key[2] < EmptyCircuits
    BY <1>1, <2>1 DEF DataInv, InitsInv
  <2> QED BY <1>2, <1>3, <1>4, <2>1, <2>2
<1>6. t <= e /\ (proving /\ caching => t = e)
  BY <1>4 DEF DataInv, InitsInv, CountInv
<1>7. <<InitsCircuit, q>> \in KeysIn(results, "InitsAndTeardownsData")
  BY <1>1, <1>2, NextMessage DEF Message
<1>8. q \in DOMAIN unpaired_inits => caching /\ proving /\ q < t
  BY <1>4, <1>7 DEF DataInv, KeyInv
<1>9. /\ q < t => n = 0
      /\ proving /\ caching /\ ~(q < t) => n # 0
  BY <1>5, <1>6
<1>10. IF proving /\ caching
       THEN IF q < t THEN n = 0 ELSE n # 0 /\ q \notin DOMAIN unpaired_inits
       ELSE (q < t => n = 0) /\ q \notin DOMAIN unpaired_inits
  BY <1>8, <1>9
<1> QED BY <1>2, <1>3, <1>4, <1>10

\* Nothing is left at the end of a call.
LEMMA NothingIsLeft ==
  ASSUME DataInv, CountInv, Disconnected
  PROVE  /\ pending_requests_count = 0 /\ simulation_result
         /\ proving => entries = <<>>
         /\ ~abort_signaled => uninitialized = {} /\ unpaired_inits = NoData
                                 /\ unpaired_tracing = NoData
<1>1. main = "loop" /\ results = <<>> /\ gpu = {} /\ ~gpu_work_requests_sender
  BY DEF Disconnected
<1>2. KeysIn(results, "GpuWorkResult") = {}
  BY <1>1, NothingOnTheWay
<1>3. Pending = {}
  BY <1>1, <1>2 DEF Pending, GpuKeys
<1>4. pending_requests_count = 0
  BY <1>3, FS_EmptySet DEF CountInv
<1>5. simulation_result
  BY <1>1 DEF DataInv, OrderInv, CountInv
<1>6. ~abort_signaled => NothingWaits
  BY <1>1 DEF DataInv, OrderInv
<1> QED BY <1>4, <1>5, <1>6 DEF CountInv, NothingWaits

\* So the asserts hold.
LEMMA CountsAssert == DataInv /\ CountInv => AssertionsHold
<1> SUFFICES ASSUME DataInv, CountInv PROVE AssertionsHold
  OBVIOUS
<1>1. main # "panicked"
  BY DEF CountInv
<1>2. Message("GpuWorkResult") => pending_requests_count # 0 /\ Head(results).key \notin completed
  BY AnswerIsAwaited
<1> QED BY <1>1, <1>2, ReportedOnce, InitsAreAwaited, NothingIsLeft DEF AssertionsHold

\* The invariants of a call, for every run, every split into snapshots, any
\* number of replayers, and any number of allocators.
CallInv == Inv /\ DataInv /\ CountInv /\ CompleteInv

\* It holds in every state.
LEMMA CallInvHolds == Spec => []CallInv
<1>1. Init => Inv /\ TraceChunksConserved /\ DataInv /\ AllocatorsConserved /\ CountInv /\ CompleteInv
  BY InitHolds, InitHasData, InitCounts
<1>2. ASSUME Inv, TraceChunksConserved, DataInv, AllocatorsConserved, CountInv, CompleteInv,
             [Next]_vars
      PROVE  /\ Inv' /\ TraceChunksConserved' /\ DataInv' /\ AllocatorsConserved'
             /\ CountInv' /\ CompleteInv'
  <2>1. Inv' /\ TraceChunksConserved'
    BY <1>2, NextKeeps
  <2>2. DataInv' /\ AllocatorsConserved'
    BY <1>2, NextKeepsData
  <2>3. CountInv' /\ CompleteInv'
    BY <1>2, <2>2, NextKeepsCount
  <2> QED BY <2>1, <2>2, <2>3
<1>3. (Inv /\ DataInv /\ CountInv /\ CompleteInv) => CallInv
  BY DEF CallInv
<1> QED BY <1>1, <1>2, <1>3, PTL DEF Spec

\* A call of get_result that returns has the answer for every circuit of the
\* run, also when the proving call aborted its simulation and was served the
\* rest from the cache.  The counters that decide when to stop count circuits,
\* every circuit the simulator has issued is on its way or has reached the GPU
\* side, and the loop ends when nothing is on its way.
THEOREM CallsAreComplete == Spec => []CallComplete
<1>1. CallInv => CallComplete
  BY DEF CallInv, CountInv, CallComplete
<1> QED BY <1>1, CallInvHolds, PTL

\* The asserts and unwraps of get_result hold in every state: no request is
\* sent after the channel was closed, no answer is counted that is not awaited,
\* no circuit or snapshot comes twice, inits and teardowns come for the circuits
\* that have some, and a call that was not aborted leaves nothing behind.
THEOREM AssertionsAlwaysHold == Spec => []AssertionsHold
<1>1. CallInv => AssertionsHold
  BY CountsAssert DEF CallInv
<1> QED BY <1>1, CallInvHolds, PTL

-----------------------------------------------------------------------------
(* Types: what a snapshot's index and a producer's chunk can be. *)

\* What TypeOK says of the tasks, and why a message names a snapshot.
TypeInv ==
  /\ room \in [Families -> 0..ChunkCapacity]
  /\ participating \in [Families -> SUBSET DOMAIN Run]
  /\ \A t \in Families : chunks[t] # 0 => participating[t] # {}
  /\ snapshots \in Seq(DOMAIN Run)
  /\ replaying \in [Replayers -> {0} \cup DOMAIN Run]
  /\ \A r \in Replayers : replayer[r] \in {"replaying", "reporting"} => replaying[r] # 0
  /\ replayer_aborted \in [Replayers -> BOOLEAN]
  /\ simulator = "trace" => snapshot_index # 0
  /\ processed \subseteq DOMAIN Run
  /\ \A data \in uninitialized : data.snapshots # {}
  /\ main = "start" => simulator = "done" /\ free_trace_chunks = 0

\* The messages speak of snapshots.
SpeaksOfSnapshots(m) ==
  /\ m.type = "TracingData" => m.snapshots # {}
  /\ m.type = "SnapshotReplayed" => m.index \in DOMAIN Run

MessageInv == \A i \in DOMAIN results : SpeaksOfSnapshots(results[i])

\* A message is sent.
LEMMA SendKeepsMessages ==
  ASSUME DataType, MessageInv, NEW m \in Messages, Send(m), SpeaksOfSnapshots(m)
  PROVE  MessageInv'
<1>1. results \in Seq(Messages) /\ results' = Append(results, m)
  BY DEF DataType, Send
<1>2. \A i \in DOMAIN results' : results'[i] = m \/ (i \in DOMAIN results /\ results'[i] = results[i])
  BY <1>1
<1>3. \A i \in DOMAIN results' : SpeaksOfSnapshots(results'[i])
  BY <1>2 DEF MessageInv
<1> QED BY <1>3 DEF MessageInv, SpeaksOfSnapshots

\* A message is received.
LEMMA ReceiveKeepsMessages ==
  ASSUME DataType, MessageInv, results # <<>>, results' = Tail(results)
  PROVE  MessageInv' /\ SpeaksOfSnapshots(Head(results))
<1>1. /\ Head(results) = results[1] /\ 1 \in DOMAIN results
      /\ \A i \in DOMAIN results' : i + 1 \in DOMAIN results /\ results'[i] = results[i + 1]
  BY Shrunk DEF DataType
<1>2. \A i \in DOMAIN results' : SpeaksOfSnapshots(results'[i])
  BY <1>1 DEF MessageInv
<1> QED BY <1>1, <1>2 DEF MessageInv, SpeaksOfSnapshots

\* Nothing is sent or received.
LEMMA SameMessages ==
  ASSUME MessageInv, results' = results
  PROVE  MessageInv'
  BY DEF MessageInv, SpeaksOfSnapshots

\* The notices of the simulator.
LEMMA NoticesSpeak ==
  /\ SnapshotProduced \in Messages /\ SpeaksOfSnapshots(SnapshotProduced)
  /\ SimulationResult \in Messages /\ SpeaksOfSnapshots(SimulationResult)
  BY DEF SnapshotProduced, SimulationResult, Messages, Notices, SpeaksOfSnapshots

\* The circuit a producer is filling.
LEMMA AtType ==
  ASSUME ProducerInv, NEW t \in Families
  PROVE  At(t) \in Nat
<1>1. PICK a \in Nat, c \in Nat \ {0} : a = produced[t] /\ c = CyclesPerCircuit[t]
  BY RunShape DEF ProducerInv
<1>2. a \div c \in Nat
  BY Division
<1> QED BY <1>1, <1>2 DEF At

\* A round of process_snapshot.
LEMMA ReserveKeepsTypes ==
  ASSUME DataType, DataType', ProducerInv, TypeInv, MessageInv, Reserve, UNCHANGED clientVars
  PROVE  TypeInv' /\ MessageInv'
<1>1. /\ simulator = "trace" /\ free_allocators \in Nat
      /\ UNCHANGED <<main, processed, uninitialized, snapshots, free_trace_chunks, simulator,
                     snapshot_index, replayer, replaying, replayer_aborted>>
  BY DEF Reserve, DataType, clientVars, dataVars, replayerVars
<1>0. PICK t \in Families, p \in Nat, n \in Nat \ {0}, indexes \in SUBSET Nat :
         Reserves(t, p, n, indexes)
  BY <1>1, ReserveEffect
<1>2. /\ room' \in [Families -> Nat]
      /\ \A s \in Families : room'[s] <= room[s] \/ room'[s] <= ChunkCapacity
      /\ indexes = participating[t] \cup {snapshot_index}
      /\ \/ /\ Send(TracingData(<<t, At(t)>>, n, indexes))
            /\ chunks' = [chunks EXCEPT ![t] = 0]
            /\ participating' = [participating EXCEPT ![t] = {}]
         \/ /\ UNCHANGED results
            /\ chunks' = [chunks EXCEPT ![t] = n]
            /\ participating' = [participating EXCEPT ![t] = indexes]
  BY <1>0 DEF Reserves
<1>3. snapshot_index \in DOMAIN Run
  BY <1>1, RunShape DEF ProducerInv, TypeInv
<1>4. indexes \in SUBSET DOMAIN Run /\ indexes # {}
  BY <1>2, <1>3 DEF TypeInv
<1>5. room' \in [Families -> 0..ChunkCapacity]
  <2>1. \A s \in Families : room[s] \in 0..ChunkCapacity /\ room'[s] \in Nat
    BY <1>2 DEF TypeInv
  <2>2. \A s \in Families : room'[s] \in 0..ChunkCapacity
    BY <1>2, <2>1, SizesAssumption
  <2> QED BY <1>2, <2>2
<1>6. /\ participating' \in [Families -> SUBSET DOMAIN Run]
      /\ \A s \in Families : chunks'[s] # 0 => participating'[s] # {}
  <2>1. participating \in [Families -> SUBSET DOMAIN Run] /\ chunks \in [Families -> Nat]
    BY DEF TypeInv, ProducerInv
  <2> QED BY <1>2, <1>4, <2>1 DEF TypeInv
<1>7. TypeInv'
  BY <1>1, <1>5, <1>6 DEF TypeInv
<1>8. MessageInv'
  <2>1. CASE UNCHANGED results
    BY <2>1, SameMessages
  <2>2. CASE Send(TracingData(<<t, At(t)>>, n, indexes))
    <3>1. PICK m : m = TracingData(<<t, At(t)>>, n, indexes)
      OBVIOUS
    <3>2. At(t) \in Nat
      BY AtType
    <3>3. m \in Messages /\ SpeaksOfSnapshots(m)
      BY <1>4, <3>1, <3>2, RunShape DEF TracingData, Messages, TracingMessages, Keys, SpeaksOfSnapshots
    <3> QED BY <2>2, <3>1, <3>3, SendKeepsMessages
  <2> QED BY <1>2, <2>1, <2>2
<1> QED BY <1>7, <1>8

\* A producer sends off what it has.
LEMMA FinalizeKeepsTypes ==
  ASSUME DataType, ProducerInv, TypeInv, MessageInv, FinalizeProducer, UNCHANGED clientVars
  PROVE  TypeInv' /\ MessageInv'
<1>1. PICK t : t = Types[Min(Partial)]
  OBVIOUS
<1>2. /\ simulator = "finalize" /\ Partial # {}
      /\ UNCHANGED <<main, processed, uninitialized, snapshots, free_trace_chunks, simulator,
                     snapshot_index, replayer, replaying, replayer_aborted>>
      /\ Send(TracingData(<<t, At(t)>>, chunks[t], participating[t]))
      /\ chunks' = [chunks EXCEPT ![t] = 0]
      /\ room' = [room EXCEPT ![t] = 0]
      /\ participating' = [participating EXCEPT ![t] = {}]
  BY <1>1 DEF FinalizeProducer, clientVars, dataVars, replayerVars, At, sharedVars
<1>3. t \in Families /\ chunks[t] # 0
  <2>1. Partial \subseteq DOMAIN Types
    BY DEF Partial
  <2>2. t \in Families /\ Min(Partial) \in Partial
    BY <1>1, <1>2, <2>1, ChosenType
  <2>3. chunks[t] > 0 /\ chunks[t] \in Nat
    BY <1>1, <2>2 DEF Partial, ProducerInv
  <2> QED BY <2>2, <2>3
<1>4. PICK m : m = TracingData(<<t, At(t)>>, chunks[t], participating[t])
  OBVIOUS
<1>5. m \in Messages /\ SpeaksOfSnapshots(m)
  <2>1. At(t) \in Nat
    BY <1>3, AtType
  <2>2. participating[t] # {} /\ participating[t] \in SUBSET Nat /\ chunks[t] \in Nat
    BY <1>3 DEF TypeInv, ProducerInv
  <2> QED BY <1>3, <1>4, <2>1, <2>2 DEF TracingData, Messages, TracingMessages, SpeaksOfSnapshots
<1>6. MessageInv'
  BY <1>2, <1>4, <1>5, SendKeepsMessages
<1>7. /\ room' \in [Families -> 0..ChunkCapacity]
      /\ participating' \in [Families -> SUBSET DOMAIN Run]
      /\ \A s \in Families : chunks'[s] # 0 => participating'[s] # {}
  <2>1. /\ participating \in [Families -> SUBSET DOMAIN Run] /\ chunks \in [Families -> Nat]
        /\ room \in [Families -> 0..ChunkCapacity] /\ 0 \in 0..ChunkCapacity
    BY SizesAssumption DEF TypeInv, ProducerInv
  <2> QED BY <1>2, <1>3, <2>1 DEF TypeInv
<1>8. TypeInv'
  BY <1>2, <1>7 DEF TypeInv
<1> QED BY <1>6, <1>8

\* A step of the simulator.
LEMMA SimulatorKeepsTypes ==
  ASSUME DataType, DataType', ProducerInv, TypeInv, MessageInv, Simulator, UNCHANGED clientVars
  PROVE  TypeInv' /\ MessageInv'
<1>1. /\ UNCHANGED <<main, processed, uninitialized>>
      /\ main = "start" => simulator = "done"
  BY DEF clientVars, dataVars, TypeInv
<1>2. CASE Reserve
  BY <1>2, ReserveKeepsTypes
<1>3. CASE FinalizeProducer
  BY <1>3, FinalizeKeepsTypes
<1>4. ASSUME simulator # "done", UNCHANGED <<producerVars, replayerVars>>,
             snapshots' \in Seq(DOMAIN Run), simulator' = "trace" => snapshot_index' # 0
      PROVE  TypeInv'
  BY <1>1, <1>4 DEF TypeInv, producerVars, replayerVars
<1>5. snapshots \in Seq(DOMAIN Run) /\ snapshot_index \in Nat
  BY RunShape DEF TypeInv, ProducerInv
<1>6. CASE ProcessTrace
  <2>1. /\ simulator = "run" /\ snapshot_index' = snapshot_index + 1
        /\ UNCHANGED <<snapshots, producerVars, replayerVars>>
        /\ UNCHANGED results \/ Send(SnapshotProduced)
    BY <1>6 DEF ProcessTrace
  <2>2. snapshot_index' # 0
    BY <1>5, <2>1
  <2> QED BY <1>4, <1>5, <2>1, <2>2, NoticesSpeak, SendKeepsMessages, SameMessages
<1>7. CASE SendSnapshot
  <2>1. /\ simulator = "trace" /\ snapshots' = Append(snapshots, snapshot_index)
        /\ simulator' # "trace" /\ UNCHANGED <<results, producerVars, replayerVars>>
    BY <1>7 DEF SendSnapshot
  <2>2. snapshot_index \in DOMAIN Run
    BY <2>1, RunShape DEF ProducerInv, TypeInv
  <2>3. snapshots' \in Seq(DOMAIN Run)
    BY <1>5, <2>1, <2>2
  <2> QED BY <1>4, <2>1, <2>3, SameMessages
<1>8. CASE ReceiveChunk \/ Finalized \/ FinishRun \/ FillInitsChunk \/ DropSender
  <2>1. /\ simulator # "done" /\ simulator' # "trace"
        /\ UNCHANGED <<results, snapshots, producerVars, replayerVars>>
    BY <1>8 DEF ReceiveChunk, Finalized, FinishRun, FillInitsChunk, DropSender
  <2> QED BY <1>4, <1>5, <2>1, SameMessages
<1>9. CASE SendEmptyInits \/ SendInits
  <2>1. PICK n \in Nat :
          /\ simulator = "inits" /\ UNCHANGED <<simulator, snapshots, producerVars, replayerVars>>
          /\ Send(InitsAndTeardownsData(inits_index, n))
    BY <1>9 DEF SendEmptyInits, SendInits, ProducerInv
  <2>2. PICK m : m = InitsAndTeardownsData(inits_index, n)
    OBVIOUS
  <2>3. inits_index \in Nat
    BY DEF ProducerInv
  <2>4. m \in Messages /\ SpeaksOfSnapshots(m)
    BY <2>2, <2>3 DEF InitsAndTeardownsData, Messages, InitsMessages, SpeaksOfSnapshots
  <2> QED BY <1>4, <1>5, <2>1, <2>2, <2>4, SendKeepsMessages
<1>10. CASE SendSimulationResult
  <2>1. /\ simulator = "inits" /\ simulator' = "drop"
        /\ UNCHANGED <<snapshots, producerVars, replayerVars>> /\ Send(SimulationResult)
    BY <1>10 DEF SendSimulationResult
  <2> QED BY <1>4, <1>5, <2>1, NoticesSpeak, SendKeepsMessages
<1> QED BY <1>2, <1>3, <1>6, <1>7, <1>8, <1>9, <1>10 DEF Simulator

-----------------------------------------------------------------------------
(* The other steps. *)

\* A step of a replayer.
LEMMA ReplayerKeepsTypes ==
  ASSUME StateInv, DataType, TypeInv, MessageInv, ControlInv, NEW r \in Replayers, Replayer(r),
         UNCHANGED clientVars
  PROVE  TypeInv' /\ MessageInv'
<1>1. /\ UNCHANGED <<main, processed, uninitialized, producerVars, simulator, snapshot_index>>
      /\ replayer \in [Replayers -> {"waiting", "replaying", "reporting", "done"}]
      /\ replaying \in [Replayers -> {0} \cup DOMAIN Run]
      /\ \A s \in Replayers : replayer[s] \in {"replaying", "reporting"} => replaying[s] # 0
      /\ replayer_aborted \in [Replayers -> BOOLEAN]
      /\ snapshots \in Seq(DOMAIN Run) /\ abort \in BOOLEAN
  BY DEF clientVars, dataVars, TypeInv, StateInv, Replayer, TakeSnapshot, FinishReplay,
     ReportSnapshot, FinishReplayer, simulatorVars
<1>2. main = "start" => replayer[r] = "done"
  BY DEF ControlInv, CpuDone
<1>3. replayer[r] # "done"
  BY DEF Replayer, TakeSnapshot, FinishReplay, ReportSnapshot, FinishReplayer
<1>4. main # "start"
  BY <1>2, <1>3
<1>5. ASSUME snapshots' \in Seq(DOMAIN Run), replaying' \in [Replayers -> {0} \cup DOMAIN Run],
             \A s \in Replayers : replayer'[s] \in {"replaying", "reporting"} => replaying'[s] # 0,
             replayer_aborted' \in [Replayers -> BOOLEAN]
      PROVE  TypeInv'
  BY <1>1, <1>4, <1>5 DEF TypeInv, producerVars
<1>6. CASE TakeSnapshot(r)
  <2>1. /\ snapshots # <<>> /\ snapshots' = Tail(snapshots) /\ UNCHANGED results
        /\ replayer_aborted' = [replayer_aborted EXCEPT ![r] = @ \/ abort]
        /\ \/ UNCHANGED <<replayer, replaying>>
           \/ /\ replayer' = [replayer EXCEPT ![r] = "replaying"]
              /\ replaying' = [replaying EXCEPT ![r] = Head(snapshots)]
    BY <1>6 DEF TakeSnapshot
  <2>2. snapshots' \in Seq(DOMAIN Run) /\ Head(snapshots) \in DOMAIN Run
    BY <1>1, <2>1
  <2>3. Head(snapshots) # 0
    BY <2>2, RunShape
  <2>4. replayer_aborted' \in [Replayers -> BOOLEAN]
    BY <1>1, <2>1
  <2>5. /\ replaying' \in [Replayers -> {0} \cup DOMAIN Run]
        /\ \A s \in Replayers : replayer'[s] \in {"replaying", "reporting"} => replaying'[s] # 0
    BY <1>1, <2>1, <2>2, <2>3
  <2> QED BY <1>5, <2>1, <2>2, <2>4, <2>5, SameMessages
<1>7. CASE FinishReplay(r) \/ FinishReplayer(r)
  <2>1. /\ UNCHANGED <<results, snapshots, replaying, replayer_aborted>>
        /\ \/ replayer[r] = "replaying"
           \/ replayer' = [replayer EXCEPT ![r] = "done"]
        /\ \A s \in Replayers : s # r => replayer'[s] = replayer[s]
    BY <1>1, <1>7 DEF FinishReplay, FinishReplayer
  <2>2. \A s \in Replayers : replayer'[s] \in {"replaying", "reporting"} => replaying'[s] # 0
    BY <1>1, <2>1
  <2> QED BY <1>1, <1>5, <2>1, <2>2, SameMessages
<1>8. CASE ReportSnapshot(r)
  <2>1. /\ replayer[r] = "reporting" /\ Send(SnapshotReplayed(replaying[r]))
        /\ replayer' = [replayer EXCEPT ![r] = "waiting"]
        /\ replaying' = [replaying EXCEPT ![r] = 0]
        /\ UNCHANGED <<snapshots, replayer_aborted>>
    BY <1>8 DEF ReportSnapshot
  <2>2. PICK m : m = SnapshotReplayed(replaying[r])
    OBVIOUS
  <2>3. replaying[r] \in DOMAIN Run
    BY <1>1, <2>1
  <2>4. m \in Messages /\ SpeaksOfSnapshots(m)
    BY <2>2, <2>3, RunShape DEF SnapshotReplayed, Messages, Reports, SpeaksOfSnapshots
  <2>5. MessageInv'
    BY <2>1, <2>2, <2>4, SendKeepsMessages
  <2>6. /\ replaying' \in [Replayers -> {0} \cup DOMAIN Run]
        /\ \A s \in Replayers : replayer'[s] \in {"replaying", "reporting"} => replaying'[s] # 0
    BY <1>1, <2>1
  <2> QED BY <1>1, <1>5, <2>1, <2>5, <2>6
<1> QED BY <1>6, <1>7, <1>8 DEF Replayer

\* A message of the loop.
LEMMA HandlerKeepsTypes ==
  ASSUME DataType, TypeInv, MessageInv, Loop, ~Return
  PROVE  TypeInv' /\ MessageInv'
<1>1. PICK requests, released, simulated : Conclude(requests, released, simulated)
  BY HandlersConclude
<1>2. /\ results # <<>> /\ results' = Tail(results) /\ main' \in {"loop", "panicked"}
      /\ UNCHANGED tasksVars
  BY <1>1, HandlersConclude, ConcludeLeavesTasks
<1>3. MessageInv' /\ SpeaksOfSnapshots(Head(results))
  BY <1>2, ReceiveKeepsMessages
<1>4. /\ processed' \in {processed, processed \cup {Head(results).index}}
      /\ processed' # processed => Head(results).type = "SnapshotReplayed"
      /\ \A data \in uninitialized' :
           data \in uninitialized \/ (data = Head(results) /\ data.type = "TracingData")
  <2>1. CASE HandleTracingData
    BY <2>1 DEF HandleTracingData, Message
  <2>2. CASE HandleSnapshotReplayed
    BY <2>2 DEF HandleSnapshotReplayed, Message
  <2>3. CASE HandleSnapshotProduced \/ HandleInits \/ HandleUnifiedInits \/ HandleSimulationResult
             \/ HandleGpuWorkResult
    BY <2>3 DEF HandleSnapshotProduced, HandleInits, HandleUnifiedInits, HandleSimulationResult,
       HandleGpuWorkResult
  <2> QED BY <2>1, <2>2, <2>3 DEF Loop
<1>5. processed' \subseteq DOMAIN Run /\ \A data \in uninitialized' : data.snapshots # {}
  BY <1>3, <1>4 DEF TypeInv, SpeaksOfSnapshots
<1>6. TypeInv'
  BY <1>2, <1>5 DEF TypeInv, tasksVars, simulatorVars, producerVars, replayerVars
<1> QED BY <1>3, <1>6

\* The start of a call.
LEMMA BeginKeepsTypes ==
  ASSUME TypeInv, ControlInv, main \in {"start", "committed"}, NEW drained, NEW all_sent \in BOOLEAN,
         Begin(drained, all_sent)
  PROVE  TypeInv' /\ MessageInv'
<1>1. /\ main' = "loop" /\ results' = results /\ uninitialized' = {} /\ processed' = {}
  BY DEF Begin
<1>2. results' = <<>>
  BY <1>1 DEF ControlInv
<1>3. DOMAIN results' = {}
  BY <1>2, NothingOnTheWay
<1>4. MessageInv'
  BY <1>3 DEF MessageInv
<1>5. CASE all_sent
  <2>1. UNCHANGED <<snapshots, simulatorVars, replayerVars>>
    BY <1>5 DEF Begin
  <2> QED BY <1>1, <1>4, <2>1 DEF TypeInv, simulatorVars, producerVars, replayerVars
<1>6. CASE ~all_sent
  <2>1. Spawn
    BY <1>6 DEF Begin
  <2>2. /\ room' \in [Families -> 0..ChunkCapacity]
        /\ participating' \in [Families -> SUBSET DOMAIN Run]
        /\ \A t \in Families : chunks'[t] = 0
    BY <2>1, SizesAssumption DEF Spawn, NoRows, Families
  <2>3. /\ replaying' \in [Replayers -> {0} \cup DOMAIN Run]
        /\ \A r \in Replayers : replayer'[r] = "waiting"
        /\ replayer_aborted' \in [Replayers -> BOOLEAN]
        /\ snapshots' \in Seq(DOMAIN Run) /\ simulator' = "run"
    BY <2>1 DEF Spawn
  <2> QED BY <1>1, <1>4, <2>2, <2>3 DEF TypeInv
<1> QED BY <1>5, <1>6

\* Nothing happens to a task, a message or to what waits.
LEMMA IdleKeepsTypes ==
  ASSUME TypeInv, MessageInv, UNCHANGED cpuVars, uninitialized' \subseteq uninitialized,
         processed' = processed, main' = main \/ main' # "start"
  PROVE  TypeInv' /\ MessageInv'
<1>1. UNCHANGED <<results, snapshots, free_trace_chunks, simulatorVars, replayerVars>>
  BY DEF cpuVars, sharedVars
<1>2. TypeInv'
  BY <1>1 DEF TypeInv, simulatorVars, producerVars, replayerVars
<1> QED BY <1>1, <1>2, SameMessages

\* Every step.
LEMMA NextKeepsTypes ==
  ASSUME Inv, DataInv, DataInv', TypeInv, MessageInv, [Next]_vars
  PROVE  TypeInv' /\ MessageInv'
<1>1. StateInv /\ ControlInv /\ DataType /\ DataType' /\ ProducerInv
  BY DEF Inv, DataInv
<1>2. CASE Start
  <2>1. PICK all_sent \in BOOLEAN : all_sent = FALSE
    OBVIOUS
  <2>2. main = "start" /\ Begin(<<>>, all_sent)
    BY <1>2, <2>1 DEF Start
  <2> QED BY <1>1, <2>2, BeginKeepsTypes
<1>3. CASE Prove
  <2>1. PICK all_sent \in BOOLEAN : all_sent = AllSent(Len(entries))
    BY DEF AllSent
  <2>2. main = "committed" /\ Begin(entries, all_sent)
    BY <1>3, <2>1 DEF Prove
  <2> QED BY <1>1, <2>2, BeginKeepsTypes
<1>4. CASE SourceShared \/ UNCHANGED vars
  <2>1. /\ UNCHANGED <<cpuVars, uninitialized, processed>> /\ (main' = main \/ main' # "start")
    BY <1>4 DEF SourceShared, vars, dataVars
  <2> QED BY <2>1, IdleKeepsTypes
<1>5. CASE Loop /\ ~Return
  BY <1>1, <1>5, HandlerKeepsTypes
<1>6. CASE Return
  <2>1. /\ UNCHANGED <<results, snapshots, simulatorVars, replayerVars>>
        /\ uninitialized' = {} /\ UNCHANGED processed /\ main' # "start"
    BY <1>6 DEF Return
  <2>2. TypeInv'
    BY <2>1 DEF TypeInv, simulatorVars, producerVars, replayerVars
  <2> QED BY <2>1, <2>2, SameMessages
<1>7. CASE Simulator /\ UNCHANGED clientVars
  BY <1>1, <1>7, SimulatorKeepsTypes
<1>8. ASSUME NEW r \in Replayers, Replayer(r), UNCHANGED clientVars
      PROVE  TypeInv' /\ MessageInv'
  BY <1>1, <1>8, ReplayerKeepsTypes
<1>9. ASSUME NEW request \in gpu, Answer(request)
      PROVE  TypeInv' /\ MessageInv'
  <2>1. /\ Send(GpuWorkResult(request))
        /\ UNCHANGED <<main, uninitialized, processed, snapshots, free_trace_chunks,
                       simulatorVars, replayerVars>>
    BY <1>9 DEF Answer, dataVars, sharedVars
  <2>2. PICK m : m = GpuWorkResult(request)
    OBVIOUS
  <2>3. request \in Requests
    BY <1>1, <1>9 DEF DataType
  <2>4. m \in Messages /\ SpeaksOfSnapshots(m)
    BY <2>2, <2>3 DEF GpuWorkResult, Messages, Answers, Requests, SpeaksOfSnapshots
  <2>5. MessageInv'
    BY <1>1, <2>1, <2>2, <2>4, SendKeepsMessages
  <2>6. TypeInv'
    BY <2>1 DEF TypeInv, simulatorVars, producerVars, replayerVars
  <2> QED BY <2>5, <2>6
<1> QED BY <1>2, <1>3, <1>4, <1>5, <1>6, <1>7, <1>8, <1>9
        DEF Next, GetResult, CpuWorkers, Finished, Loop

\* They hold at first.
LEMMA InitIsTyped == Init => TypeInv /\ MessageInv
<1> SUFFICES ASSUME Init PROVE TypeInv /\ MessageInv
  OBVIOUS
<1>1. /\ main = "start" /\ uninitialized = {} /\ processed = {} /\ CpuInit
  BY DEF Init
<1>2. DOMAIN results = {} /\ snapshots \in Seq(DOMAIN Run)
  BY <1>1, NothingOnTheWay DEF CpuInit
<1>3. /\ room \in [Families -> 0..ChunkCapacity]
      /\ participating \in [Families -> SUBSET DOMAIN Run]
      /\ \A t \in Families : chunks[t] = 0
  BY <1>1, SizesAssumption DEF CpuInit, NoRows, Families
<1>4. /\ replaying \in [Replayers -> {0} \cup DOMAIN Run]
      /\ \A r \in Replayers : replayer[r] = "done"
      /\ replayer_aborted \in [Replayers -> BOOLEAN]
      /\ simulator = "done" /\ free_trace_chunks = 0
  BY <1>1 DEF CpuInit
<1>5. TypeInv
  BY <1>1, <1>2, <1>3, <1>4 DEF TypeInv
<1>6. MessageInv
  BY <1>2 DEF MessageInv
<1> QED BY <1>5, <1>6

-----------------------------------------------------------------------------
(* The types, and the bounds that come from the balances. *)

\* A request is not larger than all requests.
LEMMA PartOfTotal ==
  ASSUME NEW S, Sized(S), NEW d \in S
  PROVE  d.chunks <= TotalChunks(S)
<1>1. PICK f : f = [x \in S |-> x.chunks]
  OBVIOUS
<1>2. f \in [S -> Nat] /\ IsFiniteSet(S)
  BY <1>1 DEF Sized
<1>3. f[d] <= SumFunction(f)
  BY <1>2, SumNat
<1> QED BY <1>1, <1>3 DEF TotalChunks

\* An entry of the cache is not larger than the cache.
LEMMA PartOfEntries ==
  ASSUME NEW list \in Seq(Requests), NEW d \in ToSet(list)
  PROVE  d.chunks <= ChunksOfFirst(list, Len(list))
<1>1. PICK n \in Nat : n = Len(list) /\ DOMAIN list = 1..n
  OBVIOUS
<1>2. PICK i \in 1..n : d = list[i]
  BY <1>1 DEF ToSet
<1>3. PICK S, f : S = 1..n /\ f = [j \in 1..n |-> list[j].chunks]
  OBVIOUS
<1>4. f \in [S -> Nat]
  <2>1. \A j \in 1..n : list[j] \in Requests
    BY <1>1
  <2> QED BY <1>3, <2>1 DEF Requests
<1>5. IsFiniteSet(S)
  BY <1>3, FS_Interval
<1>6. f[i] <= SumFunction(f)
  BY <1>3, <1>4, <1>5, SumNat
<1> QED BY <1>1, <1>2, <1>3, <1>6 DEF ChunksOfFirst

\* No part of the balance is larger than the whole.
LEMMA AllocatorsBound ==
  ASSUME DataType, ProducerInv, AllocatorsConserved
  PROVE  /\ free_allocators \in 0..Allocators /\ inits_chunks \in 0..Allocators
         /\ chunks \in [Families -> 0..Allocators]
         /\ \A request \in gpu \cup ToSet(entries) : request.chunks \in 0..Allocators
<1>1. PICK a \in Nat, b \in Nat, c \in Nat : a = free_allocators /\ b = inits_chunks /\ c = SumFunction(chunks)
  BY FamilySum DEF DataType, ProducerInv
<1>2. PICK d \in Nat, e \in Nat, f \in Nat :
        /\ d = ChunksOnTheWay(results) /\ e = TotalChunks(uninitialized) /\ f = TotalChunks(gpu)
  BY BalanceTerms
<1>3. PICK g \in Nat, h \in Nat, i \in Nat :
        /\ g = SumFunction(unpaired_inits) /\ h = SumFunction(unpaired_tracing)
        /\ i = ChunksOfFirst(entries, Len(entries))
  BY BalanceTerms
<1>4. PICK n \in Nat : n = Allocators
  BY SizesAssumption
<1>5. a + b + c + d + e + f + g + h + i = n
  BY <1>1, <1>2, <1>3, <1>4 DEF AllocatorsConserved, ChunksOnTheWay
<1>6. a <= n /\ b <= n /\ c <= n /\ f <= n /\ i <= n
  BY <1>5
<1>7. ASSUME NEW t \in Families PROVE chunks[t] \in 0..n
  <2>1. chunks \in [Families -> Nat]
    BY DEF ProducerInv
  <2>2. chunks[t] <= SumFunction(chunks) /\ chunks[t] \in Nat
    BY <2>1, FamiliesFinite, SumNat
  <2> QED BY <1>1, <1>6, <2>2
<1>8. chunks \in [Families -> 0..n]
  BY <1>7 DEF ProducerInv
<1>9. ASSUME NEW request \in gpu \cup ToSet(entries) PROVE request.chunks \in 0..n
  <2>1. request \in Requests
    <3>1. ToSet(entries) \subseteq Requests
      BY DEF DataType, ToSet
    <3> QED BY <1>9, <3>1 DEF DataType
  <2>2. request.chunks \in Nat
    BY <2>1 DEF Requests
  <2>3. request \in gpu => request.chunks <= f
    BY <1>2, PartOfTotal, BalanceTerms
  <2>4. request \in ToSet(entries) => request.chunks <= i
    BY <1>3, PartOfEntries DEF DataType
  <2>5. PICK x \in Nat : x = request.chunks
    BY <2>2
  <2> QED BY <1>6, <1>9, <2>3, <2>4, <2>5
<1> QED BY <1>1, <1>4, <1>6, <1>8, <1>9

\* Trace chunks are not more than there are.
LEMMA TraceChunksBound ==
  ASSUME StateInv, TraceChunksConserved, TypeInv
  PROVE  free_trace_chunks \in 0..TraceChunks
<1>1. PICK n \in Nat, a \in Nat, b \in Nat :
        n = TraceChunks /\ a = free_trace_chunks /\ b = Len(snapshots)
  <2>1. free_trace_chunks \in Nat /\ Len(snapshots) \in Nat
    BY DEF StateInv
  <2> QED BY <2>1, TraceChunksType
<1>2. CASE main = "start"
  BY <1>1, <1>2 DEF TypeInv
<1>3. CASE main # "start"
  <2>1. PICK B : B = {r \in Replayers : replayer[r] = "replaying"}
    OBVIOUS
  <2>2. PICK c \in Nat : c = Cardinality(B)
    <3>1. IsFiniteSet(B)
      BY <2>1, ReplayersAssumption, FS_Subset
    <3> QED BY <3>1, FS_CardinalityType
  <2>3. PICK d \in {0, 1} :
          d = IF \/ simulator \in {"run", "trace"}
                 \/ is_aborted /\ simulator \in {"finalize", "exit"} THEN 1 ELSE 0
    OBVIOUS
  <2>4. n = a + b + c + d
    BY <1>1, <1>3, <2>1, <2>2, <2>3 DEF TraceChunksConserved
  <2>5. a <= n
    BY <2>4
  <2> QED BY <1>1, <2>5
<1> QED BY <1>2, <1>3

\* A tracing circuit of the run is not one of inits and teardowns.
LEMMA CircuitOfFamily ==
  ASSUME NEW k \in AllKeys, NEW t \in Families, NEW q \in Nat, k = <<t, q>>
  PROVE  k \in TracingKeys
<1>1. k \notin InitsKeys
  BY InitsCircuitKind DEF InitsKeys
<1> QED BY <1>1 DEF AllKeys

\* The unified machine has not more circuits than inits and teardowns, but for one.
LEMMA UnifiedCircuits ==
  ASSUME NEW q \in Nat, <<"Unified", q>> \in AllKeys
  PROVE  q \in 0..(EmptyCircuits + Partitions)
<1>1. Unified
  <2>1. <<"Unified", q>> \in Keys
    BY AllKeysType
  <2>2. ~Unified => "Unified" \notin Families /\ InitsCircuit # "Unified"
    BY InitsCircuitKind
  <2> QED BY <2>1, <2>2 DEF Keys
<1>2. "Unified" \in Families
  BY <1>1, InitsCircuitKind
<1>3. q * CyclesPerCircuit["Unified"] < Rows("Unified", Len(Run))
  BY <1>2, CircuitOfFamily, TracingCircuit
<1>4. PICK r \in Nat, w \in Nat, s \in Nat \ {0} :
        /\ r = Rows("Unified", Len(Run)) /\ w = TouchedWords /\ s = PartitionSize
        /\ w <= r /\ s = CyclesPerCircuit["Unified"]
  BY <1>1, <1>2, RunShape, RowsType, RunAssumption, SizesAssumption, TouchedWordsAssumption
<1>5. PICK d \in Nat, e \in Nat, p \in Nat :
        d = r - w /\ e = d \div s /\ e = EmptyCircuits /\ p = Partitions
  BY <1>1, <1>4, EmptyType DEF EmptyCircuits
<1>6. d < (e + 1) * s /\ (e + 1) * s = e * s + s
  BY <1>5, Division, Multiples
<1>7. ~(p * s < w)
  <2>1. p = CeilDiv(w, s)
    BY <1>4, <1>5 DEF Partitions
  <2>2. ~(p < CeilDiv(w, s))
    BY <2>1
  <2> QED BY <2>2, CeilDivBound
<1>8. PICK x \in Nat, y \in Nat, z \in Nat : x = q * s /\ y = e * s /\ z = p * s
  BY Multiples
<1>9. x < y + s + z
  <2>1. x < r
    BY <1>3, <1>4, <1>8
  <2>2. r = d + w
    BY <1>4, <1>5
  <2>3. d < y + s /\ ~(z < w)
    BY <1>6, <1>7, <1>8
  <2> QED BY <2>1, <2>2, <2>3
<1>10. (e + p + 1) * s = y + s + z
  <2>1. (e + p + 1) * s = e * s + p * s + s
    OBVIOUS
  <2> QED BY <1>8, <2>1
<1>11. q < e + p + 1
  BY <1>8, <1>9, <1>10, Multiples
<1> QED BY <1>5, <1>11

\* What waits for its other half.
LEMMA WaitingType ==
  ASSUME DataInv, CountInv
  PROVE  /\ DOMAIN unpaired_inits \subseteq 0..(EmptyCircuits + Partitions)
         /\ DOMAIN unpaired_tracing \subseteq 0..(EmptyCircuits + Partitions)
<1>1. PICK e \in Nat, p \in Nat, t \in Nat, n \in Nat :
        e = EmptyCircuits /\ p = Partitions /\ t = trivial /\ n = inits_index
  BY EmptyType DEF DataInv, DataType, ProducerInv
<1>2. t <= e /\ n <= e + p
  BY <1>1 DEF DataInv, InitsInv, ProducerInv
<1>3. ASSUME NEW q \in DOMAIN unpaired_inits PROVE q \in 0..(e + p)
  <2>1. q \in Nat /\ (q < t \/ q < n)
    BY <1>1, <1>3 DEF DataInv, DataType, KeyInv, Table
  <2> QED BY <1>2, <2>1
<1>4. ASSUME NEW q \in DOMAIN unpaired_tracing PROVE q \in 0..(e + p)
  <2>1. q \in Nat
    BY <1>4 DEF DataInv, DataType, Table
  <2>2. <<"Unified", q>> \in AllKeys
    BY <1>4, UpstreamOfRun DEF Upstream, UnpairedKeys
  <2> QED BY <1>1, <2>1, <2>2, UnifiedCircuits
<1> QED BY <1>1, <1>3, <1>4

\* Numbers of circuits are not more than the circuits of the run.
LEMMA CountsBound ==
  ASSUME CountInv
  PROVE  \A n \in {pending_requests_count, sent_requests_count, total_requests_count} :
           n \in 0..Cardinality(AllKeys)
<1>1. PICK c \in Nat : c = Cardinality(AllKeys)
  BY AllKeysFinite
<1>2. Downstream \subseteq AllKeys /\ Pending \subseteq AllKeys
  BY DEF CountInv, Pending, Downstream
<1>3. ASSUME NEW S, S \subseteq AllKeys PROVE Cardinality(S) \in 0..c
  <2>1. IsFiniteSet(S) /\ Cardinality(S) <= Cardinality(AllKeys)
    BY <1>3, AllKeysFinite, FS_Subset
  <2>2. Cardinality(S) \in Nat
    BY <2>1, FS_CardinalityType
  <2> QED BY <1>1, <2>1, <2>2
<1>4. pending_requests_count \in 0..c /\ sent_requests_count \in 0..c
  BY <1>2, <1>3 DEF CountInv
<1>5. total_requests_count \in 0..c
  BY <1>1 DEF CountInv
<1> QED BY <1>1, <1>4, <1>5

\* The tasks.
LEMMA CpuIsTyped ==
  ASSUME StateInv, TraceChunksConserved, DataInv, AllocatorsConserved, TypeInv
  PROVE  CpuTypeOK
<1>1. /\ free_allocators \in 0..Allocators /\ inits_chunks \in 0..Allocators
      /\ chunks \in [Families -> 0..Allocators]
  BY AllocatorsBound DEF DataInv
<1>2. free_trace_chunks \in 0..TraceChunks
  BY TraceChunksBound
<1>3. /\ snapshot_index \in 0..Len(Run) /\ produced \in [Families -> Nat] /\ inits_index \in Nat
  BY DEF DataInv, ProducerInv
<1> QED BY <1>1, <1>2, <1>3 DEF CpuTypeOK, StateInv, TypeInv, Families

\* The caller, the loop and the cache.
LEMMA StateIsTyped ==
  ASSUME StateInv, TraceChunksConserved, DataInv, AllocatorsConserved, CountInv, TypeInv
  PROVE  TypeOK
<1>1. CpuTypeOK
  BY CpuIsTyped
<1>2. /\ main \in Positions /\ trivial \in Nat /\ cached_trivial \in Nat
      /\ caching \in BOOLEAN /\ proving \in BOOLEAN /\ gpu_work_requests_sender \in BOOLEAN
      /\ simulation_result \in BOOLEAN /\ abort_signaled \in BOOLEAN
  BY DEF DataInv, DataType
<1>3. ASSUME NEW request \in gpu \cup ToSet(entries)
      PROVE  request.key \in AllKeys /\ request.chunks \in 0..Allocators
  <2>1. GpuKeys \subseteq AllKeys /\ EntryKeys \subseteq AllKeys
    BY DEF CountInv, Downstream, DataInv, KeyInv
  <2> QED BY <1>3, <2>1, AllocatorsBound DEF GpuKeys, EntryKeys, DataInv
<1>4. requests_served_from_cache \subseteq AllKeys /\ completed \subseteq AllKeys
  BY DEF CountInv, Downstream
<1>5. ASSUME NEW data \in uninitialized
      PROVE  data.type = "TracingData" /\ data.key \in TracingKeys /\ data.snapshots # {}
  <2>1. data \in TracingMessages
    BY <1>5 DEF DataInv, DataType
  <2>2. data.key \in AllKeys
    BY <1>5, UpstreamOfRun DEF Upstream, UninitializedKeys
  <2>3. PICK t \in Families, q \in Nat : data.key = <<t, q>>
    BY <2>1 DEF TracingMessages
  <2>4. data.key \in TracingKeys
    BY <2>2, <2>3, CircuitOfFamily
  <2> QED BY <1>5, <2>1, <2>4 DEF TracingMessages, TypeInv
<1>6. processed \subseteq DOMAIN Run
  BY DEF TypeInv
<1>7. \A flag \in {caching, proving, gpu_work_requests_sender, simulation_result, abort_signaled} :
        flag \in BOOLEAN
  BY <1>2
<1> QED BY <1>1, <1>2, <1>3, <1>4, <1>5, <1>6, <1>7, WaitingType, CountsBound DEF TypeOK

\* The state of the caller, of the loop and of the tasks is well typed: every
\* count is at most what it counts, the indexes are those of snapshots, no data
\* waits without a snapshot to wait for, and what is sent to the GPU are
\* circuits of the run.
THEOREM TypeCorrect == Spec => []TypeOK
<1>1. Init => Inv /\ TraceChunksConserved /\ DataInv /\ AllocatorsConserved
              /\ CountInv /\ CompleteInv /\ TypeInv /\ MessageInv
  BY InitHolds, InitHasData, InitCounts, InitIsTyped
<1>2. ASSUME Inv, TraceChunksConserved, DataInv, AllocatorsConserved, CountInv, CompleteInv,
             TypeInv, MessageInv, [Next]_vars
      PROVE  /\ Inv' /\ TraceChunksConserved' /\ DataInv' /\ AllocatorsConserved'
             /\ CountInv' /\ CompleteInv' /\ TypeInv' /\ MessageInv'
  <2>1. Inv' /\ TraceChunksConserved'
    BY <1>2, NextKeeps
  <2>2. DataInv' /\ AllocatorsConserved'
    BY <1>2, NextKeepsData
  <2>3. CountInv' /\ CompleteInv'
    BY <1>2, <2>2, NextKeepsCount
  <2>4. TypeInv' /\ MessageInv'
    BY <1>2, <2>2, NextKeepsTypes
  <2> QED BY <2>1, <2>2, <2>3, <2>4
<1>3. (Inv /\ TraceChunksConserved /\ DataInv /\ AllocatorsConserved /\ CountInv /\ TypeInv)
        => TypeOK
  BY StateIsTyped DEF Inv
<1> QED BY <1>1, <1>2, <1>3, PTL DEF Spec

=============================================================================
