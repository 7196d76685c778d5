-------------------------- MODULE GpuManagerProofs --------------------------
(***************************************************************************)
(* Machine-checked proofs about GpuManager, for any sets of batches and    *)
(* workers, any number of requests and of concurrent callers: its types,   *)
(* the mirror of the pipelines, the senders of the callers, the clean exit *)
(* of the manager, the conservation of requests, and that it implements    *)
(* WorkBatches.                                                            *)
(***************************************************************************)
EXTENDS GpuManager, TLAPS

LEMMA BatchOfType ==
  ASSUME NEW m \in Request \cup {None}
  PROVE  /\ BatchOf(m) \in Batches \cup {None}
         /\ (BatchOf(m) = None) <=> (m = None)
  BY NoneAssumption DEF BatchOf, Request

LEMMA AppendElements ==
  ASSUME NEW S, NEW q \in Seq(S), NEW e \in S
  PROVE  \A i \in DOMAIN Append(q, e) :
           \/ i = Len(q) + 1 /\ Append(q, e)[i] = e
           \/ i \in DOMAIN q /\ Append(q, e)[i] = q[i]
  OBVIOUS

LEMMA TailElements ==
  ASSUME NEW S, NEW q \in Seq(S), q # <<>>
  PROVE  \A i \in DOMAIN Tail(q) : i + 1 \in DOMAIN q /\ Tail(q)[i] = q[i + 1]
  OBVIOUS

LEMMA HeadElement ==
  ASSUME NEW S, NEW q \in Seq(S), q # <<>>
  PROVE  1 \in DOMAIN q /\ Head(q) = q[1]
  OBVIOUS

LEMMA InitTypeOK == Init => TypeOK
<1> SUFFICES ASSUME Init PROVE TypeOK
  OBVIOUS
<1>1. <<>> \in Seq(Request) /\ <<>> \in Seq(Batches)
  OBVIOUS
<1>2. <<None, None>> \in Seq(Batches \cup {None})
  OBVIOUS
<1>3. 0 \in 0..MaxRequests
  BY MaxRequestsAssumption
<1>4. QED
  BY <1>1, <1>2, <1>3 DEF Init, TypeOK

-----------------------------------------------------------------------------
(* The queue of a worker, slot by slot. *)

Slots(q, a, b) == Len(q) = 2 /\ q[1] = BatchOf(a) /\ q[2] = BatchOf(b)

Slots3(q, a, b, c) ==
  Len(q) = 3 /\ q[1] = BatchOf(a) /\ q[2] = BatchOf(b) /\ q[3] = BatchOf(c)

Shape(w) ==
  CASE worker[w] = "working" ->
         Slots3(worker_queues[w], phase_two[w], phase_one[w], request[w])
    [] worker[w] = "sending" ->
         Slots3(worker_queues[w], result[w], phase_two[w], phase_one[w])
    [] OTHER -> Slots(worker_queues[w], phase_two[w], phase_one[w])

Shapes == \A w \in Workers : Shape(w)

LEMMA MirrorIsShapes == TypeOK => (QueueMirrorsPipeline <=> Shapes)
<1> SUFFICES ASSUME TypeOK, NEW w \in Workers
             PROVE  (/\ Len(worker_queues[w]) = Len(Pipeline(w))
                     /\ \A i \in DOMAIN worker_queues[w] :
                          worker_queues[w][i] = BatchOf(Pipeline(w)[i]))
                    <=> Shape(w)
  BY DEF QueueMirrorsPipeline, Shapes
<1>1. DOMAIN worker_queues[w] = 1..Len(worker_queues[w])
  BY DEF TypeOK
<1>2. CASE worker[w] = "working"
  BY <1>1, <1>2 DEF Pipeline, Shape, Slots3
<1>3. CASE worker[w] = "sending"
  BY <1>1, <1>3 DEF Pipeline, Shape, Slots3
<1>4. CASE worker[w] # "working" /\ worker[w] # "sending"
  <2>1. Pipeline(w) = <<phase_two[w], phase_one[w]>>
    BY <1>4 DEF Pipeline
  <2>2. Shape(w) <=> Slots(worker_queues[w], phase_two[w], phase_one[w])
    BY <1>4 DEF Shape
  <2>3. QED
    BY <1>1, <2>1, <2>2 DEF Slots
<1>5. QED
  BY <1>2, <1>3, <1>4

LEMMA MirrorIsShapesPrimed == TypeOK' => (QueueMirrorsPipeline' <=> Shapes')
  BY MirrorIsShapes, PTL

LEMMA ClientTypeOK ==
  ASSUME TypeOK, NEW b \in Batches, Client(b)
  PROVE  TypeOK'
<1>1. CASE SendBatch(b)
  BY <1>1 DEF TypeOK, SendBatch, managerVars, workerVars
<1>2. CASE SendRequest(b)
  <2>1. [batch_id |-> b, sequence_id |-> sent[b] + 1] \in Request
    <3>1. sent[b] \in 0..MaxRequests /\ sent[b] < MaxRequests
      BY <1>2 DEF SendRequest, TypeOK
    <3>2. sent[b] + 1 \in 1..MaxRequests
      BY ONLY <3>1, MaxRequestsAssumption
    <3> QED BY ONLY <3>2, b \in Batches DEF Request
  <2>2. sent[b] + 1 \in 0..MaxRequests
    BY <1>2, MaxRequestsAssumption DEF SendRequest, TypeOK
  <2>3. Append(requests_channel[b], [batch_id |-> b, sequence_id |-> sent[b] + 1])
          \in Seq(Request)
    BY <2>1 DEF TypeOK
  <2>4. QED
    BY <1>2, <2>2, <2>3 DEF TypeOK, SendRequest, managerVars, workerVars
<1>3. CASE CloseRequests(b)
  BY <1>3 DEF TypeOK, CloseRequests, channelVars, managerVars, workerVars
<1>4. CASE ReturnResult(b)
  BY <1>4, MaxRequestsAssumption
  DEF TypeOK, ReturnResult, channelVars, managerVars, workerVars
<1>5. QED
  BY <1>1, <1>2, <1>3, <1>4 DEF Client

LEMMA WorkerTypeOK ==
  ASSUME TypeOK, NEW w \in Workers, Worker(w)
  PROVE  TypeOK'
<1>1. CASE AwaitRequest(w)
  BY <1>1 DEF TypeOK, AwaitRequest, clientVars, channelVars, managerVars
<1>2. CASE RunStages(w)
  BY <1>2 DEF TypeOK, RunStages, Completed, clientVars, channelVars, managerVars
<1>3. CASE FinishWorker(w)
  BY <1>3 DEF TypeOK, FinishWorker, clientVars, channelVars, managerVars
<1>4. QED
  BY <1>1, <1>2, <1>3 DEF Worker

LEMMA HandTypeOK ==
  ASSUME TypeOK, NEW w \in Workers, NEW m \in Request \cup {None}, Hand(w, m),
         work_queue' \in Seq(Request), manager' \in {"select", "drain", "finished"}
  PROVE  TypeOK'
<1>1. Append(worker_queues[w], BatchOf(m)) \in Seq(Batches \cup {None})
  BY BatchOfType DEF TypeOK
<1>2. QED
  BY <1>1 DEF TypeOK, Hand, clientVars, channelVars

LEMMA ManagerTypeOK ==
  ASSUME TypeOK, Shapes, Manager
  PROVE  TypeOK'
<1>1. CASE ReceiveBatch
  <2>1. Tail(batches_channel) \in Seq(Batches) /\ Head(batches_channel) \in Batches
    BY <1>1 DEF ReceiveBatch, TypeOK
  <2>2. QED
    BY <1>1, <2>1 DEF TypeOK, ReceiveBatch, clientVars, workerVars
<1>2. CASE BatchesDisconnected
  BY <1>2 DEF TypeOK, BatchesDisconnected, clientVars, channelVars, workerVars
<1>3. ASSUME NEW b \in Batches, ReceiveRequest(b)
      PROVE  TypeOK'
  <2>1. /\ Tail(requests_channel[b]) \in Seq(Request)
        /\ Head(requests_channel[b]) \in Request
    BY <1>3 DEF ReceiveRequest, TypeOK
  <2>2. Append(work_queue, Head(requests_channel[b])) \in Seq(Request)
    BY <2>1 DEF TypeOK
  <2>3. QED
    BY <1>3, <2>1, <2>2 DEF TypeOK, ReceiveRequest, clientVars, workerVars
<1>4. ASSUME NEW b \in Batches, RequestsDisconnected(b)
      PROVE  TypeOK'
  BY <1>4 DEF TypeOK, RequestsDisconnected, clientVars, channelVars, workerVars
<1>5. ASSUME NEW w \in Workers, ReceiveResult(w)
      PROVE  TypeOK'
  <2>1. Tail(worker_queues[w]) \in Seq(Batches \cup {None})
    <3>1. worker_queues[w] # <<>>
      BY <1>5 DEF ReceiveResult, Shapes, Shape, Slots3
    <3>2. QED
      BY <3>1 DEF TypeOK
  <2>2. /\ answered' \in [Batches -> SUBSET (1..MaxRequests)]
        /\ batch_senders' \subseteq Batches
        /\ batches_to_flush' \subseteq Batches
    <3>1. CASE result[w] = None
      BY <1>5, <3>1 DEF TypeOK, ReceiveResult
    <3>2. CASE result[w] # None
      <4>1. result[w] \in Request
        BY <3>2 DEF TypeOK
      <4> DEFINE b == result[w].batch_id
                 completed == {c \in batches_to_flush \cap {b} : Drained(c, worker_queues')}
      <4>2. /\ answered' = [answered EXCEPT ![b] = @ \cup {result[w].sequence_id}]
            /\ batches_to_flush' = batches_to_flush \ completed
            /\ batch_senders' = batch_senders \ completed
        BY <1>5, <3>2 DEF ReceiveResult
      <4>3. b \in Batches /\ result[w].sequence_id \in 1..MaxRequests
        BY <4>1 DEF Request
      <4> HIDE DEF b, completed
      <4>4. QED
        BY <4>2, <4>3 DEF TypeOK
    <3>3. QED
      BY <3>1, <3>2
  <2>3. QED
    BY <1>5, <2>1, <2>2 DEF TypeOK, ReceiveResult, clientVars, channelVars
<1>6. ASSUME NEW w \in Workers, SendQueued(w) \/ Drain(w)
      PROVE  TypeOK'
  <2>1. Head(work_queue) \in Request /\ Tail(work_queue) \in Seq(Request)
    BY <1>6 DEF SendQueued, Drain, TypeOK
  <2>2. QED
    BY <1>6, <2>1, HandTypeOK DEF TypeOK, SendQueued, Drain
<1>7. ASSUME NEW w \in Workers, SendEmpty(w)
      PROVE  TypeOK'
  BY <1>7, HandTypeOK DEF TypeOK, SendEmpty
<1>8. CASE EndTurn
  BY <1>8 DEF TypeOK, EndTurn, clientVars, channelVars, workerVars
<1>9. QED
  BY <1>1, <1>2, <1>3, <1>4, <1>5, <1>6, <1>7, <1>8 DEF Manager

-----------------------------------------------------------------------------
(* The queues keep mirroring the pipelines. *)

\* A queue that gets a message at its end.
LEMMA PushShape ==
  ASSUME NEW q \in Seq(Batches \cup {None}), NEW a, NEW b, Slots(q, a, b),
         NEW m \in Request \cup {None}
  PROVE  Slots3(Append(q, BatchOf(m)), a, b, m)
  BY BatchOfType DEF Slots, Slots3

\* A queue that loses its front.
LEMMA PopShape ==
  ASSUME NEW q \in Seq(Batches \cup {None}), NEW a, NEW b, NEW c, Slots3(q, a, b, c)
  PROVE  Slots(Tail(q), b, c)
  BY DEF Slots, Slots3

LEMMA HandShapes ==
  ASSUME TypeOK, Shapes, NEW w \in Workers, NEW m \in Request \cup {None}, Hand(w, m)
  PROVE  Shapes'
<1> SUFFICES ASSUME NEW v \in Workers PROVE Shape(v)'
  BY DEF Shapes
<1> USE DEF TypeOK, Hand
<1>1. CASE v = w
  <2>1. Slots(worker_queues[w], phase_two[w], phase_one[w])
    BY DEF Shapes, Shape
  <2>2. Slots3(Append(worker_queues[w], BatchOf(m)), phase_two[w], phase_one[w], m)
    BY <2>1, PushShape
  <2>3. QED
    BY <1>1, <2>2 DEF Shape
<1>2. CASE v # w
  BY <1>2 DEF Shapes, Shape
<1>3. QED
  BY <1>1, <1>2

LEMMA WorkerShapes ==
  ASSUME TypeOK, Shapes, NEW w \in Workers, Worker(w)
  PROVE  Shapes'
<1> SUFFICES ASSUME NEW v \in Workers PROVE Shape(v)'
  BY DEF Shapes
<1> USE DEF TypeOK, managerVars
<1>1. CASE AwaitRequest(w)
  BY <1>1 DEF AwaitRequest, Shapes, Shape
<1>2. CASE RunStages(w)
  BY <1>2 DEF RunStages, Completed, Shapes, Shape
<1>3. CASE FinishWorker(w)
  BY <1>3 DEF FinishWorker, Shapes, Shape
<1>4. QED
  BY <1>1, <1>2, <1>3 DEF Worker

LEMMA ReceiveResultShapes ==
  ASSUME TypeOK, Shapes, NEW w \in Workers, ReceiveResult(w)
  PROVE  Shapes'
<1> SUFFICES ASSUME NEW v \in Workers PROVE Shape(v)'
  BY DEF Shapes
<1>1. /\ worker[w] = "sending"
      /\ worker' = [worker EXCEPT ![w] = "looping"]
      /\ result' = [result EXCEPT ![w] = None]
      /\ worker_queues' = [worker_queues EXCEPT ![w] = Tail(@)]
      /\ UNCHANGED <<request, phase_one, phase_two>>
  BY DEF ReceiveResult
<1>2. CASE v = w
  <2>1. Slots3(worker_queues[w], result[w], phase_two[w], phase_one[w])
    BY <1>1 DEF Shapes, Shape
  <2>2. Slots(Tail(worker_queues[w]), phase_two[w], phase_one[w])
    BY <2>1, PopShape DEF TypeOK
  <2>3. QED
    BY <1>1, <1>2, <2>2 DEF Shape, TypeOK
<1>3. CASE v # w
  BY <1>1, <1>3 DEF Shapes, Shape, TypeOK
<1>4. QED
  BY <1>2, <1>3

LEMMA NextShapes ==
  ASSUME TypeOK, Shapes, [Next]_vars
  PROVE  Shapes'
<1>1. ASSUME UNCHANGED <<worker, request, phase_one, phase_two, result, worker_queues>>
      PROVE  Shapes'
  BY <1>1 DEF Shapes, Shape
<1>2. ASSUME NEW w \in Workers, SendQueued(w) \/ Drain(w)
      PROVE  Shapes'
  <2>1. Head(work_queue) \in Request
    BY <1>2 DEF SendQueued, Drain, TypeOK
  <2>2. QED
    BY <1>2, <2>1, HandShapes DEF SendQueued, Drain
<1>3. ASSUME NEW w \in Workers, SendEmpty(w)
      PROVE  Shapes'
  BY <1>3, HandShapes DEF SendEmpty
<1>4. CASE \E w \in Workers : Worker(w) \/ ReceiveResult(w)
  BY <1>4, WorkerShapes, ReceiveResultShapes
<1>5. CASE \E b \in Batches : Client(b)
  BY <1>1, <1>5 DEF Client, SendBatch, SendRequest, CloseRequests, ReturnResult,
                    managerVars, workerVars
<1>6. CASE DropManager \/ Terminated \/ UNCHANGED vars
  BY <1>1, <1>6 DEF DropManager, Terminated, vars, managerVars, workerVars
<1>7. CASE ReceiveBatch \/ BatchesDisconnected \/ EndTurn
  BY <1>1, <1>7 DEF ReceiveBatch, BatchesDisconnected, EndTurn, workerVars
<1>8. CASE \E b \in Batches : ReceiveRequest(b) \/ RequestsDisconnected(b)
  BY <1>1, <1>8 DEF ReceiveRequest, RequestsDisconnected, workerVars
<1>9. QED
  BY <1>2, <1>3, <1>4, <1>5, <1>6, <1>7, <1>8 DEF Next, Manager

-----------------------------------------------------------------------------
(* Types, and the mirror, hold in every behaviour. *)

LEMMA InitShapes == Init => Shapes
<1> SUFFICES ASSUME Init PROVE Shapes
  OBVIOUS
<1>1. BatchOf(None) = None
  BY DEF BatchOf
<1>2. QED
  BY <1>1 DEF Init, Shapes, Shape, Slots

LEMMA NextTypeOK ==
  ASSUME TypeOK, Shapes, [Next]_vars
  PROVE  TypeOK'
<1>1. CASE DropManager \/ Terminated \/ UNCHANGED vars
  BY <1>1 DEF TypeOK, DropManager, Terminated, vars, clientVars, channelVars,
              managerVars, workerVars
<1>2. QED
  BY <1>1, ClientTypeOK, WorkerTypeOK, ManagerTypeOK DEF Next

LEMMA TypedShapes == Spec => [](TypeOK /\ Shapes)
<1>1. Init => TypeOK /\ Shapes
  BY InitTypeOK, InitShapes
<1>2. TypeOK /\ Shapes /\ [Next]_vars => (TypeOK /\ Shapes)'
  BY NextTypeOK, NextShapes
<1>3. QED
  BY <1>1, <1>2, PTL DEF Spec

\* Every variable keeps its type; with TypedShapes it is inductive only because
\* a result is popped from a queue that is known to be non-empty.
THEOREM TypeCorrect == Spec => []TypeOK
  BY TypedShapes, PTL

\* The manager's queue of a worker mirrors the worker's two-stage pipeline.
THEOREM QueuesMirrorPipelines == Spec => []QueueMirrorsPipeline
  BY TypedShapes, MirrorIsShapes, PTL

-----------------------------------------------------------------------------
(* Batches in flight keep their sender. *)

\* Every batch announced to the manager is new to it, and is announced once.
AnnouncedOnce ==
  /\ \A i, j \in DOMAIN batches_channel : batches_channel[i] = batches_channel[j] => i = j
  /\ \A i \in DOMAIN batches_channel : /\ client[batches_channel[i]] # "idle"
                                       /\ batches_channel[i] \notin batch_senders

\* The request channel of a batch carries requests of that batch.
RequestsTagged ==
  \A b \in Batches : \A i \in DOMAIN requests_channel[b] :
    requests_channel[b][i].batch_id = b

\* InFlightBatchesHaveSenders, with sequences indexed.
SendersHeld ==
  /\ batch_receivers \cup batches_to_flush = batch_senders
  /\ batch_receivers \cap batches_to_flush = {}
  /\ \A i \in DOMAIN work_queue : work_queue[i].batch_id \in batch_senders
  /\ \A w \in Workers : \A i \in DOMAIN worker_queues[w] :
       worker_queues[w][i] \in batch_senders \cup {None}
  /\ \A b \in batch_senders : client[b] # "idle"

FlightInv == AnnouncedOnce /\ RequestsTagged /\ SendersHeld

LEMMA InitFlight == Init => FlightInv
  BY DEF Init, FlightInv, AnnouncedOnce, RequestsTagged, SendersHeld

LEMMA ClientFlight ==
  ASSUME TypeOK, FlightInv, NEW b \in Batches, Client(b)
  PROVE  FlightInv'
<1> USE DEF TypeOK, FlightInv, managerVars, workerVars, channelVars
<1>1. CASE SendBatch(b)
  <2>1. /\ client[b] = "idle"
        /\ client' = [client EXCEPT ![b] = "open"]
        /\ batches_channel' = Append(batches_channel, b)
        /\ UNCHANGED <<requests_channel, batch_receivers, batch_senders,
                       batches_to_flush, work_queue, worker_queues>>
    BY <1>1 DEF SendBatch
  <2>2. b \notin batch_senders /\ \A i \in DOMAIN batches_channel : batches_channel[i] # b
    BY <2>1 DEF SendersHeld, AnnouncedOnce
  <2>3. \A i \in DOMAIN batches_channel' :
          \/ i = Len(batches_channel) + 1 /\ batches_channel'[i] = b
          \/ i \in DOMAIN batches_channel /\ batches_channel'[i] = batches_channel[i]
    BY <2>1, AppendElements
  <2>4. \A i \in DOMAIN batches_channel : batches_channel[i] \in Batches
    OBVIOUS
  <2>5. AnnouncedOnce'
    <3>1. \A i, j \in DOMAIN batches_channel' : batches_channel'[i] = batches_channel'[j] => i = j
      BY <2>2, <2>3 DEF AnnouncedOnce
    <3>2. \A i \in DOMAIN batches_channel' : /\ client'[batches_channel'[i]] # "idle"
                                             /\ batches_channel'[i] \notin batch_senders
      BY <2>1, <2>2, <2>3, <2>4 DEF AnnouncedOnce
    <3> QED BY <2>1, <3>1, <3>2 DEF AnnouncedOnce
  <2>6. SendersHeld' /\ RequestsTagged'
    BY <2>1, <2>2 DEF SendersHeld, RequestsTagged
  <2>7. QED
    BY <2>5, <2>6
<1>2. CASE SendRequest(b)
  <2> DEFINE r == [batch_id |-> b, sequence_id |-> sent[b] + 1]
  <2>1. /\ requests_channel' = [requests_channel EXCEPT ![b] = Append(@, r)]
        /\ UNCHANGED <<client, batches_channel, batch_receivers, batch_senders,
                       batches_to_flush, work_queue, worker_queues>>
    BY <1>2 DEF SendRequest
  <2>2. r.batch_id = b
    OBVIOUS
  <2> HIDE DEF r
  <2>3. RequestsTagged'
    BY <2>1, <2>2 DEF RequestsTagged
  <2>4. AnnouncedOnce' /\ SendersHeld'
    BY <2>1 DEF AnnouncedOnce, SendersHeld
  <2>5. QED
    BY <2>3, <2>4
<1>3. CASE CloseRequests(b)
  BY <1>3 DEF CloseRequests, AnnouncedOnce, RequestsTagged, SendersHeld
<1>4. CASE ReturnResult(b)
  BY <1>4 DEF ReturnResult, ToSet, AnnouncedOnce, RequestsTagged, SendersHeld
<1>5. QED
  BY <1>1, <1>2, <1>3, <1>4 DEF Client

\* A message of a known batch passes to a worker.
LEMMA HandSenders ==
  ASSUME TypeOK, SendersHeld, NEW w \in Workers, NEW m \in Request \cup {None}, Hand(w, m),
         m # None => m.batch_id \in batch_senders,
         work_queue' = work_queue \/ (work_queue # <<>> /\ work_queue' = Tail(work_queue))
  PROVE  SendersHeld'
<1>1. BatchOf(m) \in batch_senders \cup {None}
  BY DEF BatchOf
<1>2. \A i \in DOMAIN work_queue' : work_queue'[i].batch_id \in batch_senders
  <2>1. CASE work_queue' = work_queue
    BY <2>1 DEF SendersHeld
  <2>2. CASE work_queue # <<>> /\ work_queue' = Tail(work_queue)
    BY <2>2, TailElements DEF SendersHeld, TypeOK
  <2>3. QED
    BY <2>1, <2>2
<1>3. /\ worker_queues' = [worker_queues EXCEPT ![w] = Append(@, BatchOf(m))]
      /\ UNCHANGED <<client, batch_receivers, batch_senders, batches_to_flush>>
  BY DEF Hand, clientVars
<1>4. ASSUME NEW v \in Workers, NEW i \in DOMAIN worker_queues'[v]
      PROVE  worker_queues'[v][i] \in batch_senders \cup {None}
  BY <1>1, <1>3, <1>4 DEF SendersHeld, TypeOK
<1>5. QED
  BY <1>2, <1>3, <1>4 DEF SendersHeld

\* A result leaves; if its batch is completed nothing else of it is in flight.
LEMMA ReceiveResultSenders ==
  ASSUME TypeOK, Shapes, SendersHeld, NEW w \in Workers, ReceiveResult(w)
  PROVE  SendersHeld'
<1>1. worker_queues[w] # <<>>
  BY DEF ReceiveResult, Shapes, Shape, Slots3
<1>2. /\ worker_queues' = [worker_queues EXCEPT ![w] = Tail(@)]
      /\ UNCHANGED <<client, batch_receivers, work_queue>>
  BY DEF ReceiveResult, clientVars
<1>3. \A v \in Workers : \A i \in DOMAIN worker_queues'[v] :
        worker_queues'[v][i] \in batch_senders \cup {None}
  <2> SUFFICES ASSUME NEW v \in Workers, NEW i \in DOMAIN worker_queues'[v]
               PROVE  worker_queues'[v][i] \in batch_senders \cup {None}
    OBVIOUS
  <2>1. CASE v = w
    BY <1>1, <1>2, <2>1, TailElements DEF SendersHeld, TypeOK
  <2>2. CASE v # w
    BY <1>2, <2>2 DEF SendersHeld, TypeOK
  <2>3. QED
    BY <2>1, <2>2
<1>4. CASE result[w] = None
  <2>1. UNCHANGED <<batch_senders, batches_to_flush>>
    BY <1>4 DEF ReceiveResult
  <2>2. QED
    BY <1>2, <1>3, <2>1 DEF SendersHeld
<1>5. CASE result[w] # None
  <2> DEFINE b == result[w].batch_id
             completed == {c \in batches_to_flush \cap {b} : Drained(c, worker_queues')}
  <2>1. /\ batches_to_flush' = batches_to_flush \ completed
        /\ batch_senders' = batch_senders \ completed
    BY <1>5 DEF ReceiveResult
  <2>2. \A c \in completed :
          /\ c \in batches_to_flush
          /\ \A i \in DOMAIN work_queue : work_queue[i].batch_id # c
          /\ \A v \in Workers : \A i \in DOMAIN worker_queues'[v] : worker_queues'[v][i] # c
    BY DEF Drained
  <2> HIDE DEF b, completed
  <2>3. batch_receivers \cup batches_to_flush' = batch_senders'
    BY <2>1, <2>2 DEF SendersHeld
  <2>4. QED
    BY <1>2, <1>3, <2>1, <2>2, <2>3 DEF SendersHeld
<1>6. QED
  BY <1>4, <1>5

LEMMA ManagerFlight ==
  ASSUME TypeOK, Shapes, FlightInv, Manager
  PROVE  FlightInv'
<1> USE DEF FlightInv
<1>1. CASE ReceiveBatch
  <2> DEFINE b == Head(batches_channel)
  <2>1. /\ batches_channel # <<>>
        /\ batches_channel' = Tail(batches_channel)
        /\ batch_receivers' = batch_receivers \cup {b}
        /\ batch_senders' = batch_senders \cup {b}
        /\ UNCHANGED <<client, requests_channel, batches_to_flush, work_queue, worker_queues>>
    BY <1>1 DEF ReceiveBatch, clientVars
  <2>2. 1 \in DOMAIN batches_channel /\ b = batches_channel[1]
    BY <2>1, HeadElement DEF TypeOK
  <2>3. \A i \in DOMAIN batches_channel' :
          /\ i + 1 \in DOMAIN batches_channel /\ i + 1 # 1
          /\ batches_channel'[i] = batches_channel[i + 1]
    BY <2>1, TailElements DEF TypeOK
  <2>4. b \notin batch_senders /\ client[b] # "idle"
    BY <2>2 DEF AnnouncedOnce
  <2> HIDE DEF b
  <2>5. \A i \in DOMAIN batches_channel' : batches_channel'[i] # b
    BY <2>2, <2>3 DEF AnnouncedOnce
  <2>6. \A i, j \in DOMAIN batches_channel' :
          batches_channel'[i] = batches_channel'[j] => i = j
    <3>1. \A i \in DOMAIN batches_channel' : i \in Int
      BY <2>1 DEF TypeOK
    <3>2. QED
      BY <2>3, <3>1 DEF AnnouncedOnce
  <2>7. AnnouncedOnce'
    BY <2>1, <2>3, <2>5, <2>6 DEF AnnouncedOnce
  <2>8. RequestsTagged' /\ SendersHeld'
    BY <2>1, <2>4 DEF RequestsTagged, SendersHeld
  <2>9. QED
    BY <2>7, <2>8
<1>2. CASE BatchesDisconnected \/ EndTurn
  BY <1>2 DEF BatchesDisconnected, EndTurn, clientVars, channelVars,
              AnnouncedOnce, RequestsTagged, SendersHeld
<1>3. ASSUME NEW b \in Batches, ReceiveRequest(b)
      PROVE  FlightInv'
  <2> DEFINE r == Head(requests_channel[b])
  <2>1. /\ b \in batch_receivers
        /\ requests_channel[b] # <<>>
        /\ requests_channel' = [requests_channel EXCEPT ![b] = Tail(@)]
        /\ work_queue' = Append(work_queue, r)
        /\ UNCHANGED <<client, batches_channel, batch_receivers, batch_senders,
                       batches_to_flush, worker_queues>>
    BY <1>3 DEF ReceiveRequest, clientVars
  <2>2. r \in Request /\ r.batch_id = b
    BY <2>1, HeadElement DEF TypeOK, RequestsTagged
  <2> HIDE DEF r
  <2>3. \A i \in DOMAIN work_queue' : work_queue'[i].batch_id \in batch_senders
    BY <2>1, <2>2, AppendElements DEF SendersHeld, TypeOK
  <2>4. RequestsTagged'
    <3> SUFFICES ASSUME NEW c \in Batches, NEW i \in DOMAIN requests_channel'[c]
                 PROVE  requests_channel'[c][i].batch_id = c
      BY DEF RequestsTagged
    <3>1. CASE c = b
      BY <2>1, <3>1, TailElements DEF RequestsTagged, TypeOK
    <3>2. CASE c # b
      BY <2>1, <3>2 DEF RequestsTagged, TypeOK
    <3>3. QED
      BY <3>1, <3>2
  <2>5. AnnouncedOnce' /\ SendersHeld'
    BY <2>1, <2>3 DEF AnnouncedOnce, SendersHeld
  <2>6. QED
    BY <2>4, <2>5
<1>4. ASSUME NEW b \in Batches, RequestsDisconnected(b)
      PROVE  FlightInv'
  BY <1>4 DEF RequestsDisconnected, clientVars, channelVars,
              AnnouncedOnce, RequestsTagged, SendersHeld
<1>5. ASSUME NEW w \in Workers, ReceiveResult(w)
      PROVE  FlightInv'
  <2>1. batch_senders' \subseteq batch_senders
    BY <1>5 DEF ReceiveResult
  <2>2. UNCHANGED <<client, batches_channel, requests_channel>>
    BY <1>5 DEF ReceiveResult, clientVars, channelVars
  <2>3. AnnouncedOnce' /\ RequestsTagged'
    BY <2>1, <2>2 DEF AnnouncedOnce, RequestsTagged
  <2>4. QED
    BY <1>5, <2>3, ReceiveResultSenders
<1>6. ASSUME NEW w \in Workers, NEW m \in Request \cup {None}, Hand(w, m), SendersHeld'
      PROVE  FlightInv'
  BY <1>6 DEF Hand, clientVars, channelVars, AnnouncedOnce, RequestsTagged
<1>7. ASSUME NEW w \in Workers, SendQueued(w) \/ Drain(w)
      PROVE  FlightInv'
  <2> DEFINE r == Head(work_queue)
  <2>1. Hand(w, r) /\ work_queue # <<>> /\ work_queue' = Tail(work_queue)
    BY <1>7 DEF SendQueued, Drain
  <2>2. r \in Request /\ r.batch_id \in batch_senders
    BY <2>1, HeadElement DEF TypeOK, SendersHeld
  <2> HIDE DEF r
  <2>3. SendersHeld'
    BY <2>1, <2>2, HandSenders
  <2>4. QED
    BY <1>6, <2>1, <2>2, <2>3
<1>8. ASSUME NEW w \in Workers, SendEmpty(w)
      PROVE  FlightInv'
  <2>1. Hand(w, None) /\ work_queue' = work_queue
    BY <1>8 DEF SendEmpty
  <2>2. SendersHeld'
    BY <2>1, HandSenders
  <2>3. QED
    BY <1>6, <2>1, <2>2
<1>9. QED
  BY <1>1, <1>2, <1>3, <1>4, <1>5, <1>7, <1>8 DEF Manager

LEMMA NextFlight ==
  ASSUME TypeOK, Shapes, FlightInv, [Next]_vars
  PROVE  FlightInv'
<1>1. CASE \E w \in Workers : Worker(w)
  BY <1>1 DEF Worker, AwaitRequest, RunStages, FinishWorker, clientVars, channelVars,
              managerVars, FlightInv, AnnouncedOnce, RequestsTagged, SendersHeld
<1>2. CASE DropManager \/ Terminated \/ UNCHANGED vars
  BY <1>2 DEF DropManager, Terminated, vars, clientVars, channelVars, managerVars,
              FlightInv, AnnouncedOnce, RequestsTagged, SendersHeld
<1>3. QED
  BY <1>1, <1>2, ClientFlight, ManagerFlight DEF Next

LEMMA TypedFlight == Spec => [](TypeOK /\ Shapes /\ FlightInv)
<1>1. Init => FlightInv
  BY InitFlight
<1>2. TypeOK /\ Shapes /\ FlightInv /\ [Next]_vars => FlightInv'
  BY NextFlight
<1>3. QED
  BY <1>1, <1>2, TypedShapes, PTL DEF Spec

LEMMA FlightImplies ==
  ASSUME TypeOK, FlightInv
  PROVE  InFlightBatchesHaveSenders /\ ReusedIdIsFresh
<1>1. \A w \in Workers : ToSet(worker_queues[w]) \subseteq batch_senders \cup {None}
  BY DEF FlightInv, SendersHeld, ToSet
<1>2. InFlightBatchesHaveSenders
  BY <1>1 DEF FlightInv, SendersHeld, InFlightBatchesHaveSenders
<1>3. ReusedIdIsFresh
  <2> SUFFICES ASSUME NEW b \in ToSet(batches_channel)
               PROVE  /\ b \notin batch_senders \cup batch_receivers
                      /\ \A i \in DOMAIN work_queue : work_queue[i].batch_id # b
                      /\ \A w \in Workers : b \notin ToSet(worker_queues[w])
    BY DEF ReusedIdIsFresh
  <2>1. PICK i \in DOMAIN batches_channel : b = batches_channel[i]
    BY DEF ToSet
  <2>2. b \in Batches /\ b # None /\ b \notin batch_senders
    BY <2>1, NoneAssumption DEF TypeOK, FlightInv, AnnouncedOnce
  <2>3. QED
    BY <1>1, <2>2 DEF FlightInv, SendersHeld
<1>4. QED
  BY <1>2, <1>3

\* Nothing in flight belongs to a batch whose sender has been dropped.
THEOREM SendersOutliveFlights == Spec => []InFlightBatchesHaveSenders
  BY TypedFlight, FlightImplies, PTL

\* A reused batch id finds nothing of its previous use.
THEOREM ReusedIdsAreFresh == Spec => []ReusedIdIsFresh
  BY TypedFlight, FlightImplies, PTL

-----------------------------------------------------------------------------
(* The end of the manager's loop. *)

\* A worker is only given an empty message while its queue holds a batch.
BusyForBatch ==
  \A w \in Workers :
    worker[w] \in {"working", "sending"} =>
      \E i \in DOMAIN worker_queues[w] : worker_queues[w][i] # None

SendersGone == manager = "finished" => batch_senders = {}

LEMMA HandBusy ==
  ASSUME TypeOK, Shapes, BusyForBatch, NEW w \in Workers, NEW m \in Request \cup {None},
         Hand(w, m), m # None \/ \E i \in DOMAIN worker_queues[w] : worker_queues[w][i] # None
  PROVE  BusyForBatch'
<1> SUFFICES ASSUME NEW v \in Workers, worker'[v] \in {"working", "sending"}
             PROVE  \E i \in DOMAIN worker_queues'[v] : worker_queues'[v][i] # None
  BY DEF BusyForBatch
<1>1. /\ worker' = [worker EXCEPT ![w] = "working"]
      /\ worker_queues' = [worker_queues EXCEPT ![w] = Append(@, BatchOf(m))]
  BY DEF Hand
<1>2. CASE v # w
  BY <1>1, <1>2 DEF BusyForBatch, TypeOK
<1>3. CASE v = w /\ m # None
  <2>1. BatchOf(m) # None /\ BatchOf(m) \in Batches \cup {None}
    BY <1>3, BatchOfType
  <2>2. /\ worker_queues'[w] = Append(worker_queues[w], BatchOf(m))
        /\ worker_queues[w] \in Seq(Batches \cup {None})
    BY <1>1 DEF TypeOK
  <2>3. QED
    BY <1>3, <2>1, <2>2
<1>4. CASE v = w /\ \E i \in DOMAIN worker_queues[w] : worker_queues[w][i] # None
  <2>1. PICK i \in DOMAIN worker_queues[w] : worker_queues[w][i] # None
    BY <1>4
  <2>2. /\ worker_queues'[w] = Append(worker_queues[w], BatchOf(m))
        /\ worker_queues[w] \in Seq(Batches \cup {None})
    BY <1>1 DEF TypeOK
  <2>3. i \in DOMAIN worker_queues'[w] /\ worker_queues'[w][i] = worker_queues[w][i]
    BY <2>1, <2>2, BatchOfType
  <2>4. QED
    BY <1>4, <2>1, <2>3
<1>5. QED
  BY <1>2, <1>3, <1>4

LEMMA NextBusy ==
  ASSUME TypeOK, Shapes, BusyForBatch, [Next]_vars
  PROVE  BusyForBatch'
<1>1. ASSUME UNCHANGED <<worker, worker_queues>>
      PROVE  BusyForBatch'
  BY <1>1 DEF BusyForBatch
<1>2. ASSUME NEW w \in Workers, SendQueued(w) \/ Drain(w)
      PROVE  BusyForBatch'
  <2> DEFINE r == Head(work_queue)
  <2>1. Hand(w, r) /\ work_queue # <<>>
    BY <1>2 DEF SendQueued, Drain
  <2>2. r \in Request /\ r # None
    BY <2>1, NoneAssumption DEF TypeOK
  <2> HIDE DEF r
  <2>3. QED
    BY <2>1, <2>2, HandBusy
<1>3. ASSUME NEW w \in Workers, SendEmpty(w)
      PROVE  BusyForBatch'
  <2>1. Hand(w, None) /\ (Advance(w) \/ Flush(w))
    BY <1>3 DEF SendEmpty
  <2>2. \E i \in DOMAIN worker_queues[w] : worker_queues[w][i] # None
    <3>1. CASE Advance(w)
      BY <3>1 DEF Advance, TypeOK
    <3>2. CASE Flush(w)
      <4>1. PICK i \in DOMAIN worker_queues[w] : worker_queues[w][i] \in batches_to_flush
        BY <3>2 DEF Flush, ToSet
      <4>2. worker_queues[w][i] # None
        BY <4>1, NoneAssumption DEF TypeOK
      <4>3. QED
        BY <4>2
    <3>3. QED
      BY <2>1, <3>1, <3>2
  <2>3. QED
    BY <2>1, <2>2, HandBusy
<1>4. ASSUME NEW w \in Workers, Worker(w)
      PROVE  BusyForBatch'
  <2>1. /\ worker' = [worker EXCEPT ![w] = worker'[w]]
        /\ worker'[w] \in {"working", "sending"} => worker[w] = "working"
        /\ UNCHANGED worker_queues
    BY <1>4 DEF Worker, AwaitRequest, RunStages, FinishWorker, managerVars, TypeOK
  <2>2. \A v \in Workers : worker'[v] \in {"working", "sending"} =>
                             worker[v] \in {"working", "sending"}
    BY <2>1 DEF TypeOK
  <2>3. QED
    BY <2>1, <2>2 DEF BusyForBatch
<1>5. ASSUME NEW w \in Workers, ReceiveResult(w)
      PROVE  BusyForBatch'
  BY <1>5 DEF ReceiveResult, BusyForBatch, TypeOK
<1>6. CASE \E b \in Batches : Client(b)
  BY <1>1, <1>6 DEF Client, SendBatch, SendRequest, CloseRequests, ReturnResult,
                    managerVars, workerVars
<1>7. CASE DropManager \/ Terminated \/ UNCHANGED vars
  BY <1>1, <1>7 DEF DropManager, Terminated, vars, managerVars, workerVars
<1>8. CASE ReceiveBatch \/ BatchesDisconnected \/ EndTurn
  BY <1>1, <1>8 DEF ReceiveBatch, BatchesDisconnected, EndTurn, workerVars
<1>9. CASE \E b \in Batches : ReceiveRequest(b) \/ RequestsDisconnected(b)
  BY <1>1, <1>9 DEF ReceiveRequest, RequestsDisconnected, workerVars
<1>10. QED
  BY <1>2, <1>3, <1>4, <1>5, <1>6, <1>7, <1>8, <1>9 DEF Next, Manager

\* The manager leaves its loop for good, and only without senders.
LEMMA NextSendersGone ==
  ASSUME SendersGone, [Next]_vars
  PROVE  SendersGone'
<1>1. ASSUME UNCHANGED <<manager, batch_senders>>
      PROVE  SendersGone'
  BY <1>1 DEF SendersGone
<1>2. CASE \E b \in Batches : Client(b)
  BY <1>1, <1>2 DEF Client, SendBatch, SendRequest, CloseRequests, ReturnResult, managerVars
<1>3. CASE DropManager \/ Terminated \/ UNCHANGED vars
  BY <1>1, <1>3 DEF DropManager, Terminated, vars, managerVars
<1>4. CASE \E w \in Workers : Worker(w)
  BY <1>1, <1>4 DEF Worker, AwaitRequest, RunStages, FinishWorker, managerVars
<1>5. CASE EndTurn
  BY <1>5 DEF EndTurn, LoopEnds, SendersGone
<1>6. ASSUME Manager, ~EndTurn
      PROVE  SendersGone'
  BY <1>6 DEF Manager, ReceiveBatch, BatchesDisconnected, ReceiveRequest,
              RequestsDisconnected, ReceiveResult, SendQueued, SendEmpty, Drain, SendersGone
<1>7. QED
  BY <1>2, <1>3, <1>4, <1>5, <1>6 DEF Next

LEMMA TypedExit == Spec => [](TypeOK /\ Shapes /\ FlightInv /\ BusyForBatch /\ SendersGone)
<1>1. Init => BusyForBatch /\ SendersGone
  BY DEF Init, BusyForBatch, SendersGone
<1>2. TypeOK /\ Shapes /\ BusyForBatch /\ SendersGone /\ [Next]_vars
        => BusyForBatch' /\ SendersGone'
  BY NextBusy, NextSendersGone
<1>3. QED
  BY <1>1, <1>2, TypedFlight, PTL DEF Spec

LEMMA ExitIsClean ==
  ASSUME TypeOK, Shapes, FlightInv, BusyForBatch, SendersGone
  PROVE  CleanExit
<1> SUFFICES ASSUME batch_senders = {}
             PROVE  /\ work_queue = <<>>
                    /\ \A w \in Workers :
                         /\ worker[w] \in {"looping", "receiving", "finished"}
                         /\ phase_one[w] = None /\ phase_two[w] = None
  BY DEF CleanExit, SendersGone
<1>1. work_queue = <<>>
  <2> SUFFICES ASSUME work_queue # <<>> PROVE FALSE
    OBVIOUS
  <2>1. 1 \in DOMAIN work_queue
    BY HeadElement DEF TypeOK
  <2>2. QED
    BY <2>1 DEF FlightInv, SendersHeld
<1>2. ASSUME NEW w \in Workers
      PROVE  /\ worker[w] \in {"looping", "receiving", "finished"}
             /\ phase_one[w] = None /\ phase_two[w] = None
  <2>1. \A i \in DOMAIN worker_queues[w] : worker_queues[w][i] = None
    BY DEF FlightInv, SendersHeld
  <2>2. worker[w] \in {"looping", "receiving", "finished"}
    BY <2>1 DEF BusyForBatch, TypeOK
  <2>3. Slots(worker_queues[w], phase_two[w], phase_one[w])
    BY <2>2 DEF Shapes, Shape
  <2>4. BatchOf(phase_two[w]) = None /\ BatchOf(phase_one[w]) = None
    BY <2>1, <2>3 DEF Slots, TypeOK
  <2>5. QED
    BY <2>2, <2>4, BatchOfType DEF TypeOK
<1>3. QED
  BY <1>1, <1>2

\* When the manager has left its loop no worker holds or offers anything: every
\* message a worker can still be busy with was sent for the sake of a batch, and
\* the loop does not end while the sender of a batch is held.
THEOREM ExitsClean == Spec => []CleanExit
  BY TypedExit, ExitIsClean, PTL

-----------------------------------------------------------------------------
(* Where a request is. *)

IsPlace(p, r) ==
  \/ \E b \in Batches : \E i \in Positions(requests_channel[b], r) : p = <<"channel", b, i>>
  \/ \E i \in Positions(work_queue, r) : p = <<"queue", 0, i>>
  \/ \E w \in Workers : \E i \in Positions(Pipeline(w), r) : p = <<"worker", w, i>>

LEMMA PlacesAre == \A r, p : p \in Places(r) <=> IsPlace(p, r)
<1> SUFFICES ASSUME NEW r, NEW p PROVE p \in Places(r) <=> IsPlace(p, r)
  OBVIOUS
<1>1. \A kind, index, s :
        p \in SlotsOf(kind, index, s, r) <=>
          \E i \in Positions(s, r) : p = <<kind, index, i>>
  BY DEF SlotsOf
<1>2. p \in ChannelPlaces(r) <=>
        \E b \in Batches : p \in SlotsOf("channel", b, requests_channel[b], r)
  BY DEF ChannelPlaces
<1>3. p \in PipelinePlaces(r) <=>
        \E w \in Workers : p \in SlotsOf("worker", w, Pipeline(w), r)
  BY DEF PipelinePlaces
<1>4. QED
  BY <1>1, <1>2, <1>3 DEF Places, IsPlace

LEMMA PlacesArePrimed == (\A r, p : p \in Places(r) <=> IsPlace(p, r))'
  BY PlacesAre, PTL

LEMMA AppendPositions ==
  ASSUME NEW S, NEW q \in Seq(S), NEW e \in S, NEW r, NEW i
  PROVE  i \in Positions(Append(q, e), r) <=>
           i \in Positions(q, r) \/ (i = Len(q) + 1 /\ e = r)
<1>1. DOMAIN q = 1..Len(q) /\ DOMAIN Append(q, e) = 1..(Len(q) + 1)
  OBVIOUS
<1>2. QED
  BY <1>1 DEF Positions

LEMMA TailPositions ==
  ASSUME NEW S, NEW q \in Seq(S), q # <<>>, NEW r
  PROVE  /\ \A i \in Positions(Tail(q), r) : i + 1 \in Positions(q, r)
         /\ \A i \in Positions(q, r) : i # 1 => i - 1 \in Positions(Tail(q), r)
         /\ \A i \in Positions(Tail(q), r) : i \in Nat \ {0}
         /\ \A i \in Positions(q, r) : i \in Nat \ {0}
         /\ 1 \in Positions(q, r) <=> Head(q) = r
<1>1. /\ DOMAIN q = 1..Len(q) /\ DOMAIN Tail(q) = 1..(Len(q) - 1) /\ Len(q) \in Nat
      /\ \A i \in 1..(Len(q) - 1) : Tail(q)[i] = q[i + 1]
      /\ 1 \in DOMAIN q /\ Head(q) = q[1]
  OBVIOUS
<1>2. QED
  BY <1>1 DEF Positions

\* The pipeline of a worker is what the manager sees it as: messages enter at
\* the end and answers leave at the front, whatever the worker does in between.
LEMMA PipelineType ==
  ASSUME TypeOK, NEW w \in Workers
  PROVE  Pipeline(w) \in Seq(Request \cup {None})
<1>1. CASE worker[w] = "working"
  BY <1>1 DEF Pipeline, TypeOK
<1>2. CASE worker[w] = "sending"
  BY <1>2 DEF Pipeline, TypeOK
<1>3. CASE worker[w] # "working" /\ worker[w] # "sending"
  <2>1. Pipeline(w) = <<phase_two[w], phase_one[w]>>
    BY <1>3 DEF Pipeline
  <2>2. QED
    BY <2>1 DEF TypeOK
<1>4. QED
  BY <1>1, <1>2, <1>3

LEMMA HandPipeline ==
  ASSUME TypeOK, NEW w \in Workers, NEW m \in Request \cup {None}, Hand(w, m)
  PROVE  /\ Pipeline(w)' = Append(Pipeline(w), m)
         /\ \A v \in Workers : v # w => Pipeline(v)' = Pipeline(v)
<1>1. /\ worker[w] = "receiving"
      /\ worker' = [worker EXCEPT ![w] = "working"]
      /\ request' = [request EXCEPT ![w] = m]
      /\ UNCHANGED <<phase_one, phase_two, result>>
  BY DEF Hand
<1>2. Pipeline(w) = <<phase_two[w], phase_one[w]>>
  BY <1>1 DEF Pipeline
<1>3. Pipeline(w)' = <<phase_two[w], phase_one[w], m>>
  BY <1>1 DEF Pipeline, TypeOK
<1>4. ASSUME NEW v \in Workers, v # w
      PROVE  Pipeline(v)' = Pipeline(v)
  BY <1>1, <1>4 DEF Pipeline, TypeOK
<1>5. QED
  BY <1>2, <1>3, <1>4

LEMMA ReceivePipeline ==
  ASSUME TypeOK, NEW w \in Workers, ReceiveResult(w)
  PROVE  /\ Pipeline(w) # <<>> /\ Head(Pipeline(w)) = result[w]
         /\ Pipeline(w)' = Tail(Pipeline(w))
         /\ \A v \in Workers : v # w => Pipeline(v)' = Pipeline(v)
<1>1. /\ worker[w] = "sending"
      /\ worker' = [worker EXCEPT ![w] = "looping"]
      /\ result' = [result EXCEPT ![w] = None]
      /\ UNCHANGED <<request, phase_one, phase_two>>
  BY DEF ReceiveResult
<1>2. Pipeline(w) = <<result[w], phase_two[w], phase_one[w]>>
  BY <1>1 DEF Pipeline
<1>3. Pipeline(w)' = <<phase_two[w], phase_one[w]>>
  BY <1>1 DEF Pipeline, TypeOK
<1>4. ASSUME NEW v \in Workers, v # w
      PROVE  Pipeline(v)' = Pipeline(v)
  BY <1>1, <1>4 DEF Pipeline, TypeOK
<1>5. QED
  BY <1>2, <1>3, <1>4

LEMMA WorkerPipeline ==
  ASSUME TypeOK, NEW w \in Workers, Worker(w), NEW v \in Workers
  PROVE  Pipeline(v)' = Pipeline(v)
<1>1. CASE AwaitRequest(w)
  BY <1>1 DEF AwaitRequest, Pipeline, TypeOK
<1>2. CASE RunStages(w)
  BY <1>2 DEF RunStages, Completed, Pipeline, TypeOK
<1>3. CASE FinishWorker(w)
  BY <1>3 DEF FinishWorker, Pipeline, TypeOK
<1>4. QED
  BY <1>1, <1>2, <1>3 DEF Worker

-----------------------------------------------------------------------------
(* Requests move from place to place. *)

\* The new places of r are the images of the old ones.
KeepsPlaces(r) ==
  /\ Places(r) = {} => Places(r)' = {}
  /\ (\E p \in Places(r) : Places(r) = {p}) => \E p \in Places(r)' : Places(r)' = {p}

LEMMA SamePlaces ==
  ASSUME UNCHANGED <<requests_channel, work_queue>>,
         \A w \in Workers : Pipeline(w)' = Pipeline(w), NEW r
  PROVE  Places(r)' = Places(r)
<1>1. \A p : IsPlace(p, r)' <=> IsPlace(p, r)
  BY DEF IsPlace
<1>2. \A p : p \in Places(r)' <=> p \in Places(r)
  BY <1>1, PlacesAre, PlacesArePrimed
<1>3. QED
  BY <1>2

\* The first request of a channel moves to the end of the work queue.
LEMMA ReceiveRequestPlaces ==
  ASSUME TypeOK, NEW b \in Batches, ReceiveRequest(b), NEW r
  PROVE  KeepsPlaces(r)
<1>0. PICK end : end = Len(work_queue) + 1
  OBVIOUS
<1> DEFINE q == requests_channel[b]
           Move(p) == IF p[1] # "channel" \/ p[2] # b THEN p
                      ELSE IF p[3] = 1 THEN <<"queue", 0, end>>
                      ELSE <<"channel", b, p[3] - 1>>
<1>1. /\ q \in Seq(Request) /\ q # <<>> /\ Head(q) \in Request
      /\ requests_channel'[b] = Tail(q)
      /\ \A c \in Batches : c # b => requests_channel'[c] = requests_channel[c]
      /\ work_queue' = Append(work_queue, Head(q))
      /\ work_queue \in Seq(Request)
  BY DEF ReceiveRequest, TypeOK
<1>2. \A w \in Workers : Pipeline(w)' = Pipeline(w)
  BY DEF ReceiveRequest, workerVars, Pipeline
<1>3. \A i : i \in Positions(work_queue', r) <=>
               i \in Positions(work_queue, r) \/ (i = end /\ Head(q) = r)
  BY <1>0, <1>1, AppendPositions
<1>4. /\ \A i \in Positions(Tail(q), r) : i + 1 \in Positions(q, r)
      /\ \A i \in Positions(q, r) : i # 1 => i - 1 \in Positions(Tail(q), r)
      /\ \A i \in Positions(Tail(q), r) : i \in Nat \ {0}
      /\ 1 \in Positions(q, r) <=> Head(q) = r
  BY <1>1, TailPositions
<1>5. ASSUME NEW p \in Places(r)
      PROVE  Move(p) \in Places(r)'
  <2>1. IsPlace(p, r)
    BY PlacesAre
  <2>2. ASSUME NEW c \in Batches, NEW i \in Positions(requests_channel[c], r),
               p = <<"channel", c, i>>
        PROVE  IsPlace(Move(p), r)'
    <3>1. CASE c # b
      BY <1>1, <2>2, <3>1 DEF IsPlace
    <3>2. CASE c = b /\ i = 1
      <4>1. end \in Positions(work_queue', r)
        BY <1>3, <1>4, <2>2, <3>2
      <4>2. Move(p) = <<"queue", 0, end>>
        BY <2>2, <3>2
      <4>3. QED
        BY <4>1, <4>2 DEF IsPlace
    <3>3. CASE c = b /\ i # 1
      <4>1. i - 1 \in Positions(requests_channel'[b], r)
        BY <1>1, <1>4, <2>2, <3>3
      <4>2. Move(p) = <<"channel", b, i - 1>>
        BY <2>2, <3>3
      <4>3. QED
        BY <4>1, <4>2 DEF IsPlace
    <3>4. QED
      BY <3>1, <3>2, <3>3
  <2>3. ASSUME NEW i \in Positions(work_queue, r), p = <<"queue", 0, i>>
        PROVE  IsPlace(Move(p), r)'
    BY <1>3, <2>3 DEF IsPlace
  <2>4. ASSUME NEW w \in Workers, NEW i \in Positions(Pipeline(w), r),
               p = <<"worker", w, i>>
        PROVE  IsPlace(Move(p), r)'
    BY <1>2, <2>4 DEF IsPlace
  <2>5. IsPlace(Move(p), r)'
    BY <2>1, <2>2, <2>3, <2>4 DEF IsPlace
  <2> HIDE DEF Move
  <2>6. QED
    BY <2>5, PlacesArePrimed
<1>6. ASSUME NEW z \in Places(r)'
      PROVE  \E p \in Places(r) : z = Move(p)
  <2>1. IsPlace(z, r)'
    BY PlacesArePrimed
  <2>2. ASSUME NEW c \in Batches, NEW i \in Positions(requests_channel'[c], r),
               z = <<"channel", c, i>>
        PROVE  \E p : IsPlace(p, r) /\ z = Move(p)
    <3>1. CASE c # b
      <4>1. z = Move(z)
        BY <2>2, <3>1
      <4>2. IsPlace(z, r)
        BY <1>1, <2>2, <3>1 DEF IsPlace
      <4>3. QED
        BY <4>1, <4>2
    <3>2. CASE c = b
      <4>1. i \in Nat \ {0} /\ i + 1 \in Positions(q, r)
        BY <1>1, <1>4, <2>2, <3>2
      <4>2. z = Move(<<"channel", b, i + 1>>)
        BY <2>2, <3>2, <4>1
      <4>3. IsPlace(<<"channel", b, i + 1>>, r)
        BY <4>1 DEF IsPlace
      <4>4. QED
        BY <4>2, <4>3
    <3> HIDE DEF Move
    <3>3. QED
      BY <3>1, <3>2
  <2>3. ASSUME NEW i \in Positions(work_queue', r), z = <<"queue", 0, i>>
        PROVE  \E p : IsPlace(p, r) /\ z = Move(p)
    <3>1. CASE i \in Positions(work_queue, r)
      <4>1. z = Move(z) /\ IsPlace(z, r)
        BY <2>3, <3>1 DEF IsPlace
      <4>2. QED
        BY <4>1
    <3>2. CASE i = end /\ 1 \in Positions(q, r)
      <4>1. z = Move(<<"channel", b, 1>>)
        BY <2>3, <3>2
      <4>2. IsPlace(<<"channel", b, 1>>, r)
        BY <3>2 DEF IsPlace
      <4>3. QED
        BY <4>1, <4>2
    <3>3. QED
      BY <1>3, <1>4, <3>1, <3>2
  <2>4. ASSUME NEW w \in Workers, NEW i \in Positions(Pipeline(w)', r),
               z = <<"worker", w, i>>
        PROVE  \E p : IsPlace(p, r) /\ z = Move(p)
    <3>1. z = Move(z) /\ IsPlace(z, r)
      BY <1>2, <2>4 DEF IsPlace
    <3>2. QED
      BY <3>1
  <2>5. \E p : IsPlace(p, r) /\ z = Move(p)
    BY <2>1, <2>2, <2>3, <2>4 DEF IsPlace
  <2>6. QED
    BY <2>5, PlacesAre
<1> HIDE DEF Move
<1>7. QED
  BY <1>5, <1>6 DEF KeepsPlaces

\* The first request of the work queue moves to the end of a pipeline.
LEMMA HandQueuedPlaces ==
  ASSUME TypeOK, NEW w \in Workers, work_queue # <<>>, Hand(w, Head(work_queue)),
         work_queue' = Tail(work_queue), NEW r
  PROVE  KeepsPlaces(r)
<1>0. PICK end : end = Len(Pipeline(w)) + 1
  OBVIOUS
<1> DEFINE q == work_queue
           Move(p) == IF p[1] # "queue" THEN p
                      ELSE IF p[3] = 1 THEN <<"worker", w, end>>
                      ELSE <<"queue", 0, p[3] - 1>>
<1>1. /\ q \in Seq(Request) /\ Head(q) \in Request \cup {None}
      /\ UNCHANGED requests_channel
  BY DEF Hand, channelVars, TypeOK
<1>2. /\ Pipeline(w) \in Seq(Request \cup {None})
      /\ Pipeline(w)' = Append(Pipeline(w), Head(q))
      /\ \A v \in Workers : v # w => Pipeline(v)' = Pipeline(v)
  BY <1>1, HandPipeline, PipelineType
<1>3. \A i : i \in Positions(Pipeline(w)', r) <=>
               i \in Positions(Pipeline(w), r) \/ (i = end /\ Head(q) = r)
  BY <1>0, <1>1, <1>2, AppendPositions
<1>4. /\ \A i \in Positions(Tail(q), r) : i + 1 \in Positions(q, r)
      /\ \A i \in Positions(q, r) : i # 1 => i - 1 \in Positions(Tail(q), r)
      /\ \A i \in Positions(Tail(q), r) : i \in Nat \ {0}
      /\ 1 \in Positions(q, r) <=> Head(q) = r
  BY <1>1, TailPositions
<1>5. ASSUME NEW p \in Places(r)
      PROVE  Move(p) \in Places(r)'
  <2>1. IsPlace(p, r)
    BY PlacesAre
  <2>2. ASSUME NEW c \in Batches, NEW i \in Positions(requests_channel[c], r),
               p = <<"channel", c, i>>
        PROVE  IsPlace(Move(p), r)'
    BY <1>1, <2>2 DEF IsPlace
  <2>3. ASSUME NEW i \in Positions(work_queue, r), p = <<"queue", 0, i>>
        PROVE  IsPlace(Move(p), r)'
    <3>1. CASE i = 1
      <4>1. end \in Positions(Pipeline(w)', r)
        BY <1>3, <1>4, <2>3, <3>1
      <4>2. Move(p) = <<"worker", w, end>>
        BY <2>3, <3>1
      <4>3. QED
        BY <4>1, <4>2 DEF IsPlace
    <3>2. CASE i # 1
      <4>1. i - 1 \in Positions(work_queue', r)
        BY <1>4, <2>3, <3>2
      <4>2. Move(p) = <<"queue", 0, i - 1>>
        BY <2>3, <3>2
      <4>3. QED
        BY <4>1, <4>2 DEF IsPlace
    <3>3. QED
      BY <3>1, <3>2
  <2>4. ASSUME NEW v \in Workers, NEW i \in Positions(Pipeline(v), r),
               p = <<"worker", v, i>>
        PROVE  IsPlace(Move(p), r)'
    <3>1. i \in Positions(Pipeline(v)', r)
      BY <1>2, <1>3, <2>4
    <3>2. Move(p) = p
      BY <2>4
    <3>3. QED
      BY <2>4, <3>1, <3>2 DEF IsPlace
  <2>5. IsPlace(Move(p), r)'
    BY <2>1, <2>2, <2>3, <2>4 DEF IsPlace
  <2> HIDE DEF Move
  <2>6. QED
    BY <2>5, PlacesArePrimed
<1>6. ASSUME NEW z \in Places(r)'
      PROVE  \E p \in Places(r) : z = Move(p)
  <2>1. IsPlace(z, r)'
    BY PlacesArePrimed
  <2>2. ASSUME NEW c \in Batches, NEW i \in Positions(requests_channel'[c], r),
               z = <<"channel", c, i>>
        PROVE  \E p : IsPlace(p, r) /\ z = Move(p)
    <3>1. z = Move(z) /\ IsPlace(z, r)
      BY <1>1, <2>2 DEF IsPlace
    <3>2. QED
      BY <3>1
  <2>3. ASSUME NEW i \in Positions(work_queue', r), z = <<"queue", 0, i>>
        PROVE  \E p : IsPlace(p, r) /\ z = Move(p)
    <3>1. i \in Nat \ {0} /\ i + 1 \in Positions(q, r)
      BY <1>4, <2>3
    <3>2. z = Move(<<"queue", 0, i + 1>>)
      BY <2>3, <3>1
    <3>3. IsPlace(<<"queue", 0, i + 1>>, r)
      BY <3>1 DEF IsPlace
    <3> HIDE DEF Move
    <3>4. QED
      BY <3>2, <3>3
  <2>4. ASSUME NEW v \in Workers, NEW i \in Positions(Pipeline(v)', r),
               z = <<"worker", v, i>>
        PROVE  \E p : IsPlace(p, r) /\ z = Move(p)
    <3>1. CASE i \in Positions(Pipeline(v), r)
      <4>1. z = Move(z) /\ IsPlace(z, r)
        BY <2>4, <3>1 DEF IsPlace
      <4>2. QED
        BY <4>1
    <3>2. CASE v = w /\ i = end /\ 1 \in Positions(q, r)
      <4>1. z = Move(<<"queue", 0, 1>>)
        BY <2>4, <3>2
      <4>2. IsPlace(<<"queue", 0, 1>>, r)
        BY <3>2 DEF IsPlace
      <4>3. QED
        BY <4>1, <4>2
    <3>3. i \in Positions(Pipeline(v), r) \/ (v = w /\ i = end /\ 1 \in Positions(q, r))
      <4>1. CASE v = w
        BY <1>3, <1>4, <2>4, <4>1
      <4>2. CASE v # w
        BY <1>2, <2>4, <4>2
      <4>3. QED
        BY <4>1, <4>2
    <3> HIDE DEF Move
    <3>4. QED
      BY <3>1, <3>2, <3>3
  <2>5. \E p : IsPlace(p, r) /\ z = Move(p)
    BY <2>1, <2>2, <2>3, <2>4 DEF IsPlace
  <2>6. QED
    BY <2>5, PlacesAre
<1> HIDE DEF Move
<1>7. QED
  BY <1>5, <1>6 DEF KeepsPlaces

\* An empty message moves no request.
LEMMA HandEmptyPlaces ==
  ASSUME TypeOK, NEW w \in Workers, Hand(w, None), UNCHANGED work_queue, NEW r \in Request
  PROVE  Places(r)' = Places(r)
<1>1. /\ Pipeline(w) \in Seq(Request \cup {None})
      /\ Pipeline(w)' = Append(Pipeline(w), None)
      /\ \A v \in Workers : v # w => Pipeline(v)' = Pipeline(v)
  BY HandPipeline, PipelineType
<1>2. None # r /\ UNCHANGED requests_channel
  BY NoneAssumption DEF Hand, channelVars
<1>3. \A i : i \in Positions(Pipeline(w)', r) <=> i \in Positions(Pipeline(w), r)
  BY <1>1, <1>2, AppendPositions
<1>4. \A v \in Workers : \A i :
        i \in Positions(Pipeline(v)', r) <=> i \in Positions(Pipeline(v), r)
  BY <1>1, <1>3
<1>5. \A p : IsPlace(p, r)' <=> IsPlace(p, r)
  BY <1>2, <1>4 DEF IsPlace
<1>6. \A p : p \in Places(r)' <=> p \in Places(r)
  BY <1>5, PlacesAre, PlacesArePrimed
<1>7. QED
  BY <1>6

\* A result leaves the front of a pipeline, and the others of it move up.
LEMMA ReceiveResultPlaces ==
  ASSUME TypeOK, NEW w \in Workers, ReceiveResult(w), NEW r
  PROVE  /\ result[w] = r => /\ Places(r) # {}
                             /\ (\E p \in Places(r) : Places(r) = {p}) => Places(r)' = {}
         /\ result[w] # r => KeepsPlaces(r)
<1> DEFINE front == <<"worker", w, 1>>
           Move(p) == IF p[1] = "worker" /\ p[2] = w THEN <<"worker", w, p[3] - 1>> ELSE p
<1>1. UNCHANGED <<requests_channel, work_queue>>
  BY DEF ReceiveResult, channelVars
<1>2. /\ Pipeline(w) \in Seq(Request \cup {None})
      /\ Pipeline(w) # <<>> /\ Head(Pipeline(w)) = result[w]
      /\ Pipeline(w)' = Tail(Pipeline(w))
      /\ \A v \in Workers : v # w => Pipeline(v)' = Pipeline(v)
  BY ReceivePipeline, PipelineType
<1>3. /\ \A i \in Positions(Pipeline(w)', r) : i + 1 \in Positions(Pipeline(w), r)
      /\ \A i \in Positions(Pipeline(w), r) : i # 1 => i - 1 \in Positions(Pipeline(w)', r)
      /\ \A i \in Positions(Pipeline(w)', r) : i \in Nat \ {0}
      /\ 1 \in Positions(Pipeline(w), r) <=> result[w] = r
  BY <1>2, TailPositions
<1>4. front \in Places(r) <=> result[w] = r
  <2>1. IsPlace(front, r) <=> 1 \in Positions(Pipeline(w), r)
    BY DEF IsPlace
  <2>2. QED
    BY <1>3, <2>1, PlacesAre
<1>5. ASSUME NEW p \in Places(r), p # front
      PROVE  Move(p) \in Places(r)'
  <2>1. IsPlace(p, r)
    BY PlacesAre
  <2>2. CASE \E b \in Batches : \E i \in Positions(requests_channel[b], r) :
               p = <<"channel", b, i>>
    <3>1. Move(p) = p
      BY <2>2
    <3>2. QED
      BY <1>1, <2>2, <3>1, PlacesArePrimed DEF IsPlace
  <2>3. CASE \E i \in Positions(work_queue, r) : p = <<"queue", 0, i>>
    <3>1. Move(p) = p
      BY <2>3
    <3>2. QED
      BY <1>1, <2>3, <3>1, PlacesArePrimed DEF IsPlace
  <2>4. ASSUME NEW v \in Workers, NEW i \in Positions(Pipeline(v), r),
               p = <<"worker", v, i>>
        PROVE  IsPlace(Move(p), r)'
    <3>1. CASE v # w
      <4>1. Move(p) = p
        BY <2>4, <3>1
      <4>2. QED
        BY <1>2, <2>4, <3>1, <4>1 DEF IsPlace
    <3>2. CASE v = w
      <4>1. i # 1
        BY <1>5, <2>4, <3>2
      <4>2. i - 1 \in Positions(Pipeline(w)', r)
        BY <1>3, <2>4, <3>2, <4>1
      <4>3. Move(p) = <<"worker", w, i - 1>>
        BY <2>4, <3>2
      <4>4. QED
        BY <4>2, <4>3 DEF IsPlace
    <3>3. QED
      BY <3>1, <3>2
  <2> HIDE DEF Move
  <2>5. QED
    BY <2>1, <2>2, <2>3, <2>4, PlacesArePrimed DEF IsPlace
<1>6. ASSUME NEW z \in Places(r)'
      PROVE  \E p \in Places(r) : p # front /\ z = Move(p)
  <2>1. IsPlace(z, r)'
    BY PlacesArePrimed
  <2>2. ASSUME NEW c \in Batches, NEW i \in Positions(requests_channel'[c], r),
               z = <<"channel", c, i>>
        PROVE  \E p : IsPlace(p, r) /\ p # front /\ z = Move(p)
    <3>1. z = Move(z) /\ z # front /\ IsPlace(z, r)
      BY <1>1, <2>2 DEF IsPlace
    <3>2. QED
      BY <3>1
  <2>3. ASSUME NEW i \in Positions(work_queue', r), z = <<"queue", 0, i>>
        PROVE  \E p : IsPlace(p, r) /\ p # front /\ z = Move(p)
    <3>1. z = Move(z) /\ z # front /\ IsPlace(z, r)
      BY <1>1, <2>3 DEF IsPlace
    <3>2. QED
      BY <3>1
  <2>4. ASSUME NEW v \in Workers, NEW i \in Positions(Pipeline(v)', r),
               z = <<"worker", v, i>>
        PROVE  \E p : IsPlace(p, r) /\ p # front /\ z = Move(p)
    <3>1. CASE v # w
      <4>1. z = Move(z) /\ z # front /\ IsPlace(z, r)
        BY <1>2, <2>4, <3>1 DEF IsPlace
      <4>2. QED
        BY <4>1
    <3>2. CASE v = w
      <4>1. i \in Nat \ {0} /\ i + 1 \in Positions(Pipeline(w), r)
        BY <1>3, <2>4, <3>2
      <4>2. z = Move(<<"worker", w, i + 1>>) /\ <<"worker", w, i + 1>> # front
        BY <2>4, <3>2, <4>1
      <4>3. IsPlace(<<"worker", w, i + 1>>, r)
        BY <4>1 DEF IsPlace
      <4>4. QED
        BY <4>2, <4>3
    <3> HIDE DEF Move
    <3>3. QED
      BY <3>1, <3>2
  <2> HIDE DEF Move, front
  <2>5. QED
    BY <2>1, <2>2, <2>3, <2>4, PlacesAre DEF IsPlace
<1> HIDE DEF Move, front
<1>7. QED
  BY <1>4, <1>5, <1>6 DEF KeepsPlaces

-----------------------------------------------------------------------------
(* No request is lost or duplicated. *)

\* The manager knows, or is about to know, every batch that can still be sent
\* requests or has some in its channel.
CallsKnown ==
  \A b \in Batches :
    client[b] = "open" \/ requests_channel[b] # <<>> =>
      b \in batch_receivers \/ \E i \in DOMAIN batches_channel : batches_channel[i] = b

AnsweredWereSent == \A b \in Batches : answered[b] \subseteq 1..sent[b]

LEMMA InitConserved == Init => RequestsConserved /\ AnsweredWereSent /\ CallsKnown
<1> SUFFICES ASSUME Init PROVE RequestsConserved /\ AnsweredWereSent /\ CallsKnown
  OBVIOUS
<1>1. ASSUME NEW r \in Request
      PROVE  Places(r) = {}
  <2>1. \A w \in Workers : Pipeline(w) = <<None, None>>
    BY DEF Init, Pipeline
  <2>2. r # None
    BY NoneAssumption
  <2>3. \A s \in {<<>>, <<None, None>>} : Positions(s, r) = {}
    BY <2>2 DEF Positions
  <2>4. \A p : ~ IsPlace(p, r)
    BY <2>1, <2>3 DEF IsPlace, Init
  <2>5. QED
    BY <2>4, PlacesAre
<1>2. \A b \in Batches : Unanswered(b) = {}
  BY DEF Init, Unanswered
<1>3. RequestsConserved
  BY <1>1, <1>2 DEF RequestsConserved, Request
<1>4. AnsweredWereSent /\ CallsKnown
  BY DEF Init, AnsweredWereSent, CallsKnown
<1>5. QED
  BY <1>3, <1>4

\* Requests that only move, with the same ones unanswered.
LEMMA MovesConserve ==
  ASSUME RequestsConserved, UNCHANGED <<sent, answered>>,
         \A r \in Request : KeepsPlaces(r)
  PROVE  RequestsConserved'
<1>1. \A b : Unanswered(b)' = Unanswered(b)
  BY DEF Unanswered
<1>2. QED
  BY <1>1 DEF RequestsConserved, KeepsPlaces

LEMMA StillConserve ==
  ASSUME RequestsConserved, UNCHANGED <<sent, answered>>,
         \A r \in Request : Places(r)' = Places(r)
  PROVE  RequestsConserved'
  BY MovesConserve DEF KeepsPlaces

\* What is not answered is somewhere, and what is somewhere keeps its sender: a
\* call whose result channel has lost its senders has all its answers.
LEMMA NothingLeft ==
  ASSUME TypeOK, Shapes, FlightInv, RequestsConserved, CallsKnown,
         NEW b \in Batches, ReturnResult(b)
  PROVE  Unanswered(b) = {}
<1> SUFFICES ASSUME NEW id \in Unanswered(b) PROVE FALSE
  OBVIOUS
<1> DEFINE r == [batch_id |-> b, sequence_id |-> id]
<1>1. r \in Request /\ r.batch_id = b /\ r.sequence_id = id /\ r # None
  BY NoneAssumption, MaxRequestsAssumption DEF Request, Unanswered, TypeOK
<1>2. BatchOf(r) = b
  BY <1>1 DEF BatchOf
<1> HIDE DEF r
<1>3. b \notin batch_senders /\ \A i \in DOMAIN batches_channel : batches_channel[i] # b
  BY DEF ReturnResult, ToSet
<1>4. PICK p : IsPlace(p, r)
  BY <1>1, PlacesAre DEF RequestsConserved
<1>5. ASSUME NEW c \in Batches, NEW i \in Positions(requests_channel[c], r)
      PROVE  FALSE
  <2>1. i \in DOMAIN requests_channel[c] /\ requests_channel[c][i] = r
    BY DEF Positions
  <2>2. c = b
    BY <1>1, <2>1 DEF FlightInv, RequestsTagged
  <2>3. requests_channel[b] # <<>>
    BY <2>1, <2>2
  <2>4. QED
    BY <1>3, <2>3 DEF CallsKnown, FlightInv, SendersHeld
<1>6. ASSUME NEW i \in Positions(work_queue, r)
      PROVE  FALSE
  BY <1>1, <1>3 DEF Positions, FlightInv, SendersHeld
<1>7. ASSUME NEW w \in Workers, NEW i \in Positions(Pipeline(w), r)
      PROVE  FALSE
  <2>1. i \in DOMAIN Pipeline(w) /\ Pipeline(w)[i] = r
    BY DEF Positions
  <2>2. i \in DOMAIN worker_queues[w] /\ worker_queues[w][i] = b
    BY <1>2, <2>1, MirrorIsShapes, PipelineType DEF QueueMirrorsPipeline, TypeOK
  <2>3. b # None
    BY NoneAssumption
  <2>4. QED
    BY <1>3, <2>2, <2>3 DEF FlightInv, SendersHeld
<1>8. QED
  BY <1>4, <1>5, <1>6, <1>7 DEF IsPlace

\* A caller's step: a new request appears at the end of its channel, or a call
\* ends that left nothing anywhere.
LEMMA ClientConserves ==
  ASSUME TypeOK, Shapes, FlightInv, RequestsConserved, AnsweredWereSent, CallsKnown,
         NEW b \in Batches, Client(b)
  PROVE  RequestsConserved'
<1>1. \A w \in Workers : Pipeline(w)' = Pipeline(w)
  BY DEF Client, SendBatch, SendRequest, CloseRequests, ReturnResult, workerVars, Pipeline
<1>2. CASE SendBatch(b) \/ CloseRequests(b)
  <2>1. UNCHANGED <<sent, answered, requests_channel, work_queue>>
    BY <1>2 DEF SendBatch, CloseRequests, managerVars, channelVars
  <2>2. QED
    BY <1>1, <2>1, SamePlaces, StillConserve
<1>3. CASE SendRequest(b)
  <2>0. PICK id : id = sent[b] + 1
    OBVIOUS
  <2>1. PICK n : n = Len(requests_channel[b]) + 1
    OBVIOUS
  <2>13. PICK new : new = [batch_id |-> b, sequence_id |-> id]
    OBVIOUS
  <2>2. /\ sent' = [sent EXCEPT ![b] = id]
        /\ requests_channel' = [requests_channel EXCEPT ![b] = Append(@, new)]
        /\ UNCHANGED <<answered, work_queue>>
        /\ sent[b] \in Nat /\ id \in 1..MaxRequests
    BY <1>3, <2>0, <2>13, MaxRequestsAssumption DEF SendRequest, managerVars, TypeOK
  <2>3. new \in Request /\ new.batch_id = b /\ new.sequence_id = id
    BY <2>2, <2>13 DEF Request
  <2>4. requests_channel[b] \in Seq(Request)
    BY DEF TypeOK
  <2>5. \A r, i : i \in Positions(requests_channel'[b], r) <=>
                    i \in Positions(requests_channel[b], r) \/ (i = n /\ new = r)
    BY <2>1, <2>2, <2>3, <2>4, AppendPositions DEF TypeOK
  <2>6. \A c \in Batches : c # b => requests_channel'[c] = requests_channel[c]
    BY <2>2 DEF TypeOK
  <2>7. \A r : new # r => Places(r)' = Places(r)
    <3> SUFFICES ASSUME NEW r, new # r PROVE Places(r)' = Places(r)
      OBVIOUS
    <3>1. \A c \in Batches : \A i : i \in Positions(requests_channel'[c], r) <=>
                                    i \in Positions(requests_channel[c], r)
      BY <2>5, <2>6
    <3>2. \A p : IsPlace(p, r)' <=> IsPlace(p, r)
      BY <1>1, <2>2, <3>1 DEF IsPlace
    <3>3. \A p : p \in Places(r)' <=> p \in Places(r)
      BY <3>2, PlacesAre, PlacesArePrimed
    <3>4. QED
      BY <3>3
  <2>8. Places(new) = {} => Places(new)' = {<<"channel", b, n>>}
    <3> SUFFICES ASSUME Places(new) = {} PROVE Places(new)' = {<<"channel", b, n>>}
      OBVIOUS
    <3>1. \A p : ~ IsPlace(p, new)
      BY PlacesAre
    <3>2. /\ \A c \in Batches : \A i : i \notin Positions(requests_channel[c], new)
          /\ \A i : i \notin Positions(work_queue, new)
          /\ \A w \in Workers : \A i : i \notin Positions(Pipeline(w), new)
      BY <3>1 DEF IsPlace
    <3>3. \A p : (\/ \E c \in Batches : \E i \in Positions(requests_channel'[c], new) :
                       p = <<"channel", c, i>>
                  \/ \E i \in Positions(work_queue', new) : p = <<"queue", 0, i>>
                  \/ \E w \in Workers : \E i \in Positions(Pipeline(w)', new) :
                       p = <<"worker", w, i>>) <=> p = <<"channel", b, n>>
      BY <1>1, <2>2, <2>5, <2>6, <3>2
    <3>4. \A p : IsPlace(p, new)' <=> p = <<"channel", b, n>>
      BY <3>3 DEF IsPlace
    <3>5. \A p : p \in Places(new)' <=> p = <<"channel", b, n>>
      BY <3>4, PlacesArePrimed
    <3>6. QED
      BY <3>5
  <2>9. /\ Unanswered(b)' = Unanswered(b) \cup {id} /\ id \notin Unanswered(b)
        /\ \A c \in Batches : c # b => Unanswered(c)' = Unanswered(c)
    <3>1. id \notin answered[b]
      BY <2>0, <2>2 DEF AnsweredWereSent
    <3>2. sent'[b] = id /\ answered' = answered /\ id = sent[b] + 1 /\ sent[b] \in Nat
      BY <2>0, <2>2 DEF TypeOK
    <3>3. 1..sent'[b] = (1..sent[b]) \cup {id} /\ id \notin 1..sent[b]
      BY <3>2
    <3>4. \A c \in Batches : c # b => sent'[c] = sent[c]
      BY <2>2 DEF TypeOK
    <3>5. QED
      BY <3>1, <3>2, <3>3, <3>4 DEF Unanswered
  <2>10. Places(new) = {}
    BY <2>3, <2>9 DEF RequestsConserved
  <2>11. ASSUME NEW r \in Request, r # new
         PROVE  r.sequence_id \in Unanswered(r.batch_id)' <=>
                  r.sequence_id \in Unanswered(r.batch_id)
    <3>1. r.batch_id \in Batches /\ (r.batch_id # b \/ r.sequence_id # id)
      BY <2>13, <2>11 DEF Request
    <3>2. QED
      BY <2>9, <3>1
  <2>12. QED
    BY <2>3, <2>7, <2>8, <2>9, <2>10, <2>11 DEF RequestsConserved
<1>4. CASE ReturnResult(b)
  <2>1. /\ sent' = [sent EXCEPT ![b] = 0]
        /\ answered' = [answered EXCEPT ![b] = {}]
        /\ UNCHANGED <<requests_channel, work_queue>>
    BY <1>4 DEF ReturnResult, channelVars, managerVars
  <2>2. Unanswered(b) = {}
    BY <1>4, NothingLeft
  <2>3. \A c \in Batches : Unanswered(c)' = Unanswered(c)
    <3>1. Unanswered(b)' = {}
      BY <2>1 DEF Unanswered, TypeOK
    <3>2. \A c \in Batches : c # b => Unanswered(c)' = Unanswered(c)
      BY <2>1 DEF Unanswered, TypeOK
    <3>3. QED
      BY <2>2, <3>1, <3>2
  <2>4. \A r \in Request : Places(r)' = Places(r)
    BY <1>1, <2>1, SamePlaces
  <2>5. \A r \in Request : r.batch_id \in Batches
    BY DEF Request
  <2>6. QED
    BY <2>3, <2>4, <2>5 DEF RequestsConserved
<1>5. QED
  BY <1>2, <1>3, <1>4 DEF Client

\* The result a worker offers answers a request that is still unanswered.
LEMMA ResultIsUnanswered ==
  ASSUME TypeOK, RequestsConserved, NEW w \in Workers, ReceiveResult(w),
         NEW r \in Request, result[w] = r
  PROVE  r.sequence_id \in Unanswered(r.batch_id) /\ Places(r)' = {}
<1>1. Places(r) # {}
  BY ReceiveResultPlaces
<1>2. r.sequence_id \in Unanswered(r.batch_id)
  BY <1>1 DEF RequestsConserved
<1>3. \E p \in Places(r) : Places(r) = {p}
  BY <1>2 DEF RequestsConserved
<1>4. QED
  BY <1>2, <1>3, ReceiveResultPlaces

\* Its request, and no other, becomes answered.
LEMMA ReceiveResultAnswers ==
  ASSUME TypeOK, NEW w \in Workers, ReceiveResult(w), NEW r \in Request, result[w] = r
  PROVE  /\ UNCHANGED sent
         /\ answered' = [answered EXCEPT ![r.batch_id] = @ \cup {r.sequence_id}]
         /\ Unanswered(r.batch_id)' = Unanswered(r.batch_id) \ {r.sequence_id}
         /\ \A c \in Batches : c # r.batch_id => Unanswered(c)' = Unanswered(c)
<1>1. r.batch_id \in Batches /\ r # None
  BY NoneAssumption DEF Request
<1>2. /\ UNCHANGED sent
      /\ answered' = [answered EXCEPT ![r.batch_id] = @ \cup {r.sequence_id}]
  BY <1>1 DEF ReceiveResult, clientVars
<1>3. QED
  BY <1>1, <1>2 DEF Unanswered, TypeOK

LEMMA ReceiveResultConserves ==
  ASSUME TypeOK, RequestsConserved, NEW w \in Workers, ReceiveResult(w)
  PROVE  RequestsConserved'
<1>1. CASE result[w] = None
  <2>1. UNCHANGED <<sent, answered>>
    BY <1>1 DEF ReceiveResult, clientVars
  <2>2. \A r \in Request : KeepsPlaces(r)
    BY <1>1, ReceiveResultPlaces, NoneAssumption
  <2>3. QED
    BY <2>1, <2>2, MovesConserve
<1>2. CASE result[w] # None
  <2>1. PICK a \in Request : a = result[w]
    BY <1>2 DEF TypeOK
  <2>2. Places(a)' = {}
    BY <2>1, ResultIsUnanswered
  <2>3. /\ Unanswered(a.batch_id)' = Unanswered(a.batch_id) \ {a.sequence_id}
        /\ \A c \in Batches : c # a.batch_id => Unanswered(c)' = Unanswered(c)
    BY <2>1, ReceiveResultAnswers
  <2>4. ASSUME NEW r \in Request, r # a
        PROVE  /\ KeepsPlaces(r)
               /\ r.sequence_id \in Unanswered(r.batch_id)' <=>
                    r.sequence_id \in Unanswered(r.batch_id)
    <3>1. KeepsPlaces(r)
      BY <2>1, <2>4, ReceiveResultPlaces
    <3>2. r.batch_id \in Batches /\ (r.batch_id # a.batch_id \/ r.sequence_id # a.sequence_id)
      BY <2>4 DEF Request
    <3>3. QED
      BY <2>3, <3>1, <3>2
  <2>5. QED
    BY <2>2, <2>3, <2>4 DEF RequestsConserved, KeepsPlaces
<1>3. QED
  BY <1>1, <1>2

LEMMA NextConserves ==
  ASSUME TypeOK, Shapes, FlightInv, RequestsConserved, AnsweredWereSent, CallsKnown,
         [Next]_vars
  PROVE  RequestsConserved'
<1>1. CASE \E b \in Batches : Client(b)
  BY <1>1, ClientConserves
<1>2. CASE DropManager \/ Terminated \/ UNCHANGED vars \/ ReceiveBatch \/ BatchesDisconnected
           \/ EndTurn \/ \E b \in Batches : RequestsDisconnected(b)
  <2>1. UNCHANGED <<sent, answered, requests_channel, work_queue, worker, request,
                    phase_one, phase_two, result>>
    BY <1>2 DEF DropManager, Terminated, ReceiveBatch, BatchesDisconnected, EndTurn,
                RequestsDisconnected, vars, clientVars, channelVars, managerVars, workerVars
  <2>2. \A w \in Workers : Pipeline(w)' = Pipeline(w)
    BY <2>1 DEF Pipeline
  <2>3. QED
    BY <2>1, <2>2, SamePlaces, StillConserve
<1>3. ASSUME NEW w \in Workers, Worker(w)
      PROVE  RequestsConserved'
  <2>1. UNCHANGED <<sent, answered, requests_channel, work_queue>>
    BY <1>3 DEF Worker, AwaitRequest, RunStages, FinishWorker, clientVars, channelVars,
                managerVars
  <2>2. \A v \in Workers : Pipeline(v)' = Pipeline(v)
    BY <1>3, WorkerPipeline
  <2>3. QED
    BY <2>1, <2>2, SamePlaces, StillConserve
<1>4. ASSUME NEW b \in Batches, ReceiveRequest(b)
      PROVE  RequestsConserved'
  <2>1. UNCHANGED <<sent, answered>>
    BY <1>4 DEF ReceiveRequest, clientVars
  <2>2. QED
    BY <1>4, <2>1, ReceiveRequestPlaces, MovesConserve
<1>5. ASSUME NEW w \in Workers, SendQueued(w) \/ Drain(w)
      PROVE  RequestsConserved'
  <2>1. /\ Hand(w, Head(work_queue)) /\ work_queue # <<>>
        /\ work_queue' = Tail(work_queue)
    BY <1>5 DEF SendQueued, Drain
  <2>2. UNCHANGED <<sent, answered>>
    BY <2>1 DEF Hand, clientVars
  <2>3. QED
    BY <2>1, <2>2, HandQueuedPlaces, MovesConserve
<1>6. ASSUME NEW w \in Workers, SendEmpty(w)
      PROVE  RequestsConserved'
  <2>1. Hand(w, None) /\ UNCHANGED work_queue
    BY <1>6 DEF SendEmpty
  <2>2. UNCHANGED <<sent, answered>>
    BY <2>1 DEF Hand, clientVars
  <2>3. QED
    BY <2>1, <2>2, HandEmptyPlaces, StillConserve
<1>7. QED
  BY <1>1, <1>2, <1>3, <1>4, <1>5, <1>6, ReceiveResultConserves DEF Next, Manager

-----------------------------------------------------------------------------
(* The other invariants of calls. *)

LEMMA NextAnsweredWereSent ==
  ASSUME TypeOK, RequestsConserved, AnsweredWereSent, [Next]_vars
  PROVE  AnsweredWereSent'
<1>1. ASSUME UNCHANGED <<sent, answered>>
      PROVE  AnsweredWereSent'
  BY <1>1 DEF AnsweredWereSent
<1>2. ASSUME NEW b \in Batches, Client(b)
      PROVE  AnsweredWereSent'
  <2>1. CASE SendBatch(b) \/ CloseRequests(b)
    BY <1>1, <2>1 DEF SendBatch, CloseRequests
  <2>2. CASE SendRequest(b)
    BY <2>2 DEF SendRequest, AnsweredWereSent, TypeOK
  <2>3. CASE ReturnResult(b)
    BY <2>3 DEF ReturnResult, AnsweredWereSent, TypeOK
  <2>4. QED
    BY <1>2, <2>1, <2>2, <2>3 DEF Client
<1>3. CASE DropManager \/ Terminated \/ UNCHANGED vars
  BY <1>1, <1>3 DEF DropManager, Terminated, vars, clientVars
<1>4. CASE \E w \in Workers : Worker(w)
  BY <1>1, <1>4 DEF Worker, AwaitRequest, RunStages, FinishWorker, clientVars
<1>5. ASSUME NEW w \in Workers, ReceiveResult(w)
      PROVE  AnsweredWereSent'
  <2>1. CASE result[w] = None
    BY <1>1, <1>5, <2>1 DEF ReceiveResult, clientVars
  <2>2. CASE result[w] # None
    <3>1. PICK r \in Request : result[w] = r
      BY <2>2 DEF TypeOK
    <3>2. /\ UNCHANGED sent
          /\ answered' = [answered EXCEPT ![r.batch_id] = @ \cup {r.sequence_id}]
      BY <1>5, <3>1, ReceiveResultAnswers
    <3>3. r.sequence_id \in 1..sent[r.batch_id] /\ r.batch_id \in Batches
      BY <1>5, <3>1, ResultIsUnanswered DEF Unanswered, Request
    <3>4. QED
      BY <3>2, <3>3 DEF AnsweredWereSent, TypeOK
  <2>3. QED
    BY <2>1, <2>2
<1>6. CASE \E b \in Batches : ReceiveRequest(b) \/ RequestsDisconnected(b)
  BY <1>1, <1>6 DEF ReceiveRequest, RequestsDisconnected, clientVars
<1>7. CASE ReceiveBatch \/ BatchesDisconnected \/ EndTurn
  BY <1>1, <1>7 DEF ReceiveBatch, BatchesDisconnected, EndTurn, clientVars
<1>8. CASE \E w \in Workers : SendQueued(w) \/ SendEmpty(w) \/ Drain(w)
  BY <1>1, <1>8 DEF SendQueued, SendEmpty, Drain, Hand, clientVars
<1>9. QED
  BY <1>2, <1>3, <1>4, <1>5, <1>6, <1>7, <1>8 DEF Next, Manager

LEMMA NextCallsKnown ==
  ASSUME TypeOK, CallsKnown, [Next]_vars
  PROVE  CallsKnown'
<1>1. ASSUME UNCHANGED <<client, requests_channel, batch_receivers, batches_channel>>
      PROVE  CallsKnown'
  BY <1>1 DEF CallsKnown
<1>2. ASSUME NEW b \in Batches, SendBatch(b)
      PROVE  CallsKnown'
  <2>1. /\ client' = [client EXCEPT ![b] = "open"]
        /\ batches_channel' = Append(batches_channel, b)
        /\ UNCHANGED <<requests_channel, batch_receivers>>
    BY <1>2 DEF SendBatch, managerVars
  <2>2. \A c \in Batches :
          c = b \/ (\E i \in DOMAIN batches_channel : batches_channel[i] = c) =>
            \E i \in DOMAIN batches_channel' : batches_channel'[i] = c
    <3>1. /\ Len(batches_channel) + 1 \in DOMAIN batches_channel'
          /\ batches_channel'[Len(batches_channel) + 1] = b
      BY <2>1 DEF TypeOK
    <3>2. \A i \in DOMAIN batches_channel : /\ i \in DOMAIN batches_channel'
                                            /\ batches_channel'[i] = batches_channel[i]
      BY <2>1 DEF TypeOK
    <3>3. QED
      BY <3>1, <3>2
  <2>3. QED
    BY <2>1, <2>2 DEF CallsKnown, TypeOK
<1>3. ASSUME NEW b \in Batches, SendRequest(b) \/ CloseRequests(b) \/ ReturnResult(b)
      PROVE  CallsKnown'
  <2>1. UNCHANGED <<batch_receivers, batches_channel>>
    BY <1>3 DEF SendRequest, CloseRequests, ReturnResult, managerVars, channelVars
  <2>2. \A c \in Batches :
          client'[c] = "open" \/ requests_channel'[c] # <<>> =>
            client[c] = "open" \/ requests_channel[c] # <<>>
    BY <1>3 DEF SendRequest, CloseRequests, ReturnResult, channelVars, TypeOK
  <2>3. QED
    BY <2>1, <2>2 DEF CallsKnown
<1>4. CASE DropManager \/ Terminated \/ UNCHANGED vars
  BY <1>1, <1>4 DEF DropManager, Terminated, vars, clientVars, channelVars, managerVars
<1>5. CASE \E w \in Workers : Worker(w)
  BY <1>1, <1>5 DEF Worker, AwaitRequest, RunStages, FinishWorker, clientVars, channelVars,
                    managerVars
<1>6. CASE BatchesDisconnected \/ EndTurn
  BY <1>1, <1>6 DEF BatchesDisconnected, EndTurn, clientVars, channelVars
<1>7. CASE \E w \in Workers : ReceiveResult(w) \/ SendQueued(w) \/ SendEmpty(w) \/ Drain(w)
  BY <1>1, <1>7 DEF ReceiveResult, SendQueued, SendEmpty, Drain, Hand, clientVars, channelVars
<1>8. CASE ReceiveBatch
  <2>1. /\ batches_channel # <<>>
        /\ batches_channel' = Tail(batches_channel)
        /\ batch_receivers' = batch_receivers \cup {Head(batches_channel)}
        /\ UNCHANGED <<client, requests_channel>>
    BY <1>8 DEF ReceiveBatch, clientVars
  <2>2. ASSUME NEW c \in Batches, NEW i \in DOMAIN batches_channel, batches_channel[i] = c
        PROVE  c \in batch_receivers' \/ \E j \in DOMAIN batches_channel' : batches_channel'[j] = c
    <3>1. CASE i = 1
      BY <2>1, <2>2, <3>1 DEF TypeOK
    <3>2. CASE i # 1
      <4>1. i - 1 \in DOMAIN batches_channel' /\ batches_channel'[i - 1] = c
        BY <2>1, <2>2, <3>2 DEF TypeOK
      <4>2. QED
        BY <4>1
    <3>3. QED
      BY <3>1, <3>2
  <2>3. QED
    BY <2>1, <2>2 DEF CallsKnown
<1>9. ASSUME NEW b \in Batches, ReceiveRequest(b)
      PROVE  CallsKnown'
  <2>1. /\ b \in batch_receivers
        /\ requests_channel' = [requests_channel EXCEPT ![b] = Tail(@)]
        /\ UNCHANGED <<client, batch_receivers, batches_channel>>
    BY <1>9 DEF ReceiveRequest, clientVars
  <2>2. QED
    BY <2>1 DEF CallsKnown, TypeOK
<1>10. ASSUME NEW b \in Batches, RequestsDisconnected(b)
       PROVE  CallsKnown'
  <2>1. /\ client[b] = "closed" /\ requests_channel[b] = <<>>
        /\ batch_receivers' = batch_receivers \ {b}
        /\ UNCHANGED <<client, requests_channel, batches_channel>>
    BY <1>10 DEF RequestsDisconnected, clientVars, channelVars
  <2>2. QED
    BY <2>1 DEF CallsKnown, TypeOK
<1>11. QED
  BY <1>2, <1>3, <1>4, <1>5, <1>6, <1>7, <1>8, <1>9, <1>10 DEF Next, Manager, Client

CallsInv == RequestsConserved /\ AnsweredWereSent /\ CallsKnown

LEMMA TypedCalls == Spec => [](TypeOK /\ Shapes /\ FlightInv /\ CallsInv)
<1>1. Init => CallsInv
  BY InitConserved DEF CallsInv
<1>2. TypeOK /\ Shapes /\ FlightInv /\ CallsInv /\ [Next]_vars => CallsInv'
  BY NextConserves, NextAnsweredWereSent, NextCallsKnown DEF CallsInv
<1>3. QED
  BY <1>1, <1>2, TypedFlight, PTL DEF Spec

\* Every unanswered request of a call is in exactly one place, and no other
\* request is anywhere: the manager and its workers lose none, duplicate none
\* and answer none twice, with any number of callers and devices.
THEOREM RequestsAreConserved == Spec => []RequestsConserved
<1>1. CallsInv => RequestsConserved
  BY DEF CallsInv
<1>2. QED
  BY <1>1, TypedCalls, PTL

-----------------------------------------------------------------------------
(* The refinement: each step maps to a step of WorkBatches, or to none. *)

LEMMA InitIsAbstract == Init => Abstract!Init
<1> SUFFICES ASSUME Init PROVE Abstract!Init
  OBVIOUS
<1>1. \A b \in Batches : Unanswered(b) = {}
  BY DEF Init, Unanswered
<1>2. QED
  BY <1>1 DEF Init, Abstract!Init

LEMMA ClientIsAbstract ==
  ASSUME TypeOK, Shapes, FlightInv, CallsInv, NEW b \in Batches, Client(b)
  PROVE  Abstract!Next
<1>1. CASE SendBatch(b)
  <2>1. \A c \in Batches : Unanswered(c)' = Unanswered(c)
    BY <1>1 DEF SendBatch, Unanswered
  <2>2. Abstract!Open(b)
    BY <1>1, <2>1 DEF SendBatch, Abstract!Open
  <2>3. QED
    BY <2>2 DEF Abstract!Next
<1>2. CASE SendRequest(b)
  <2>1. /\ client[b] = "open" /\ sent[b] < MaxRequests
        /\ sent' = [sent EXCEPT ![b] = @ + 1]
        /\ UNCHANGED <<client, dropped, answered>>
    BY <1>2 DEF SendRequest
  <2>2. sent[b] \in Nat /\ sent'[b] = sent[b] + 1
    BY <2>1 DEF TypeOK
  <2>3. sent[b] + 1 \notin answered[b]
    BY <2>2 DEF CallsInv, AnsweredWereSent
  <2>4. Unanswered(b)' = Unanswered(b) \cup {sent[b] + 1}
    <3>1. 1..sent'[b] = (1..sent[b]) \cup {sent[b] + 1}
      BY <2>2
    <3>2. QED
      BY <2>1, <2>3, <3>1 DEF Unanswered
  <2>5. \A c \in Batches : c # b => Unanswered(c)' = Unanswered(c)
    BY <2>1 DEF Unanswered, TypeOK
  <2>6. Abstract!Ask(b)
    BY <2>1, <2>4, <2>5 DEF Abstract!Ask
  <2>7. QED
    BY <2>6 DEF Abstract!Next
<1>3. CASE CloseRequests(b)
  <2>1. \A c \in Batches : Unanswered(c)' = Unanswered(c)
    BY <1>3 DEF CloseRequests, Unanswered
  <2>2. Abstract!Close(b)
    BY <1>3, <2>1 DEF CloseRequests, Abstract!Close
  <2>3. QED
    BY <2>2 DEF Abstract!Next
<1>4. CASE ReturnResult(b)
  <2>1. /\ client[b] = "closed"
        /\ client' = [client EXCEPT ![b] = "idle"]
        /\ sent' = [sent EXCEPT ![b] = 0]
        /\ answered' = [answered EXCEPT ![b] = {}]
        /\ UNCHANGED dropped
    BY <1>4 DEF ReturnResult
  <2>2. Unanswered(b) = {}
    BY <1>4, NothingLeft DEF CallsInv
  <2>3. \A c \in Batches : Unanswered(c)' = Unanswered(c)
    <3>1. Unanswered(b)' = {}
      BY <2>1 DEF Unanswered, TypeOK
    <3>2. \A c \in Batches : c # b => Unanswered(c)' = Unanswered(c)
      BY <2>1 DEF Unanswered, TypeOK
    <3>3. QED
      BY <2>2, <3>1, <3>2
  <2>4. Abstract!Return(b)
    BY <2>1, <2>2, <2>3 DEF Abstract!Return
  <2>5. QED
    BY <2>4 DEF Abstract!Next
<1>5. QED
  BY <1>1, <1>2, <1>3, <1>4 DEF Client

LEMMA AnswerIsAbstract ==
  ASSUME TypeOK, CallsInv, NEW w \in Workers, ReceiveResult(w), result[w] # None
  PROVE  Abstract!Next
<1>1. PICK r \in Request : result[w] = r
  BY DEF TypeOK
<1>2. r.batch_id \in Batches /\ r.sequence_id \in Unanswered(r.batch_id)
  BY <1>1, ResultIsUnanswered DEF Request, CallsInv
<1>3. UNCHANGED <<client, sent, dropped>>
  BY DEF ReceiveResult, clientVars
<1>4. /\ Unanswered(r.batch_id)' = Unanswered(r.batch_id) \ {r.sequence_id}
      /\ \A c \in Batches : c # r.batch_id => Unanswered(c)' = Unanswered(c)
  BY <1>1, ReceiveResultAnswers
<1>5. Abstract!Answer(r.batch_id)
  BY <1>2, <1>3, <1>4 DEF Abstract!Answer
<1>6. QED
  BY <1>2, <1>5 DEF Abstract!Next

LEMMA NextIsAbstract ==
  ASSUME TypeOK, Shapes, FlightInv, CallsInv, [Next]_vars
  PROVE  [Abstract!Next]_(Abstract!vars)
<1>1. ASSUME UNCHANGED <<client, sent, dropped, answered>>
      PROVE  UNCHANGED Abstract!vars
  BY <1>1 DEF Unanswered, Abstract!vars
<1>2. CASE \E b \in Batches : Client(b)
  BY <1>2, ClientIsAbstract
<1>3. CASE DropManager
  <2>1. \A c \in Batches : Unanswered(c)' = Unanswered(c)
    BY <1>3 DEF DropManager, Unanswered
  <2>2. Abstract!Drop
    BY <1>3, <2>1 DEF DropManager, Abstract!Drop
  <2>3. QED
    BY <2>2 DEF Abstract!Next
<1>4. CASE Terminated \/ UNCHANGED vars
  BY <1>1, <1>4 DEF Terminated, vars, clientVars
<1>5. CASE \E w \in Workers : Worker(w)
  BY <1>1, <1>5 DEF Worker, AwaitRequest, RunStages, FinishWorker, clientVars
<1>6. ASSUME NEW w \in Workers, ReceiveResult(w)
      PROVE  [Abstract!Next]_(Abstract!vars)
  <2>1. CASE result[w] = None
    BY <1>1, <1>6, <2>1 DEF ReceiveResult, clientVars
  <2>2. CASE result[w] # None
    BY <1>6, <2>2, AnswerIsAbstract
  <2>3. QED
    BY <2>1, <2>2
<1>7. CASE ReceiveBatch \/ BatchesDisconnected \/ EndTurn
  BY <1>1, <1>7 DEF ReceiveBatch, BatchesDisconnected, EndTurn, clientVars
<1>8. CASE \E b \in Batches : ReceiveRequest(b) \/ RequestsDisconnected(b)
  BY <1>1, <1>8 DEF ReceiveRequest, RequestsDisconnected, clientVars
<1>9. CASE \E w \in Workers : SendQueued(w) \/ SendEmpty(w) \/ Drain(w)
  BY <1>1, <1>9 DEF SendQueued, SendEmpty, Drain, Hand, clientVars
<1>10. QED
  BY <1>2, <1>3, <1>4, <1>5, <1>6, <1>7, <1>8, <1>9 DEF Next, Manager

\* The manager, its channels and its two-stage workers implement WorkBatches:
\* whatever the number of callers and devices, a request is answered at most
\* once, to the call that sent it, and get_result returns only with all of its
\* requests answered (assert_eq!(pending_requests_count, 0)).
THEOREM ManagerImplementsWorkBatches == Spec => ImplementsWorkBatches
<1>1. Init => Abstract!Init
  BY InitIsAbstract
<1>2. TypeOK /\ Shapes /\ FlightInv /\ CallsInv /\ [Next]_vars
        => [Abstract!Next]_(Abstract!vars)
  BY NextIsAbstract
<1>3. QED
  BY <1>1, <1>2, TypedCalls, PTL DEF Spec, ImplementsWorkBatches, Abstract!Spec

=============================================================================
