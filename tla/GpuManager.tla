----------------------------- MODULE GpuManager -----------------------------
(***************************************************************************)
(* The GPU manager thread, its GPU worker threads (one per device) and the *)
(* callers of ExecutionProver::get_result that feed it.                    *)
(*                                                                         *)
(* Every call of get_result opens a batch: it hands the manager a          *)
(* GpuWorkBatch through an unbounded channel, sends requests through the   *)
(* batch's own channel, drops the sender after its last request, and reads *)
(* results until every sender of its result channel has been dropped.      *)
(*                                                                         *)
(* A GPU worker is a two-stage pipeline.  It answers EVERY message it      *)
(* receives, request or empty, with exactly one message: the result of the *)
(* request received two messages before, if there was one.  The manager    *)
(* therefore keeps, per worker, a queue that must mirror what is inside    *)
(* that worker.  Both channels of a worker have capacity 0: a message      *)
(* passes only while the other side is blocked on the channel.             *)
(***************************************************************************)
EXTENDS Naturals, Sequences, SequencesExt

CONSTANTS
  Batches,      \* batch identifiers (u64)
  Workers,      \* CUDA device indexes
  MaxRequests,  \* bound: requests a batch sends before it closes
  Exclusive,    \* TRUE: callers run one get_result at a time
  None          \* Option::None, for requests, results and queue items

ASSUME BatchesAssumption == Batches \subseteq Nat
ASSUME WorkersAssumption == Workers \subseteq Nat
ASSUME MaxRequestsAssumption == MaxRequests \in Nat \ {0}
ASSUME ExclusiveAssumption == Exclusive \in BOOLEAN

Request == [batch_id : Batches, sequence_id : 1..MaxRequests]

ASSUME NoneAssumption == None \notin Request /\ None \notin Batches

VARIABLES
  client,            \* per batch: where the get_result call that owns it is
  sent,              \* per batch: number of requests sent in this call
  answered,          \* per batch: sequence ids whose result was forwarded
  dropped,           \* GpuManager::drop has dropped batches_sender
  batches_channel,   \* contents of the channel of new batches
  requests_channel,  \* per batch: contents of its request channel
  manager,           \* where the manager is in its loop
  batches_receiver,  \* batches_receiver.is_some()
  batch_receivers,   \* keys of the map of that name
  batch_senders,     \* keys of the map of that name
  batches_to_flush,
  work_queue,
  worker_queues,
  worker,            \* per worker: where its thread is
  request,           \* per worker: the message being processed
  phase_one,         \* per worker: current_phase_one
  phase_two,         \* per worker: current_phase_two
  result             \* per worker: the answer it is trying to send

clientVars  == <<client, sent, dropped>>
channelVars == <<batches_channel, requests_channel>>
managerVars == <<manager, batches_receiver, batch_receivers, batch_senders,
                 batches_to_flush, work_queue, worker_queues>>
workerVars  == <<worker, request, phase_one, phase_two, result>>
vars == <<clientVars, answered, channelVars, managerVars, workerVars>>

\* A slip: an empty message counts as a request of batch 0 (unwrap_or_default).
BatchOfDefault(message) == IF message = None THEN 0 ELSE message.batch_id

\* Option<u64>: the batch a message of the pipeline belongs to.
BatchOf(message) == IF message = None THEN None ELSE message.batch_id

TypeOK ==
  /\ client \in [Batches -> {"idle", "open", "closed"}]
  /\ sent \in [Batches -> 0..MaxRequests]
  /\ answered \in [Batches -> SUBSET (1..MaxRequests)]
  /\ dropped \in BOOLEAN
  /\ batches_channel \in Seq(Batches)
  /\ requests_channel \in [Batches -> Seq(Request)]
  /\ manager \in {"select", "drain", "finished"}
  /\ batches_receiver \in BOOLEAN
  /\ batch_receivers \subseteq Batches
  /\ batch_senders \subseteq Batches
  /\ batches_to_flush \subseteq Batches
  /\ work_queue \in Seq(Request)
  /\ worker_queues \in [Workers -> Seq(Batches \cup {None})]
  /\ worker \in [Workers -> {"looping", "receiving", "working", "sending",
                             "finished"}]
  /\ request \in [Workers -> Request \cup {None}]
  /\ phase_one \in [Workers -> Request \cup {None}]
  /\ phase_two \in [Workers -> Request \cup {None}]
  /\ result \in [Workers -> Request \cup {None}]

\* The manager enters its loop once every worker has reported that it is
\* initialized; the queues start with two empty slots.
Init ==
  /\ client = [b \in Batches |-> "idle"]
  /\ sent = [b \in Batches |-> 0]
  /\ answered = [b \in Batches |-> {}]
  /\ dropped = FALSE
  /\ batches_channel = <<>>
  /\ requests_channel = [b \in Batches |-> <<>>]
  /\ manager = "select"
  /\ batches_receiver = TRUE
  /\ batch_receivers = {}
  /\ batch_senders = {}
  /\ batches_to_flush = {}
  /\ work_queue = <<>>
  /\ worker_queues = [w \in Workers |-> <<None, None>>]
  /\ worker = [w \in Workers |-> "looping"]
  /\ request = [w \in Workers |-> None]
  /\ phase_one = [w \in Workers |-> None]
  /\ phase_two = [w \in Workers |-> None]
  /\ result = [w \in Workers |-> None]

-----------------------------------------------------------------------------
(***************************************************************************)
(* Callers.  A batch id is free again as soon as get_result has returned:  *)
(* commit_memory_and_prove runs a commitment and then a proof under one id.*)
(***************************************************************************)

\* get_result creates the channels of the batch and calls send_batch.
SendBatch(b) ==
  /\ client[b] = "idle"
  /\ ~dropped
  /\ Exclusive => \A c \in Batches : client[c] = "idle"
  /\ client' = [client EXCEPT ![b] = "open"]
  /\ batches_channel' = Append(batches_channel, b)
  /\ UNCHANGED <<sent, answered, dropped, requests_channel, managerVars, workerVars>>

SendRequest(b) ==
  /\ client[b] = "open"
  /\ sent[b] < MaxRequests
  /\ sent' = [sent EXCEPT ![b] = @ + 1]
  /\ requests_channel' =
       [requests_channel EXCEPT
          ![b] = Append(@, [batch_id |-> b, sequence_id |-> sent[b] + 1])]
  /\ UNCHANGED <<client, dropped, answered, batches_channel, managerVars, workerVars>>

\* gpu_work_requests_sender = None.  A run of a binary yields at least one trace.
CloseRequests(b) ==
  /\ client[b] = "open"
  /\ sent[b] > 0
  /\ client' = [client EXCEPT ![b] = "closed"]
  /\ UNCHANGED <<sent, dropped, answered, channelVars, managerVars, workerVars>>

\* The loop over work_results_receiver ends when no sender is left: the one in
\* the GpuWorkBatch has been received by the manager and removed from its map.
\* get_result returns and its counters are gone.
ReturnResult(b) ==
  /\ client[b] = "closed"
  /\ b \notin ToSet(batches_channel) \cup batch_senders
  /\ client' = [client EXCEPT ![b] = "idle"]
  /\ sent' = [sent EXCEPT ![b] = 0]
  /\ answered' = [answered EXCEPT ![b] = {}]
  /\ UNCHANGED <<dropped, channelVars, managerVars, workerVars>>

\* Dropping the manager needs the ExecutionProver to itself: no call is active.
DropManager ==
  /\ ~dropped
  /\ \A b \in Batches : client[b] = "idle"
  /\ dropped' = TRUE
  /\ UNCHANGED <<client, sent, answered, channelVars, managerVars, workerVars>>

-----------------------------------------------------------------------------
(***************************************************************************)
(* The manager.  Each turn of its loop selects, at random, one channel     *)
(* operation that is ready and handles it; it then hands out queued        *)
(* requests to the workers that happen to be receiving, without waiting    *)
(* ("drain"), and leaves the loop when there is nothing left to serve.     *)
(***************************************************************************)

ReceiveBatch ==
  /\ manager = "select"
  /\ batches_receiver
  /\ batches_channel # <<>>
  /\ batches_channel' = Tail(batches_channel)
  /\ batch_receivers' = batch_receivers \cup {Head(batches_channel)}
  /\ batch_senders' = batch_senders \cup {Head(batches_channel)}
  /\ manager' = "drain"
  /\ UNCHANGED <<clientVars, answered, requests_channel, batches_receiver,
                 batches_to_flush, work_queue, worker_queues, workerVars>>

\* A slip: the closed channel stays in the selection.
BatchesStaySelected ==
  /\ manager = "select"
  /\ batches_receiver /\ batches_channel = <<>> /\ dropped
  /\ manager' = "drain"
  /\ UNCHANGED <<clientVars, answered, channelVars, batches_receiver, batch_receivers, batch_senders,
                 batches_to_flush, work_queue, worker_queues, workerVars>>

BatchesDisconnected ==
  /\ manager = "select"
  /\ batches_receiver
  /\ batches_channel = <<>>
  /\ dropped
  /\ batches_receiver' = FALSE
  /\ manager' = "drain"
  /\ UNCHANGED <<clientVars, answered, channelVars, batch_receivers, batch_senders,
                 batches_to_flush, work_queue, worker_queues, workerVars>>

ReceiveRequest(b) ==
  /\ manager = "select"
  /\ b \in batch_receivers
  /\ requests_channel[b] # <<>>
  /\ requests_channel' = [requests_channel EXCEPT ![b] = Tail(@)]
  /\ work_queue' = Append(work_queue, Head(requests_channel[b]))
  /\ manager' = "drain"
  /\ UNCHANGED <<clientVars, answered, batches_channel, batches_receiver,
                 batch_receivers, batch_senders, batches_to_flush,
                 worker_queues, workerVars>>

RequestsDisconnected(b) ==
  /\ manager = "select"
  /\ b \in batch_receivers
  /\ requests_channel[b] = <<>>
  /\ client[b] = "closed"
  /\ batch_receivers' = batch_receivers \ {b}
  /\ batches_to_flush' = batches_to_flush \cup {b}
  /\ manager' = "drain"
  /\ UNCHANGED <<clientVars, answered, channelVars, batches_receiver,
                 batch_senders, work_queue, worker_queues, workerVars>>

\* Slips: the test for the end of a batch looks at one of the two places only.
DrainedFromWorkers(b, queues) ==
  \A w \in Workers : \A i \in DOMAIN queues[w] : queues[w][i] # b

DrainedFromWorkQueue(b, queues) ==
  \A i \in DOMAIN work_queue : work_queue[i].batch_id # b

\* Nothing of batch b is left: no request is queued and, in the queues given,
\* none is inside a worker.
Drained(b, queues) ==
  /\ \A i \in DOMAIN work_queue : work_queue[i].batch_id # b
  /\ \A w \in Workers : \A i \in DOMAIN queues[w] : queues[w][i] # b

\* The answer of worker w: drop the front of its queue, forward a result and,
\* if it was the last of a batch to flush, drop the batch's sender.
ReceiveResult(w) ==
  /\ manager = "select"
  /\ worker[w] = "sending"
  /\ worker' = [worker EXCEPT ![w] = "looping"]
  /\ result' = [result EXCEPT ![w] = None]
  /\ worker_queues' = [worker_queues EXCEPT ![w] = Tail(@)]
  /\ manager' = "drain"
  /\ IF result[w] = None
     THEN UNCHANGED <<answered, batch_senders, batches_to_flush>>
     ELSE LET b == result[w].batch_id
              completed == {c \in batches_to_flush \cap {b} : Drained(c, worker_queues')}
          IN  /\ answered' = [answered EXCEPT ![b] = @ \cup {result[w].sequence_id}]
              /\ batches_to_flush' = batches_to_flush \ completed
              /\ batch_senders' = batch_senders \ completed
  /\ UNCHANGED <<clientVars, channelVars, batches_receiver, batch_receivers,
                 work_queue, request, phase_one, phase_two>>

\* An empty message moves a request that sits in the second stage alone ...
Advance(w) ==
  /\ Len(worker_queues[w]) = 2
  /\ worker_queues[w][1] = None
  /\ worker_queues[w][2] # None

\* A slip: only the newest slot is tested.
FlushNewest(w) == Last(worker_queues[w]) \in batches_to_flush

\* ... or pushes out the last requests of a batch.
Flush(w) == ToSet(worker_queues[w]) \cap batches_to_flush # {}

\* A message passes to worker w, which is blocked in receive.
Hand(w, message) ==
  /\ worker[w] = "receiving"
  /\ worker' = [worker EXCEPT ![w] = "working"]
  /\ request' = [request EXCEPT ![w] = message]
  /\ worker_queues' = [worker_queues EXCEPT ![w] = Append(@, BatchOf(message))]
  /\ UNCHANGED <<clientVars, answered, channelVars, batches_receiver, batch_receivers,
                 batch_senders, batches_to_flush, phase_one, phase_two, result>>

SendQueued(w) ==
  /\ manager = "select"
  /\ work_queue # <<>>
  /\ Hand(w, Head(work_queue))
  /\ work_queue' = Tail(work_queue)
  /\ manager' = "drain"

SendEmpty(w) ==
  /\ manager = "select"
  /\ work_queue = <<>>
  /\ Advance(w) \/ Flush(w)
  /\ Hand(w, None)
  /\ manager' = "drain"
  /\ UNCHANGED work_queue

\* The order of the derived Ord of VecDeque<Option<u64>>, then of the index.
Rank(item) == IF item = None THEN 0 ELSE item + 1

SortsBefore(v, w) ==
  LET p == worker_queues[v]
      q == worker_queues[w]
  IN  \/ \E i \in DOMAIN p \cap DOMAIN q :
           Rank(p[i]) < Rank(q[i]) /\ \A j \in 1..(i - 1) : p[j] = q[j]
      \/ IsStrictPrefix(p, q)
      \/ p = q /\ v < w

Receiving == {w \in Workers : worker[w] = "receiving"}

\* try_select takes the first ready worker in that order.
Drain(w) ==
  /\ manager = "drain"
  /\ work_queue # <<>>
  /\ \A v \in Receiving : ~SortsBefore(v, w)
  /\ Hand(w, Head(work_queue))
  /\ work_queue' = Tail(work_queue)
  /\ UNCHANGED manager

LoopEnds == ~batches_receiver /\ batch_senders = {}

\* Nothing to hand out, or no worker is receiving: test for the end of the loop.
EndTurn ==
  /\ manager = "drain"
  /\ work_queue = <<>> \/ Receiving = {}
  /\ manager' = IF LoopEnds THEN "finished" ELSE "select"
  /\ UNCHANGED <<clientVars, answered, channelVars, batches_receiver, batch_receivers,
                 batch_senders, batches_to_flush, work_queue, worker_queues, workerVars>>

-----------------------------------------------------------------------------
(* The workers. *)

AwaitRequest(w) ==
  /\ worker[w] = "looping"
  /\ worker' = [worker EXCEPT ![w] = "receiving"]
  /\ UNCHANGED <<clientVars, answered, channelVars, managerVars,
                 request, phase_one, phase_two, result>>

\* A slip: the request that just left the first stage is answered.
CompletedOneStageEarly(w) == phase_one[w]

\* The request whose job a round of worker w finishes.
Completed(w) == phase_two[w]

\* The first stage of the new request, the second stage of the one before it,
\* and the result of the one before that.
RunStages(w) ==
  /\ worker[w] = "working"
  /\ worker' = [worker EXCEPT ![w] = "sending"]
  /\ request' = [request EXCEPT ![w] = None]
  /\ phase_one' = [phase_one EXCEPT ![w] = request[w]]
  /\ phase_two' = [phase_two EXCEPT ![w] = phase_one[w]]
  /\ result' = [result EXCEPT ![w] = Completed(w)]
  /\ UNCHANGED <<clientVars, answered, channelVars, managerVars>>

\* The manager has returned and dropped its end of the request channel.
FinishWorker(w) ==
  /\ worker[w] = "receiving"
  /\ manager = "finished"
  /\ worker' = [worker EXCEPT ![w] = "finished"]
  /\ UNCHANGED <<clientVars, answered, channelVars, managerVars,
                 request, phase_one, phase_two, result>>

-----------------------------------------------------------------------------

Client(b) == SendBatch(b) \/ SendRequest(b) \/ CloseRequests(b) \/ ReturnResult(b)

Manager ==
  \/ ReceiveBatch
  \/ BatchesDisconnected
  \/ \E b \in Batches : ReceiveRequest(b) \/ RequestsDisconnected(b)
  \/ \E w \in Workers : ReceiveResult(w) \/ SendQueued(w) \/ SendEmpty(w) \/ Drain(w)
  \/ EndTurn

Worker(w) == AwaitRequest(w) \/ RunStages(w) \/ FinishWorker(w)

\* The scope of the manager thread has joined its workers: drop returns.
AllFinished == manager = "finished" /\ \A w \in Workers : worker[w] = "finished"

Terminated == AllFinished /\ UNCHANGED vars

Next ==
  \/ \E b \in Batches : Client(b)
  \/ DropManager
  \/ Manager
  \/ \E w \in Workers : Worker(w)
  \/ Terminated

(***************************************************************************)
(* Threads are scheduled.  Select starts its scan of the ready operations  *)
(* at a random one, so an operation that is ready again and again is       *)
(* taken: strong fairness for each operation.  A caller that has sent its  *)
(* last request only waits; when it opens a batch, or how long it computes *)
(* before the next request, is not constrained.                            *)
(***************************************************************************)
Fairness ==
  /\ SF_vars(ReceiveBatch) /\ SF_vars(BatchesDisconnected)
  /\ \A b \in Batches : SF_vars(ReceiveRequest(b)) /\ SF_vars(RequestsDisconnected(b))
  /\ \A w \in Workers : SF_vars(ReceiveResult(w)) /\ SF_vars(SendQueued(w) \/ SendEmpty(w))
  /\ WF_vars(EndTurn \/ \E w \in Workers : Drain(w))
  /\ \A w \in Workers : WF_vars(Worker(w))
  /\ \A b \in Batches : WF_vars(ReturnResult(b))

Spec == Init /\ [][Next]_vars
FairSpec == Spec /\ Fairness

-----------------------------------------------------------------------------
(* Properties *)

\* The messages inside worker w, oldest first: what the manager will pop.
Pipeline(w) ==
  CASE worker[w] = "working" -> <<phase_two[w], phase_one[w], request[w]>>
    [] worker[w] = "sending" -> <<result[w], phase_two[w], phase_one[w]>>
    [] OTHER -> <<phase_two[w], phase_one[w]>>

\* The manager's queue of a worker mirrors the worker's pipeline at every
\* moment, through handshakes and stages running in parallel: the front of the
\* queue is the batch of the next answer, and is None exactly when that answer
\* will be (item.unwrap() and the assertions on result.batch_id).
QueueMirrorsPipeline ==
  \A w \in Workers :
    /\ Len(worker_queues[w]) = Len(Pipeline(w))
    /\ \A i \in DOMAIN worker_queues[w] : worker_queues[w][i] = BatchOf(Pipeline(w)[i])

\* Whatever is queued or inside a worker belongs to a batch whose sender the
\* manager still holds: batch_senders[&batch_id] does not panic, and the
\* receiver of that sender is alive.
InFlightBatchesHaveSenders ==
  /\ batch_receivers \cup batches_to_flush = batch_senders
  /\ batch_receivers \cap batches_to_flush = {}
  /\ \A i \in DOMAIN work_queue : work_queue[i].batch_id \in batch_senders
  /\ \A w \in Workers : ToSet(worker_queues[w]) \subseteq batch_senders \cup {None}
  /\ \A b \in batch_senders : client[b] # "idle"

\* A batch id that arrives again finds nothing left of its previous use, in the
\* maps (the two assertions that they had no such key) or in flight, where an
\* old answer would go to the new call.
ReusedIdIsFresh ==
  \A b \in ToSet(batches_channel) :
    /\ b \notin batch_senders \cup batch_receivers
    /\ \A i \in DOMAIN work_queue : work_queue[i].batch_id # b
    /\ \A w \in Workers : b \notin ToSet(worker_queues[w])

\* When the manager leaves its loop no worker holds, computes or offers
\* anything: a worker's results.send does not fail and the two assertions at
\* its end hold.
CleanExit ==
  manager = "finished" =>
    /\ work_queue = <<>>
    /\ \A w \in Workers :
         /\ worker[w] \in {"looping", "receiving", "finished"}
         /\ phase_one[w] = None /\ phase_two[w] = None

Positions(s, r) == {i \in DOMAIN s : s[i] = r}

\* Where request r is: the slots of a sequence, at place <<kind, index, slot>>.
SlotsOf(kind, index, s, r) == {<<kind, index, i>> : i \in Positions(s, r)}

ChannelPlaces(r) ==
  UNION {SlotsOf("channel", b, requests_channel[b], r) : b \in Batches}

PipelinePlaces(r) == UNION {SlotsOf("worker", w, Pipeline(w), r) : w \in Workers}

Places(r) ==
  ChannelPlaces(r) \cup SlotsOf("queue", 0, work_queue, r) \cup PipelinePlaces(r)

\* The ids of the requests sent in the current call of b and not yet answered.
Unanswered(b) == (1..sent[b]) \ answered[b]

\* Every request of an active call is in one place only: waiting, inside
\* exactly one worker, or answered.  None is lost, duplicated or answered twice.
RequestsConserved ==
  \A r \in Request :
    IF r.sequence_id \in Unanswered(r.batch_id)
    THEN \E p \in Places(r) : Places(r) = {p}
    ELSE Places(r) = {}

\* Every request of a closed batch is answered eventually, whatever the other
\* callers do.
ClosedBatchIsAnswered ==
  \A b \in Batches : \A id \in 1..MaxRequests :
    client[b] = "closed" /\ id <= sent[b] ~> id \in answered[b] \/ client[b] = "idle"

\* get_result, once it has sent its last request, returns.
BatchReturns == \A b \in Batches : client[b] = "closed" ~> client[b] = "idle"

\* Dropping the ExecutionProver ends: the manager and all workers finish.
DropCompletes == dropped ~> AllFinished

\* The manager implements the promise of WorkBatches.
Abstract == INSTANCE WorkBatches WITH
  outstanding <- [b \in Batches |-> Unanswered(b)]

\* Safety, for any number of concurrent callers: each request is answered at
\* most once, to the call that sent it, and get_result returns only with all of
\* them answered (assert_eq!(pending_requests_count, 0)).
ImplementsWorkBatches == Abstract!Spec

\* With its liveness, for one caller at a time: a closed batch is answered and
\* its call returns.
ImplementsFairWorkBatches == Abstract!FairSpec

=============================================================================
