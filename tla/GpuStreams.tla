----------------------------- MODULE GpuStreams -----------------------------
(***************************************************************************)
(* One GPU worker and its device: what the worker thread enqueues on the   *)
(* CUDA streams of its ProverContext, and the two streams that execute it. *)
(*                                                                         *)
(* The thread never waits for the work it enqueues, with two exceptions:   *)
(* the first setup of a circuit and the end of a job.  In one round it     *)
(* schedules the transfers of the request it received (phase one), the     *)
(* computation of the request before it (phase two) and answers the one    *)
(* before that (phase three), so that copies overlap computations.         *)
(* Buffers go back to their allocator when the thread drops them, while    *)
(* the streams may still be using them.                                    *)
(*                                                                         *)
(* CUDA itself is modelled from its use: a stream executes its operations  *)
(* in order; a wait refers to the record enqueued before it, if any; a     *)
(* host function whose HostFn has been dropped does nothing.               *)
(***************************************************************************)
EXTENDS Integers, FiniteSets, Sequences

CONSTANTS
  Circuits,     \* per request, in the order of arrival: the transfers its
                \* circuit needs; bound: the number of requests
  DeviceBlocks, \* bound: buffers in the pool of the device
  None

Parts == {"decoder", "inits", "trace"}

ASSUME CircuitsAssumption == Circuits \in Seq(SUBSET Parts)

\* No allocation fails, which would end the process: there are buffers for the
\* transfers of two requests in a row, proofs with a setup each, and one more.
ASSUME DeviceBlocksAssumption ==
  /\ DeviceBlocks \in Nat
  /\ \A n \in DOMAIN Circuits : Cardinality(Circuits[n]) + 2 <= DeviceBlocks
  /\ \A n \in 1..(Len(Circuits) - 1) :
       Cardinality(Circuits[n]) + Cardinality(Circuits[n + 1]) + 3 <= DeviceBlocks

Ids == DOMAIN Circuits
Names == Parts \cup {"setup", "caps"}

\* `known`: setup_trees_and_caps of the circuit has been computed, by this
\* worker or by that of another device.
Requests == [id : Ids, proof : BOOLEAN, parts : SUBSET Parts, known : BOOLEAN]

Streams == {"exec", "h2d"}
Device == 1..DeviceBlocks
HostCaps == 0  \* the pinned buffer of results: every job allocates the same

\* A request and the buffers of its transfers.
Phases == [request : Requests, device : UNION {[names -> Device] : names \in SUBSET Names}]

ASSUME NoneAssumption == None \notin Requests /\ None \notin Phases

VARIABLES
  streams,    \* per stream: the operations enqueued and not completed
  contents,   \* per block: what was last written there
  worker,     \* where the thread is in its loop
  request,    \* the message of this round
  phase_one,  \* current_phase_one
  phase_two,  \* current_phase_two
  even_odd_index,
  requested,  \* requests received
  written,    \* jobs whose callback has stored the result
  answered    \* requests whose result was sent

hostVars == <<worker, request, phase_one, phase_two, even_odd_index, requested, answered>>
vars == <<streams, contents, hostVars, written>>

Init ==
  /\ streams = [s \in Streams |-> <<>>]
  /\ contents = [b \in {HostCaps} \cup Device |-> None]
  /\ worker = "receive" /\ request = None
  /\ phase_one = None /\ phase_two = None /\ even_odd_index = 0
  /\ requested = 0 /\ written = {} /\ answered = {}

-----------------------------------------------------------------------------
(* Operations, and what a piece of the code enqueues: a sequence of them    *)
(* per stream.  `reads` holds pairs of a block and what should be in it.   *)

Nothing == [s \in Streams |-> <<>>]
Single(stream, op) == [s \in Streams |-> IF s = stream THEN <<op>> ELSE <<>>]

\* First the one, then the other.
a ++ b == [s \in Streams |-> a[s] \o b[s]]

Copy(name, id, block) == Single("h2d", [op |-> "copy", block |-> block, data |-> <<id, name>>])
Kernel(reads, data, block) ==
  Single("exec", [op |-> "kernel", reads |-> reads, block |-> block, data |-> data])
Callback(reads, id) == Single("exec", [op |-> "callback", reads |-> reads, id |-> id])
Record(stream, name, id) == Single(stream, [op |-> "record", event |-> <<name, id>>])
Wait(stream, name, id) == Single(stream, [op |-> "wait", event |-> <<name, id>>])

Enqueue(work) == streams' = streams ++ work

BlocksRead(op) == IF "reads" \in DOMAIN op THEN {r[1] : r \in op.reads} ELSE {}
BlocksWritten(op) == IF "block" \in DOMAIN op THEN {op.block} ELSE {}

Pending(stream) == {streams[stream][i] : i \in DOMAIN streams[stream]}
Recorded(event) == \A s \in Streams : \A op \in Pending(s) : ~(op.op = "record" /\ op.event = event)

\* The next operation of the stream may run.
Ready(stream) ==
  /\ streams[stream] # <<>>
  /\ LET op == Head(streams[stream]) IN op.op = "wait" => Recorded(op.event)

\* A slip: the callbacks are dropped when the job has been enqueued.
CallbacksDropped(id) == FALSE

\* The callbacks of a job live in it, and the worker holds it until finish.
CallbacksHeld(id) ==
  \/ phase_two # None /\ phase_two.id = id
  \/ worker = "phase_three" /\ request # None /\ request.id = id

Execute(stream) ==
  /\ Ready(stream)
  /\ LET op == Head(streams[stream]) IN
       /\ contents' = IF "block" \in DOMAIN op THEN [contents EXCEPT ![op.block] = op.data] ELSE contents
       /\ written' = IF op.op = "callback" /\ CallbacksHeld(op.id) THEN written \cup {op.id} ELSE written
  /\ streams' = [streams EXCEPT ![stream] = Tail(@)]
  /\ UNCHANGED hostVars

-----------------------------------------------------------------------------
(* Device memory: phase one holds its buffers from round to round; all     *)
(* others are dropped by the round that allocates them.                    *)

Held(phase) == IF phase = None THEN {} ELSE {phase.device[name] : name \in DOMAIN phase.device}

\* ProverContext::alloc, the n-th allocation at the Bottom or at the Top of
\* what is free; reversed placement swaps the two.
Nth(n, free) == CHOOSE b \in free : Cardinality({c \in free : c < b}) = n - 1
Alloc(placement, n, held, reversed) ==
  LET free == Device \ held IN
  IF (placement = "Bottom") # reversed THEN Nth(n, free) ELSE Nth(Cardinality(free) + 1 - n, free)

\* Allocations of the transfers of a request, in the order of the code: the setup,
\* the decoder table, the inits and the trace.
Needed(r) == r.parts \cup (IF r.proof THEN {"setup"} ELSE {})
Bottom == {"setup", "decoder"}
Top == {"inits", "trace"}

Place(name, rank, held, reversed) ==
  Alloc(IF name \in Bottom THEN "Bottom" ELSE "Top", rank, held, reversed)

\* A slip: every allocation of a request is taken for its first.
AlwaysFirst(name, needed) == 1
Rank(name, needed) ==
  IF \/ name = "decoder" /\ "setup" \in needed
     \/ name = "trace" /\ "inits" \in needed
  THEN 2 ELSE 1

Allocated(r, held, reversed) ==
  [name \in Needed(r) |-> Place(name, Rank(name, Needed(r)), held, reversed)]

-----------------------------------------------------------------------------
(* Transfers: what is enqueued, in the order of the calls.                 *)

\* A slip: the copy does not wait for the users of the memory it got.
CopyAtOnce(name, id) == Nothing
EnsureAllocated(name, id) == Wait("h2d", <<name, "allocated">>, id)

\* A slip: the event is recorded before the copy.
RecordedFirst(name, id, block) ==
  Record("h2d", <<name, "transferred">>, id) ++ Copy(name, id, block)
Scheduled(name, id, block) ==
  Copy(name, id, block) ++ Record("h2d", <<name, "transferred">>, id)

\* Creation of a transfer and schedule_transfer.
Transfer(name, id, block) ==
  Record("exec", <<name, "allocated">>, id) ++ EnsureAllocated(name, id) ++ Scheduled(name, id, block)

\* A slip: the computation does not wait for the copy.
UseAtOnce(name, id) == Nothing
EnsureTransferred(name, id) == Wait("exec", <<name, "transferred">>, id)

TransferOne(name, names, id, device) ==
  IF name \in names THEN Transfer(name, id, device[name]) ELSE Nothing

Transfers(names, id, device) ==
  TransferOne("setup", names, id, device) ++ TransferOne("decoder", names, id, device)
    ++ TransferOne("inits", names, id, device) ++ TransferOne("trace", names, id, device)

EnsureOneTransferred(name, names, id) ==
  IF name \in names THEN EnsureTransferred(name, id) ELSE Nothing

EnsureDecoder(names, id) == EnsureOneTransferred("decoder", names, id)
EnsureData(names, id) ==
  EnsureOneTransferred("inits", names, id) ++ EnsureOneTransferred("trace", names, id)

-----------------------------------------------------------------------------
(* The thread.                                                             *)

\* An empty message pushes the pipeline; the manager sends it only while it
\* has requests in it.
Receive ==
  /\ worker = "receive"
  /\ \/ /\ requested < Len(Circuits)
        /\ \E proof, known \in BOOLEAN :
             /\ proof \/ known
             /\ request' = [id |-> requested + 1, proof |-> proof, known |-> known,
                            parts |-> Circuits[requested + 1]]
        /\ requested' = requested + 1
     \/ /\ phase_one # None \/ phase_two # None
        /\ request' = None /\ UNCHANGED requested
  /\ worker' = IF request' # None /\ ~request'.known THEN "get_trees_and_caps" ELSE "phase_one"
  /\ UNCHANGED <<streams, contents, phase_one, phase_two, even_odd_index, written, answered>>

\* SetupPrecomputations::get_trees_and_caps: the worker transfers and
\* commits to the setup, and then waits for the exec stream.
GetTreesAndCaps ==
  /\ worker = "get_trees_and_caps"
  /\ LET id == request.id
         block == Alloc("Bottom", 1, Held(phase_one), even_odd_index = 1)
     IN Enqueue(Transfer("caps", id, block) ++ EnsureTransferred("caps", id)
                ++ Kernel({<<block, <<id, "caps">>>>}, <<id, "setup caps">>, HostCaps))
  /\ worker' = "synchronize"
  /\ UNCHANGED <<contents, request, phase_one, phase_two, even_odd_index, requested, written, answered>>

Synchronize ==
  /\ worker = "synchronize" /\ streams["exec"] = <<>>
  /\ worker' = "phase_one"
  /\ UNCHANGED <<streams, contents, request, phase_one, phase_two, even_odd_index, requested, written, answered>>

\* The transfers of the new request are scheduled; the previous one moves on.
\* `request` keeps the one that moves on until phase two is done with it.
PhaseOne ==
  /\ worker = "phase_one"
  /\ IF request = None
     THEN phase_one' = None /\ UNCHANGED streams
     ELSE LET device == Allocated(request, Held(phase_one), even_odd_index = 1) IN
          /\ phase_one' = [request |-> request, device |-> device]
          /\ Enqueue(Transfers(Needed(request), request.id, device))
  /\ request' = phase_one
  /\ worker' = "phase_two"
  /\ UNCHANGED <<contents, phase_two, even_odd_index, requested, written, answered>>

\* What a kernel reads of the buffers of a request.
Inputs(names, id, device) == {<<device[name], <<id, name>>>> : name \in names}

\* commit_memory.
Commit(r, device, held) ==
  LET id == r.id
      memory == Alloc("Bottom", 1, held, even_odd_index = 0)
  IN EnsureData(r.parts, id)
     ++ Kernel(Inputs(r.parts, id, device), <<id, "memory">>, memory)
     ++ Kernel({<<memory, <<id, "memory">>>>}, <<id, "result">>, HostCaps)
     ++ Callback({<<HostCaps, <<id, "result">>>>}, id)
     ++ Record("exec", <<"job", "is_finished">>, id)

\* prove: the inputs are dropped after witness generation, and `scratch`, an
\* allocation of a later stage, may take their place.
Prove(r, device, held, scratch) ==
  LET id == r.id
      holder == Alloc("Bottom", 1, held, even_odd_index = 0)
      extended == <<device["setup"], <<id, "extended">>>>
      trace == <<holder, <<id, "witness">>>>
  IN EnsureTransferred("setup", id)
     ++ Kernel({<<device["setup"], <<id, "setup">>>>}, <<id, "extended">>, device["setup"])
     ++ EnsureData(r.parts, id)
     ++ Kernel(Inputs(r.parts, id, device) \cup {extended}, <<id, "witness">>, holder)
     ++ Kernel({extended, trace}, <<id, "stages">>, scratch)
     ++ Kernel({extended, trace, <<scratch, <<id, "stages">>>>}, <<id, "result">>, HostCaps)
     ++ Callback({<<HostCaps, <<id, "result">>>>}, id)
     ++ Record("exec", <<"job", "spill">>, id)
     ++ Wait("h2d", <<"job", "spill">>, id)
     ++ Record("exec", <<"job", "is_finished">>, id)

\* The decoder table and the job of the previous request are enqueued;
\* `request` becomes the one before it, to be answered.
PhaseTwo ==
  /\ worker = "phase_two"
  /\ IF request = None
     THEN phase_two' = None /\ UNCHANGED streams
     ELSE LET r == request.request
              device == request.device
              held == Held(phase_one) \cup Held(request)
              decoder == EnsureDecoder(r.parts, r.id)
          IN /\ phase_two' = r
             /\ IF r.proof
                THEN LET dropped == {device[name] : name \in r.parts \cap Top}
                         used == (held \ dropped) \cup {Alloc("Bottom", 1, held, even_odd_index = 0)}
                     IN \E scratch \in Device \ used :
                          Enqueue(decoder ++ Prove(r, device, held, scratch))
                ELSE Enqueue(decoder ++ Commit(r, device, held))
  /\ request' = phase_two
  /\ even_odd_index' = 1 - even_odd_index
  /\ worker' = "phase_three"
  /\ UNCHANGED <<contents, phase_one, requested, written, answered>>

\* A slip: the job is taken for finished once it has been enqueued.
EnqueuedIsFinished(id) == TRUE
IsFinished(id) == Recorded(<<<<"job", "is_finished">>, id>>)

\* finish waits for the job, drops its callbacks and unwraps the result, which
\* is sent with the host data of the request.
PhaseThree ==
  /\ worker = "phase_three"
  /\ IF request = None
     THEN worker' = "receive" /\ UNCHANGED answered
     ELSE /\ IsFinished(request.id)
          /\ IF request.id \in written
             THEN worker' = "receive" /\ answered' = answered \cup {request.id}
             ELSE worker' = "panicked" /\ UNCHANGED answered
  /\ request' = None
  /\ UNCHANGED <<streams, contents, phase_one, phase_two, even_odd_index, requested, written>>

\* The manager drops the channel only when its queue of the worker is empty.
Close ==
  /\ worker = "receive" /\ phase_one = None /\ phase_two = None
  /\ worker' = "closed"
  /\ UNCHANGED <<streams, contents, request, phase_one, phase_two, even_odd_index, requested, written, answered>>

Thread == GetTreesAndCaps \/ Synchronize \/ PhaseOne \/ PhaseTwo \/ PhaseThree
Stopped == worker \in {"closed", "panicked"} /\ UNCHANGED vars
Next == Receive \/ Thread \/ Close \/ (\E s \in Streams : Execute(s)) \/ Stopped

\* The device executes what is ready, the thread continues, and the manager
\* goes on sending while the worker has requests.
Fairness ==
  /\ WF_vars(Receive) /\ WF_vars(Thread)
  /\ \A s \in Streams : WF_vars(Execute(s))

Spec == Init /\ [][Next]_vars
FairSpec == Spec /\ Fairness

-----------------------------------------------------------------------------
(* Properties.                                                             *)

Data == Ids \X (Names \cup {"setup caps", "memory", "extended", "witness", "stages", "result"})
Events == ((Names \X {"allocated", "transferred"}) \cup ({"job"} \X {"spill", "is_finished"})) \X Ids
Blocks == {HostCaps} \cup Device

IsOperation(op) ==
  \/ op.op = "copy" /\ op.block \in Device /\ op.data \in Data
  \/ op.op = "kernel" /\ op.reads \subseteq Device \X Data /\ op.block \in Blocks /\ op.data \in Data
  \/ op.op = "callback" /\ op.reads \subseteq {HostCaps} \X Data /\ op.id \in Ids
  \/ op.op \in {"record", "wait"} /\ op.event \in Events

\* The type of the state; kernels work in device memory, a callback reads
\* pinned memory, and no buffer of a request is allocated twice.
TypeOK ==
  /\ DOMAIN streams = Streams /\ \A s \in Streams : \A op \in Pending(s) : IsOperation(op)
  /\ contents \in [Blocks -> Data \cup {None}]
  /\ worker \in {"receive", "get_trees_and_caps", "synchronize", "phase_one", "phase_two",
                 "phase_three", "closed", "panicked"}
  /\ \A phase \in {phase_one} \cup (IF worker = "phase_two" THEN {request} ELSE {}) :
       phase # None => /\ phase \in Phases
                       /\ DOMAIN phase.device = Needed(phase.request)
                       /\ \A m, n \in DOMAIN phase.device : m # n => phase.device[m] # phase.device[n]
  /\ phase_two \in Requests \cup {None}
  /\ even_odd_index \in {0, 1} /\ requested \in 0..Len(Circuits)
  /\ written \subseteq Ids /\ answered \subseteq Ids

Conflict(p, q) ==
  \/ BlocksWritten(p) \cap (BlocksRead(q) \cup BlocksWritten(q)) # {}
  \/ BlocksWritten(q) \cap BlocksRead(p) # {}

\* Two operations that may run at the same time never touch the same memory
\* if one of them writes it, although buffers are given to the next request
\* while the work of the last one is pending.
StreamsDoNotRace ==
  Ready("exec") /\ Ready("h2d") => ~Conflict(Head(streams["exec"]), Head(streams["h2d"]))

\* A kernel or a callback that may run finds what its inputs should hold: its
\* own transfers have arrived, and no later owner of a buffer that has been
\* dropped too early has written to it.
KernelsFindTheirData ==
  \A s \in Streams :
    Ready(s) /\ "reads" \in DOMAIN Head(streams[s]) =>
      \A r \in Head(streams[s]).reads : contents[r[1]] = r[2]

\* The host memory a pending copy reads has not been given back with the
\* answer to its request (the closures that should keep it alive capture
\* nothing: the request alone does).
SourcesAreHeld ==
  \A op \in Pending("h2d") : op.op = "copy" => op.data[1] \notin answered

\* The result is there when the worker unwraps it: finish never panics.
JobsHaveResults == worker # "panicked"

\* Every request is answered: no wait of a stream for the other, or of the
\* thread for a stream, goes on for ever.
EveryRequestIsAnswered == <>[](answered = 1..requested)
=============================================================================
