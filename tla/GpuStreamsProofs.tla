------------------------- MODULE GpuStreamsProofs -------------------------
(***************************************************************************)
(* The streams of a GPU worker never race, its kernels find their data and *)
(* every job it answers has its result, whatever the requests need.        *)
(*                                                                         *)
(* The heart of the proof is about two queues and the buffers, apart from  *)
(* the thread (Sound): whatever touches the same buffer is ordered by a    *)
(* wait of one queue for a record of the other, and whoever reads a buffer *)
(* comes after the one that writes what it should find, with nobody else   *)
(* in between.  It is kept by executing an operation (ExecRuns, H2dRuns)   *)
(* and by every piece of work the thread enqueues (Leads).  The thread's   *)
(* own part is which buffers it gives to whom, and when (Inv).             *)
(***************************************************************************)
EXTENDS GpuStreams, SumTheorems, FiniteSetTheorems, SequenceTheorems, TLAPS

\* The number of free buffers below an address.
Below(free, b) == Cardinality({c \in free : c < b})

\* How the number of free buffers below an address grows with it.
LEMMA BelowCounts ==
  ASSUME NEW free \in SUBSET Device
  PROVE  /\ IsFiniteSet(free) /\ Cardinality(free) \in Nat /\ Cardinality(free) <= DeviceBlocks
         /\ \A b \in Nat : Below(free, b) \in Nat
         /\ Below(free, 1) = 0
         /\ Below(free, DeviceBlocks + 1) = Cardinality(free)
         /\ \A b \in Nat : Below(free, b + 1) = IF b \in free THEN Below(free, b) + 1 ELSE Below(free, b)
<1>1. DeviceBlocks \in Nat
  BY DeviceBlocksAssumption
<1>2. IsFiniteSet(Device) /\ Cardinality(Device) = DeviceBlocks
  BY <1>1, FS_Interval DEF Device
<1>3. IsFiniteSet(free) /\ Cardinality(free) \in Nat /\ Cardinality(free) <= DeviceBlocks
  BY <1>2, FS_Subset, FS_CardinalityType
<1>4. ASSUME NEW b PROVE IsFiniteSet({c \in free : c < b})
  BY <1>3, FS_Subset
<1>5. \A b \in Nat : Below(free, b) \in Nat
  BY <1>4, FS_CardinalityType DEF Below
<1>6. Below(free, 1) = 0
  <2>1. \A c \in free : ~ (c < 1)
    BY <1>1 DEF Device
  <2>2. {c \in free : c < 1} = {}
    BY <2>1
  <2> QED BY <2>2, FS_EmptySet DEF Below
<1>7. Below(free, DeviceBlocks + 1) = Cardinality(free)
  <2>0. \A c \in free : c < DeviceBlocks + 1
    BY <1>1 DEF Device
  <2>1. {c \in free : c < DeviceBlocks + 1} = free
    BY <2>0
  <2> QED BY <2>1 DEF Below
<1>8. ASSUME NEW b \in Nat
      PROVE  Below(free, b + 1) = IF b \in free THEN Below(free, b) + 1 ELSE Below(free, b)
  <2> DEFINE S == {c \in free : c < b}
             T == {c \in free : c < b + 1}
  <2>1. \A c \in free : c \in Nat
    BY <1>1 DEF Device
  <2>2. CASE b \in free
    <3>6. b \in Nat /\ ~ (b < b) /\ b < b + 1 /\ \A c \in Nat : c < b => c < b + 1
      OBVIOUS
    <3>7. \A c \in Nat : c < b + 1 => c < b \/ c = b
      OBVIOUS
    <3>1. b \notin S /\ S \subseteq T /\ b \in T
      BY <2>1, <2>2, <3>6
    <3>4. ASSUME NEW c \in T PROVE c \in S \cup {b}
      BY <2>1, <3>4, <3>7
    <3>5. T = S \cup {b}
      BY <3>1, <3>4
    <3>2. IsFiniteSet(S)
      BY <1>4
    <3> HIDE DEF S, T
    <3>3. Cardinality(T) = Cardinality(S) + 1
      BY <3>1, <3>2, <3>5, FS_AddElement
    <3> QED BY <2>2, <3>3 DEF Below, S, T
  <2>3. CASE b \notin free
    <3>1. T = S
      BY <2>1, <2>3
    <3> QED BY <2>3, <3>1 DEF Below
  <2> QED BY <2>2, <2>3
<1> QED BY <1>3, <1>5, <1>6, <1>7, <1>8

\* There is an n-th free buffer.
LEMMA NthIsFree ==
  ASSUME NEW free \in SUBSET Device, NEW n \in Nat, 1 <= n, n <= Cardinality(free)
  PROVE  Nth(n, free) \in free /\ Below(free, Nth(n, free)) = n - 1
<1> DEFINE S == {b \in Nat : Below(free, b + 1) >= n}
<1>1. DeviceBlocks \in Nat
  BY DeviceBlocksAssumption
<1>2. DeviceBlocks \in S
  BY <1>1, BelowCounts
<1>3. PICK b \in S : \A m \in Nat : m < b => m \notin S
  <2>1. S \subseteq Nat /\ S # {}
    BY <1>2
  <2> HIDE DEF S
  <2> QED BY <2>1, LeastNumber
<1>4. b \in Nat /\ Below(free, b + 1) >= n /\ Below(free, b) \in Nat /\ Below(free, b + 1) \in Nat
  BY <1>3, BelowCounts
<1>5. Below(free, b) < n
  <2>1. CASE b = 0
    <3>1. 0 \notin free
      BY DEF Device
    <3>2. Below(free, b + 1) = Below(free, b)
      BY <2>1, <3>1, <1>4, BelowCounts
    <3>3. Below(free, 1) = 0
      BY BelowCounts
    <3> QED BY <2>1, <3>2, <3>3, <1>4
  <2>2. CASE b # 0
    <3>1. b - 1 \in Nat /\ (b - 1) + 1 = b /\ b - 1 \notin S
      BY <1>3, <1>4, <2>2
    <3>2. ~ (Below(free, b) >= n)
      BY <3>1
    <3> QED BY <3>2, <1>4
  <2> QED BY <2>1, <2>2
<1>6. b \in free /\ Below(free, b) = n - 1
  <2>1. Below(free, b + 1) = IF b \in free THEN Below(free, b) + 1 ELSE Below(free, b)
    BY <1>4, BelowCounts
  <2> QED BY <2>1, <1>4, <1>5
<1>7. \E c \in free : Cardinality({d \in free : d < c}) = n - 1
  BY <1>6 DEF Below
<1> QED BY <1>7 DEF Nth, Below

Buffered == {"setup", "decoder", "inits", "trace"}

One(name, names) == IF name \in names THEN 1 ELSE 0

\* The number of transfers, one by one.
LEMMA NamesAreCounted ==
  ASSUME NEW names \in SUBSET Buffered
  PROVE  /\ IsFiniteSet(names)
         /\ Cardinality(names) = One("setup", names) + One("decoder", names)
                                   + One("inits", names) + One("trace", names)
<1> DEFINE s1 == names \ {"setup"}
           s2 == s1 \ {"decoder"}
           s3 == s2 \ {"inits"}
           s4 == s3 \ {"trace"}
<1>1. s4 = {}
  BY DEF Buffered
<1>2. /\ "decoder" \in s1 <=> "decoder" \in names
      /\ "inits" \in s2 <=> "inits" \in names
      /\ "trace" \in s3 <=> "trace" \in names
  OBVIOUS
<1>3. IsFiniteSet(names)
  <2>1. IsFiniteSet({"setup"}) /\ IsFiniteSet({"decoder"})
        /\ IsFiniteSet({"inits"}) /\ IsFiniteSet({"trace"})
    BY FS_Singleton
  <2>2. IsFiniteSet({"setup"} \cup {"decoder"}) /\ IsFiniteSet({"inits"} \cup {"trace"})
    BY <2>1, FS_Union
  <2>3. IsFiniteSet(({"setup"} \cup {"decoder"}) \cup ({"inits"} \cup {"trace"}))
    BY <2>2, FS_Union
  <2>4. ({"setup"} \cup {"decoder"}) \cup ({"inits"} \cup {"trace"}) = Buffered
    BY DEF Buffered
  <2> QED BY <2>3, <2>4, FS_Subset
<1>4. IsFiniteSet(s1) /\ Cardinality(names) = Cardinality(s1) + One("setup", names)
  <2>1. IsFiniteSet(s1) /\ Cardinality(s1) = Cardinality(names) - One("setup", names)
    BY <1>3, FS_RemoveElement, FS_CardinalityType DEF One
  <2> QED BY <1>3, <2>1, FS_CardinalityType DEF One
<1> HIDE DEF s1
<1>5. IsFiniteSet(s2) /\ Cardinality(s1) = Cardinality(s2) + One("decoder", names)
  <2>1. IsFiniteSet(s2) /\ Cardinality(s2) = Cardinality(s1) - One("decoder", names)
    BY <1>2, <1>4, FS_RemoveElement, FS_CardinalityType DEF One
  <2> QED BY <1>4, <2>1, FS_CardinalityType DEF One
<1> HIDE DEF s2
<1>6. IsFiniteSet(s3) /\ Cardinality(s2) = Cardinality(s3) + One("inits", names)
  <2>1. IsFiniteSet(s3) /\ Cardinality(s3) = Cardinality(s2) - One("inits", names)
    BY <1>2, <1>5, FS_RemoveElement, FS_CardinalityType DEF One
  <2> QED BY <1>5, <2>1, FS_CardinalityType DEF One
<1> HIDE DEF s3
<1>7. IsFiniteSet(s4) /\ Cardinality(s3) = Cardinality(s4) + One("trace", names)
  <2>1. IsFiniteSet(s4) /\ Cardinality(s4) = Cardinality(s3) - One("trace", names)
    BY <1>2, <1>6, FS_RemoveElement, FS_CardinalityType DEF One
  <2> QED BY <1>6, <2>1, FS_CardinalityType DEF One
<1>8. Cardinality(s4) = 0
  BY <1>1, FS_EmptySet
<1> QED BY <1>3, <1>4, <1>5, <1>6, <1>7, <1>8 DEF One

\* Which free buffer a transfer gets.
Index(name, needed, n, reversed) ==
  LET rank == Rank(name, needed) IN
  IF reversed THEN IF name \in Bottom THEN n + 1 - rank ELSE rank
              ELSE IF name \in Bottom THEN rank ELSE n + 1 - rank

\* The transfers of a request get different buffers that are free.
LEMMA BuffersAreFree ==
  ASSUME NEW needed \in SUBSET Buffered, NEW held \in SUBSET Device, NEW reversed \in BOOLEAN,
         Cardinality(needed) <= Cardinality(Device \ held)
  PROVE  /\ \A name \in needed : Place(name, Rank(name, needed), held, reversed) \in Device \ held
         /\ \A m, n \in needed :
              m # n => Place(m, Rank(m, needed), held, reversed)
                         # Place(n, Rank(n, needed), held, reversed)
<1> DEFINE free == Device \ held
           size == Cardinality(free)
           P(name) == Place(name, Rank(name, needed), held, reversed)
           I(name) == Index(name, needed, size, reversed)
<1>1. free \in SUBSET Device /\ size \in Nat
  BY BelowCounts
<1>2. One("setup", needed) + One("decoder", needed) + One("inits", needed) + One("trace", needed) <= size
  BY NamesAreCounted
<1>3. ASSUME NEW name \in needed PROVE P(name) = Nth(I(name), free)
  <2>1. CASE reversed
    BY <2>1 DEF Place, Alloc, Index
  <2>2. CASE ~reversed
    BY <2>2 DEF Place, Alloc, Index
  <2> QED BY <2>1, <2>2
<1> HIDE DEF P
<1>4. /\ \A name \in needed : I(name) \in Nat /\ 1 <= I(name) /\ I(name) <= size
      /\ \A m, n \in needed : m # n => I(m) # I(n)
  <2> HIDE DEF size
  <2>1. CASE reversed
    BY <1>1, <1>2, <2>1 DEF Index, Rank, One, Buffered, Bottom
  <2>2. CASE ~reversed
    BY <1>1, <1>2, <2>2 DEF Index, Rank, One, Buffered, Bottom
  <2> QED BY <2>1, <2>2
<1> HIDE DEF I, free
<1>5. ASSUME NEW name \in needed
      PROVE  P(name) \in free /\ Below(free, P(name)) = I(name) - 1
  <2>1. I(name) \in Nat /\ 1 <= I(name) /\ I(name) <= Cardinality(free)
    BY <1>4
  <2> QED BY <1>1, <1>3, <2>1, NthIsFree
<1>6. ASSUME NEW m \in needed, NEW n \in needed, m # n PROVE P(m) # P(n)
  BY <1>4, <1>5, <1>6
<1> QED BY <1>5, <1>6 DEF P, free

\* A single allocation, when a buffer is free.
LEMMA BufferIsFree ==
  ASSUME NEW held \in SUBSET Device, NEW reversed \in BOOLEAN, Cardinality(Device \ held) # 0
  PROVE  Alloc("Bottom", 1, held, reversed) \in Device \ held
<1>1. Device \ held \in SUBSET Device /\ Cardinality(Device \ held) \in Nat
  BY BelowCounts
<1>2. Nth(1, Device \ held) \in Device \ held
  BY <1>1, NthIsFree
<1>3. Nth(Cardinality(Device \ held) + 1 - 1, Device \ held) \in Device \ held
  <2>1. PICK n : n = Cardinality(Device \ held) + 1 - 1
    OBVIOUS
  <2>2. n \in Nat /\ 1 <= n /\ n <= Cardinality(Device \ held)
    BY <1>1, <2>1
  <2> QED BY <1>1, <2>1, <2>2, NthIsFree
<1>4. CASE reversed
  BY <1>3, <1>4 DEF Alloc
<1>5. CASE ~reversed
  BY <1>2, <1>5 DEF Alloc
<1> QED BY <1>4, <1>5

\* Buffers that are left.
LEMMA BuffersLeft ==
  ASSUME NEW held \in SUBSET Device
  PROVE  /\ IsFiniteSet(held) /\ Cardinality(held) \in Nat
         /\ Cardinality(Device \ held) = DeviceBlocks - Cardinality(held)
<1>1. DeviceBlocks \in Nat
  BY DeviceBlocksAssumption
<1>2. IsFiniteSet(Device) /\ Cardinality(Device) = DeviceBlocks
  BY <1>1, FS_Interval DEF Device
<1>3. Device \cap held = held
  OBVIOUS
<1>4. IsFiniteSet(held) /\ Cardinality(held) \in Nat
  BY <1>2, FS_Subset, FS_CardinalityType
<1>5. Cardinality(Device \ held) = Cardinality(Device) - Cardinality(Device \cap held)
  BY <1>2, FS_Difference
<1> QED BY <1>2, <1>3, <1>4, <1>5

-----------------------------------------------------------------------------
(* The two queues of operations, e and h, and the contents c of the        *)
(* buffers, apart from the thread.                                         *)

CopyOps == [op : {"copy"}, block : Device, data : Data]
KernelOps == [op : {"kernel"}, reads : SUBSET (Device \X Data), block : Blocks, data : Data]
CallbackOps == [op : {"callback"}, reads : SUBSET ({HostCaps} \X Data), id : Ids]
EventOps == [op : {"record", "wait"}, event : Events]
ExecOps == KernelOps \cup CallbackOps \cup EventOps
H2dOps == CopyOps \cup EventOps

Writes(op, b) == op.op \in {"copy", "kernel"} /\ op.block = b
Reads(op, b, d) == op.op \in {"kernel", "callback"} /\ <<b, d>> \in op.reads
Touches(op, b) == Writes(op, b) \/ \E d : Reads(op, b, d)

IsCopy(op, b) == op.op = "copy" /\ op.block = b
IsRecord(op, event) == op.op = "record" /\ op.event = event
IsWait(op, event) == op.op = "wait" /\ op.event = event

\* The events of the transfer of d, an id and a name.
HasBuffer(d) == <<<<d[2], "allocated">>, d[1]>>
IsThere(d) == <<<<d[2], "transferred">>, d[1]>>

\* The copy h[j] runs after the operation e[i]: a record behind it lets it go.
After(e, h, i, j) ==
  /\ \E k \in 1..Len(e) : i < k /\ IsRecord(e[k], HasBuffer(h[j].data))
  /\ \E m \in 1..Len(h) : m < j /\ IsWait(h[m], HasBuffer(h[j].data))

\* The copy h[j] runs before the operation e[i], which is behind a wait for it.
Before(e, h, i, j) == \E k \in 1..Len(e) : k < i /\ IsWait(e[k], IsThere(h[j].data))

\* Every copy has its record behind it.
Announced(h) ==
  \A j \in 1..Len(h) :
    h[j].op = "copy" => \E m \in 1..Len(h) : j < m /\ IsRecord(h[m], IsThere(h[j].data))

\* What touches the same buffer is in order.
Ordered(e, h) ==
  \A i \in 1..Len(e), j \in 1..Len(h) :
    h[j].op = "copy" /\ Touches(e[i], h[j].block) => After(e, h, i, j) \/ Before(e, h, i, j)

\* An operation at i of the exec stream will find d in b: it is what the last
\* kernel before it leaves there, what a copy will have left there, or what is
\* there already.
FromKernel(e, h, i, b, d) ==
  \E k \in 1..Len(e) :
    /\ k < i /\ Writes(e[k], b) /\ e[k].data = d
    /\ \A l \in 1..Len(e) : k < l /\ l < i => ~Writes(e[l], b)
    /\ \A j \in 1..Len(h) : IsCopy(h[j], b) => After(e, h, i, j) \/ Before(e, h, k, j)

FromCopy(e, h, i, b, d) ==
  \E j \in 1..Len(h) :
    /\ IsCopy(h[j], b) /\ h[j].data = d
    /\ Before(e, h, i, j) \/ Len(e) < i
    /\ \A l \in 1..Len(h) : IsCopy(h[l], b) => l <= j \/ After(e, h, i, l)
    /\ \A k \in 1..Len(e) : k < i /\ Writes(e[k], b) => After(e, h, k, j)

IsIn(e, h, c, i, b, d) ==
  /\ c[b] = d
  /\ \A k \in 1..Len(e) : k < i => ~Writes(e[k], b)
  /\ \A j \in 1..Len(h) : IsCopy(h[j], b) => After(e, h, i, j)

Finds(e, h, c, i, b, d) ==
  FromKernel(e, h, i, b, d) \/ FromCopy(e, h, i, b, d) \/ IsIn(e, h, c, i, b, d)

Sourced(e, h, c) ==
  \A i \in 1..Len(e) : \A b, d : Reads(e[i], b, d) => Finds(e, h, c, i, b, d)

\* What an operation enqueued next would find.
Holds(e, h, c, b, d) == Finds(e, h, c, Len(e) + 1, b, d)

Sound(e, h, c) ==
  /\ e \in Seq(ExecOps) /\ h \in Seq(H2dOps) /\ c \in [Blocks -> Data \cup {None}]
  /\ Announced(h) /\ Ordered(e, h) /\ Sourced(e, h, c)

\* The first operation of a queue q has gone, and r is left.
Dropped(q, r) == Len(q) = Len(r) + 1 /\ \A k \in 1..Len(r) : r[k] = q[k + 1]

\* An operation was added to q, which made it r.
Added(q, op, r) == Len(r) = Len(q) + 1 /\ r[Len(r)] = op /\ \A k \in 1..Len(q) : r[k] = q[k]

-----------------------------------------------------------------------------
(* An operation of the exec stream runs.                                   *)

\* A wait that is over has no record pending.
Over(op, e, h) ==
  op.op = "wait" => /\ \A k \in 1..Len(e) : ~IsRecord(e[k], op.event)
                    /\ \A m \in 1..Len(h) : ~IsRecord(h[m], op.event)

\* What an operation makes of the buffers.
Effect(op, c, c2) ==
  \A b \in Blocks : c2[b] = IF Writes(op, b) THEN op.data ELSE c[b]

\* What was ordered before a copy stays so when the exec stream has moved on.
LEMMA AfterDropsExec ==
  ASSUME NEW e, NEW h, NEW e2, Len(e) \in Nat, Len(h) \in Nat, Len(e2) \in Nat, Dropped(e, e2),
         NEW i \in Nat, i >= 2, NEW i2 \in Nat, i = i2 + 1, NEW j
  PROVE  After(e, h, i, j) => After(e2, h, i2, j)
<1> SUFFICES ASSUME After(e, h, i, j) PROVE After(e2, h, i2, j)
  OBVIOUS
<1>1. PICK k \in 1..Len(e) : i < k /\ IsRecord(e[k], HasBuffer(h[j].data))
  BY DEF After
<1>2. PICK k2 \in Nat : k = k2 + 1
  <2>1. k - 1 \in Nat /\ k = (k - 1) + 1
    BY <1>1
  <2> QED BY <2>1
<1>3. k2 \in 1..Len(e2) /\ i2 < k2 /\ e2[k2] = e[k]
  BY <1>1, <1>2 DEF Dropped
<1> QED BY <1>1, <1>3 DEF After

\* A wait at the head for a copy that is pending is not over.
LEMMA AwaitedIsPending ==
  ASSUME NEW e, NEW h, Len(e) \in Nat, Len(h) \in Nat, Announced(h), Over(e[1], e, h),
         NEW j \in 1..Len(h), h[j].op = "copy"
  PROVE  ~IsWait(e[1], IsThere(h[j].data))
BY DEF Announced, Over, IsWait, IsRecord

\* What was ordered behind a copy stays so when the exec stream has moved on.
LEMMA BeforeDropsExec ==
  ASSUME NEW e, NEW h, NEW e2, Len(e) \in Nat, Len(h) \in Nat, Len(e2) \in Nat, Dropped(e, e2),
         Announced(h), Over(e[1], e, h),
         NEW i \in Nat, NEW i2 \in Nat, i = i2 + 1, NEW j \in 1..Len(h), h[j].op = "copy"
  PROVE  Before(e, h, i, j) => Before(e2, h, i2, j)
<1> SUFFICES ASSUME Before(e, h, i, j) PROVE Before(e2, h, i2, j)
  OBVIOUS
<1>1. PICK k \in 1..Len(e) : k < i /\ IsWait(e[k], IsThere(h[j].data))
  BY DEF Before
<1>2. k # 1
  BY <1>1, AwaitedIsPending
<1>3. PICK k2 \in Nat : k = k2 + 1
  <2>1. k - 1 \in Nat /\ k = (k - 1) + 1
    BY <1>1
  <2> QED BY <2>1
<1>4. k2 \in 1..Len(e2) /\ k2 < i2 /\ e2[k2] = e[k]
  BY <1>1, <1>2, <1>3 DEF Dropped
<1> QED BY <1>1, <1>4 DEF Before

\* An operation still finds its data when the one at the head of the exec
\* stream has run.
LEMMA FindsDropsExec ==
  ASSUME NEW e, NEW h, NEW c, NEW e2, NEW c2, Len(e) \in Nat, Len(h) \in Nat, Len(e2) \in Nat,
         Dropped(e, e2), Announced(h), Over(e[1], e, h), Effect(e[1], c, c2),
         NEW i \in Nat, i >= 2, NEW i2 \in Nat, i = i2 + 1,
         NEW b \in Blocks, NEW d, Finds(e, h, c, i, b, d)
  PROVE  Finds(e2, h, c2, i2, b, d)
<1>1. ASSUME NEW j \in 1..Len(h), IsCopy(h[j], b), After(e, h, i, j)
      PROVE  After(e2, h, i2, j)
  BY <1>1, AfterDropsExec
<1>2. \A k \in 1..Len(e2) : k + 1 \in 1..Len(e) /\ k + 1 \in Nat /\ e2[k] = e[k + 1]
  BY DEF Dropped
<1>3. CASE FromKernel(e, h, i, b, d)
  <2>1. PICK k \in 1..Len(e) :
          /\ k < i /\ Writes(e[k], b) /\ e[k].data = d
          /\ \A l \in 1..Len(e) : k < l /\ l < i => ~Writes(e[l], b)
          /\ \A j \in 1..Len(h) : IsCopy(h[j], b) => After(e, h, i, j) \/ Before(e, h, k, j)
    BY <1>3 DEF FromKernel
  <2>2. CASE k = 1
    <3>1. \A j \in 1..Len(h) : ~Before(e, h, 1, j)
      BY DEF Before
    <3>2. \A j \in 1..Len(h) : IsCopy(h[j], b) => After(e2, h, i2, j)
      BY <1>1, <2>1, <2>2, <3>1
    <3>3. \A l \in 1..Len(e2) : l < i2 => ~Writes(e2[l], b)
      BY <1>2, <2>1, <2>2
    <3>4. c2[b] = d
      BY <2>1, <2>2 DEF Effect
    <3> QED BY <3>2, <3>3, <3>4 DEF Finds, IsIn
  <2>3. CASE k # 1
    <3>1. PICK k2 \in Nat : k = k2 + 1
      <4>1. k - 1 \in Nat /\ k = (k - 1) + 1
        BY <2>1
      <4> QED BY <4>1
    <3>2. k2 \in 1..Len(e2) /\ k2 < i2 /\ e2[k2] = e[k]
      BY <2>1, <2>3, <3>1 DEF Dropped
    <3>3. \A l \in 1..Len(e2) : k2 < l /\ l < i2 => ~Writes(e2[l], b)
      BY <1>2, <2>1, <3>1
    <3>4. ASSUME NEW j \in 1..Len(h), IsCopy(h[j], b) PROVE After(e2, h, i2, j) \/ Before(e2, h, k2, j)
      <4>1. After(e, h, i, j) \/ Before(e, h, k, j)
        BY <2>1, <3>4
      <4>2. h[j].op = "copy"
        BY <3>4 DEF IsCopy
      <4>3. k \in Nat
        BY <2>1
      <4>4. Before(e, h, k, j) => Before(e2, h, k2, j)
        BY <3>1, <4>2, <4>3, BeforeDropsExec
      <4> QED BY <1>1, <3>4, <4>1, <4>4
    <3> QED BY <2>1, <3>2, <3>3, <3>4 DEF Finds, FromKernel
  <2> QED BY <2>2, <2>3
<1>4. CASE FromCopy(e, h, i, b, d)
  <2>1. PICK j \in 1..Len(h) :
          /\ IsCopy(h[j], b) /\ h[j].data = d
          /\ Before(e, h, i, j) \/ Len(e) < i
          /\ \A l \in 1..Len(h) : IsCopy(h[l], b) => l <= j \/ After(e, h, i, l)
          /\ \A k \in 1..Len(e) : k < i /\ Writes(e[k], b) => After(e, h, k, j)
    BY <1>4 DEF FromCopy
  <2>2. h[j].op = "copy"
    BY <2>1 DEF IsCopy
  <2>3. Before(e2, h, i2, j) \/ Len(e2) < i2
    <3>1. Before(e, h, i, j) => Before(e2, h, i2, j)
      BY <2>2, BeforeDropsExec
    <3>2. Len(e) < i => Len(e2) < i2
      BY DEF Dropped
    <3> QED BY <2>1, <3>1, <3>2
  <2>4. \A l \in 1..Len(h) : IsCopy(h[l], b) => l <= j \/ After(e2, h, i2, l)
    BY <1>1, <2>1
  <2>5. ASSUME NEW k \in 1..Len(e2), k < i2, Writes(e2[k], b) PROVE After(e2, h, k, j)
    <3>1. PICK k1 \in Nat : k1 = k + 1
      BY <1>2
    <3>2. After(e, h, k1, j)
      BY <1>2, <2>1, <2>5, <3>1
    <3>3. k \in Nat /\ k1 >= 2
      BY <2>5, <3>1
    <3> QED BY <3>1, <3>2, <3>3, AfterDropsExec
  <2> QED BY <2>1, <2>3, <2>4, <2>5 DEF Finds, FromCopy
<1>5. CASE IsIn(e, h, c, i, b, d)
  <2>1. /\ c[b] = d
        /\ \A k \in 1..Len(e) : k < i => ~Writes(e[k], b)
        /\ \A j \in 1..Len(h) : IsCopy(h[j], b) => After(e, h, i, j)
    BY <1>5 DEF IsIn
  <2>2. ~Writes(e[1], b)
    <3>1. 1 \in 1..Len(e) /\ 1 < i
      BY DEF Dropped
    <3> QED BY <2>1, <3>1
  <2>3. c2[b] = d
    BY <2>1, <2>2 DEF Effect
  <2>4. \A k \in 1..Len(e2) : k < i2 => ~Writes(e2[k], b)
    BY <1>2, <2>1
  <2>5. \A j \in 1..Len(h) : IsCopy(h[j], b) => After(e2, h, i2, j)
    BY <1>1, <2>1
  <2> QED BY <2>3, <2>4, <2>5 DEF Finds, IsIn
<1> QED BY <1>3, <1>4, <1>5 DEF Finds

\* What was ordered before a copy stays so when the copying stream has moved on.
LEMMA AfterDropsH2d ==
  ASSUME NEW e, NEW h, NEW h2, Len(e) \in Nat, Len(h) \in Nat, Len(h2) \in Nat, Dropped(h, h2),
         Over(h[1], e, h), NEW i, NEW j2 \in 1..Len(h2), NEW j, j = j2 + 1
  PROVE  /\ h2[j2] = h[j] /\ j \in 1..Len(h)
         /\ After(e, h, i, j) => After(e, h2, i, j2)
         /\ Before(e, h, i, j) => Before(e, h2, i, j2)
<1>1. h2[j2] = h[j] /\ j \in 1..Len(h)
  BY DEF Dropped
<1>2. ASSUME After(e, h, i, j) PROVE After(e, h2, i, j2)
  <2>1. PICK k \in 1..Len(e) : i < k /\ IsRecord(e[k], HasBuffer(h[j].data))
    BY <1>2 DEF After
  <2>2. PICK m \in 1..Len(h) : m < j /\ IsWait(h[m], HasBuffer(h[j].data))
    BY <1>2 DEF After
  <2>3. m # 1
    BY <2>1, <2>2 DEF Over, IsWait
  <2>4. PICK m2 \in Nat : m = m2 + 1
    <3>1. m - 1 \in Nat /\ m = (m - 1) + 1
      BY <2>2
    <3> QED BY <3>1
  <2>5. m2 \in 1..Len(h2) /\ m2 < j2 /\ h2[m2] = h[m]
    BY <2>2, <2>3, <2>4 DEF Dropped
  <2> QED BY <1>1, <2>1, <2>2, <2>5 DEF After
<1>3. Before(e, h, i, j) => Before(e, h2, i, j2)
  BY <1>1 DEF Before
<1> QED BY <1>1, <1>2, <1>3

\* Every operation of h2 was one of h, and keeps its order.
LEMMA MovesUp ==
  ASSUME NEW e, NEW h, NEW h2, Len(e) \in Nat, Len(h) \in Nat, Len(h2) \in Nat, Dropped(h, h2),
         Over(h[1], e, h), NEW j2 \in 1..Len(h2)
  PROVE  \E j \in 1..Len(h) :
           /\ j = j2 + 1 /\ h2[j2] = h[j]
           /\ \A n : After(e, h, n, j) => After(e, h2, n, j2)
           /\ \A n : Before(e, h, n, j) => Before(e, h2, n, j2)
<1>1. PICK j : j = j2 + 1
  OBVIOUS
<1>2. ASSUME NEW n
      PROVE  /\ h2[j2] = h[j] /\ j \in 1..Len(h)
             /\ After(e, h, n, j) => After(e, h2, n, j2)
             /\ Before(e, h, n, j) => Before(e, h2, n, j2)
  BY <1>1, AfterDropsH2d
<1> QED BY <1>1, <1>2

\* The operation at the head of h is behind nothing.
LEMMA HeadIsNotAfter ==
  ASSUME NEW e, NEW h, Len(h) \in Nat, NEW i
  PROVE  ~After(e, h, i, 1)
BY DEF After

\* An operation still finds its data when the head of the copying stream has run.
LEMMA FindsDropsH2d ==
  ASSUME NEW e, NEW h, NEW c, NEW h2, NEW c2, Len(e) \in Nat, Len(h) \in Nat, Len(h2) \in Nat,
         Dropped(h, h2), Over(h[1], e, h), Effect(h[1], c, c2), h[1].op # "kernel",
         NEW i \in Nat, NEW b \in Blocks, NEW d, Finds(e, h, c, i, b, d)
  PROVE  Finds(e, h2, c2, i, b, d)
<1>1. ASSUME NEW j2 \in 1..Len(h2)
      PROVE  \E j \in 1..Len(h) :
               /\ j = j2 + 1 /\ h2[j2] = h[j]
               /\ \A n : After(e, h, n, j) => After(e, h2, n, j2)
               /\ \A n : Before(e, h, n, j) => Before(e, h2, n, j2)
  BY MovesUp
<1>2. CASE FromKernel(e, h, i, b, d)
  <2>1. PICK k \in 1..Len(e) :
          /\ k < i /\ Writes(e[k], b) /\ e[k].data = d
          /\ \A l \in 1..Len(e) : k < l /\ l < i => ~Writes(e[l], b)
          /\ \A j \in 1..Len(h) : IsCopy(h[j], b) => After(e, h, i, j) \/ Before(e, h, k, j)
    BY <1>2 DEF FromKernel
  <2>2. \A j \in 1..Len(h2) : IsCopy(h2[j], b) => After(e, h2, i, j) \/ Before(e, h2, k, j)
    BY <1>1, <2>1
  <2> QED BY <2>1, <2>2 DEF Finds, FromKernel
<1>3. CASE FromCopy(e, h, i, b, d)
  <2>1. PICK j \in 1..Len(h) :
          /\ IsCopy(h[j], b) /\ h[j].data = d
          /\ Before(e, h, i, j) \/ Len(e) < i
          /\ \A l \in 1..Len(h) : IsCopy(h[l], b) => l <= j \/ After(e, h, i, l)
          /\ \A k \in 1..Len(e) : k < i /\ Writes(e[k], b) => After(e, h, k, j)
    BY <1>3 DEF FromCopy
  <2>2. CASE j = 1
    <3>1. \A k \in 1..Len(e) : k < i => ~Writes(e[k], b)
      BY <2>1, <2>2, HeadIsNotAfter
    <3>2. \A l \in 1..Len(h2) : IsCopy(h2[l], b) => After(e, h2, i, l)
      <4>1. SUFFICES ASSUME NEW l \in 1..Len(h2), IsCopy(h2[l], b) PROVE After(e, h2, i, l)
        OBVIOUS
      <4>2. PICK n \in 1..Len(h) : /\ n = l + 1 /\ h2[l] = h[n]
                                   /\ After(e, h, i, n) => After(e, h2, i, l)
        BY <1>1
      <4>3. ~ (n <= j)
        BY <2>2, <4>2
      <4> QED BY <2>1, <4>1, <4>2, <4>3
    <3>3. Writes(h[1], b) /\ h[1].data = d
      BY <2>1, <2>2 DEF IsCopy, Writes
    <3>4. c2[b] = d
      BY <3>3 DEF Effect
    <3> QED BY <3>1, <3>2, <3>4 DEF Finds, IsIn
  <2>3. CASE j # 1
    <3>1. PICK j2 \in Nat : j = j2 + 1
      <4>1. j - 1 \in Nat /\ j = (j - 1) + 1
        BY <2>1
      <4> QED BY <4>1
    <3>2. j2 \in 1..Len(h2)
      BY <2>1, <2>3, <3>1 DEF Dropped
    <3>3. /\ h2[j2] = h[j]
          /\ \A n : After(e, h, n, j) => After(e, h2, n, j2)
          /\ \A n : Before(e, h, n, j) => Before(e, h2, n, j2)
      BY <1>1, <3>1, <3>2
    <3>4. \A l \in 1..Len(h2) : IsCopy(h2[l], b) => l <= j2 \/ After(e, h2, i, l)
      <4>1. SUFFICES ASSUME NEW l \in 1..Len(h2), IsCopy(h2[l], b), ~ (l <= j2)
                     PROVE  After(e, h2, i, l)
        OBVIOUS
      <4>2. PICK n \in 1..Len(h) : /\ n = l + 1 /\ h2[l] = h[n]
                                   /\ After(e, h, i, n) => After(e, h2, i, l)
        BY <1>1
      <4>3. ~ (n <= j)
        BY <3>1, <4>1, <4>2
      <4> QED BY <2>1, <4>1, <4>2, <4>3
    <3> QED BY <2>1, <3>2, <3>3, <3>4 DEF Finds, FromCopy
  <2> QED BY <2>2, <2>3
<1>4. CASE IsIn(e, h, c, i, b, d)
  <2>1. /\ c[b] = d
        /\ \A k \in 1..Len(e) : k < i => ~Writes(e[k], b)
        /\ \A j \in 1..Len(h) : IsCopy(h[j], b) => After(e, h, i, j)
    BY <1>4 DEF IsIn
  <2>2. ~Writes(h[1], b)
    <3>1. 1 \in 1..Len(h)
      BY DEF Dropped
    <3>2. ~IsCopy(h[1], b)
      BY <2>1, <3>1, HeadIsNotAfter
    <3> QED BY <3>2 DEF Writes, IsCopy
  <2>3. c2[b] = d
    BY <2>1, <2>2 DEF Effect
  <2>4. \A j \in 1..Len(h2) : IsCopy(h2[j], b) => After(e, h2, i, j)
    BY <1>1, <2>1
  <2> QED BY <2>1, <2>3, <2>4 DEF Finds, IsIn
<1> QED BY <1>2, <1>3, <1>4 DEF Finds

-----------------------------------------------------------------------------

\* What the tail of a queue has of it.
LEMMA TailDrops ==
  ASSUME NEW S, NEW q \in Seq(S), q # <<>>
  PROVE  Tail(q) \in Seq(S) /\ Dropped(q, Tail(q)) /\ Head(q) = q[1] /\ 1 \in 1..Len(q)
<1>1. Len(q) \in Nat /\ Len(q) # 0
  BY EmptySeq
<1>2. Tail(q) \in Seq(S) /\ Len(Tail(q)) = Len(q) - 1
  BY <1>1
<1>3. \A k \in 1..Len(Tail(q)) : Tail(q)[k] = q[k + 1]
  BY <1>1, <1>2
<1> QED BY <1>1, <1>2, <1>3 DEF Dropped

\* What an operation reads and writes is a block.
LEMMA TouchesBlocks ==
  ASSUME NEW op \in ExecOps
  PROVE  /\ \A b, d : Reads(op, b, d) => b \in Blocks /\ d \in Data
         /\ \A b : Writes(op, b) => b \in Blocks /\ op.data \in Data
         /\ op.op # "copy"
<1>1. CASE op \in KernelOps
  BY <1>1 DEF KernelOps, Reads, Writes, Blocks
<1>2. CASE op \in CallbackOps
  BY <1>2 DEF CallbackOps, Reads, Writes, Blocks
<1>3. CASE op \in EventOps
  BY <1>3 DEF EventOps, Reads, Writes
<1> QED BY <1>1, <1>2, <1>3 DEF ExecOps

\* An operation of the copying stream reads nothing, and writes a block.
LEMMA CopiesBlocks ==
  ASSUME NEW op \in H2dOps
  PROVE  /\ op.op \in {"copy", "record", "wait"}
         /\ \A b : Writes(op, b) => b \in Blocks /\ op.data \in Data
         /\ op.op = "copy" => op.block \in Device /\ op.data \in Data
         /\ \A b, d : ~Reads(op, b, d)
<1>1. CASE op \in CopyOps
  BY <1>1 DEF CopyOps, Reads, Writes, Blocks
<1>2. CASE op \in EventOps
  BY <1>2 DEF EventOps, Reads, Writes
<1> QED BY <1>1, <1>2 DEF H2dOps

\* The copies that are pending are behind a wait of what is enqueued next.
Awaited(e, h, j) == Before(e, h, Len(e) + 1, j)

\* The exec stream executes an operation that waits for nothing: the queues stay
\* sound, and what was there for later operations is there.
LEMMA ExecRuns ==
  ASSUME NEW e, NEW h, NEW c, Sound(e, h, c), e # <<>>, Over(e[1], e, h),
         NEW c2 \in [Blocks -> Data \cup {None}], Effect(e[1], c, c2), NEW e2, e2 = Tail(e)
  PROVE  /\ Sound(e2, h, c2)
         /\ \A b \in Blocks : \A d : Holds(e, h, c, b, d) => Holds(e2, h, c2, b, d)
         /\ \A j \in 1..Len(h) : h[j].op = "copy" /\ Awaited(e, h, j) => Awaited(e2, h, j)
<1>1. /\ e \in Seq(ExecOps) /\ h \in Seq(H2dOps) /\ Len(e) \in Nat /\ Len(h) \in Nat
      /\ Announced(h) /\ Ordered(e, h) /\ Sourced(e, h, c)
  BY DEF Sound
<1>2. e2 \in Seq(ExecOps) /\ Dropped(e, e2) /\ Len(e2) \in Nat
  BY <1>1, TailDrops
<1>3. Ordered(e2, h)
  <2>1. SUFFICES ASSUME NEW i2 \in 1..Len(e2), NEW j \in 1..Len(h), h[j].op = "copy",
                        Touches(e2[i2], h[j].block)
                 PROVE  After(e2, h, i2, j) \/ Before(e2, h, i2, j)
    BY DEF Ordered
  <2>2. PICK i \in Nat : i = i2 + 1
    BY <2>1
  <2>3. i \in 1..Len(e) /\ e2[i2] = e[i] /\ i >= 2 /\ i2 \in Nat
    BY <1>2, <2>1, <2>2 DEF Dropped
  <2>4. After(e, h, i, j) \/ Before(e, h, i, j)
    BY <1>1, <2>1, <2>3 DEF Ordered
  <2>5. After(e, h, i, j) => After(e2, h, i2, j)
    BY <1>1, <1>2, <2>2, <2>3, AfterDropsExec
  <2>6. Before(e, h, i, j) => Before(e2, h, i2, j)
    BY <1>1, <1>2, <2>1, <2>2, <2>3, BeforeDropsExec
  <2> QED BY <2>4, <2>5, <2>6
<1>4. Sourced(e2, h, c2)
  <2>1. SUFFICES ASSUME NEW i2 \in 1..Len(e2), NEW b, NEW d, Reads(e2[i2], b, d)
                 PROVE  Finds(e2, h, c2, i2, b, d)
    BY DEF Sourced
  <2>2. PICK i \in Nat : i = i2 + 1
    BY <2>1
  <2>3. i \in 1..Len(e) /\ e2[i2] = e[i] /\ i >= 2 /\ i2 \in Nat
    BY <1>2, <2>1, <2>2 DEF Dropped
  <2>4. Finds(e, h, c, i, b, d)
    BY <1>1, <2>1, <2>3 DEF Sourced
  <2>5. e2[i2] \in ExecOps
    BY <1>2, <2>1
  <2>6. b \in Blocks
    BY <2>1, <2>5, TouchesBlocks
  <2> QED BY <1>1, <1>2, <2>2, <2>3, <2>4, <2>6, FindsDropsExec
<1>5. PICK n \in Nat : n = Len(e) + 1
  BY <1>1
<1>6. PICK n2 \in Nat : n2 = Len(e2) + 1
  BY <1>2
<1>7. n = n2 + 1 /\ n >= 2
  BY <1>2, <1>5, <1>6 DEF Dropped
<1>8. ASSUME NEW b \in Blocks, NEW d, Holds(e, h, c, b, d) PROVE Holds(e2, h, c2, b, d)
  <2>1. Finds(e, h, c, n, b, d)
    BY <1>5, <1>8 DEF Holds
  <2>2. Finds(e2, h, c2, n2, b, d)
    BY <1>1, <1>2, <1>7, <2>1, FindsDropsExec
  <2> QED BY <1>6, <2>2 DEF Holds
<1>9. ASSUME NEW j \in 1..Len(h), h[j].op = "copy", Awaited(e, h, j) PROVE Awaited(e2, h, j)
  <2>1. Before(e, h, n, j)
    BY <1>5, <1>9 DEF Awaited
  <2>2. Before(e2, h, n2, j)
    BY <1>1, <1>2, <1>7, <1>9, <2>1, BeforeDropsExec
  <2> QED BY <1>6, <2>2 DEF Awaited
<1>10. Sound(e2, h, c2)
  BY <1>1, <1>2, <1>3, <1>4 DEF Sound
<1> QED BY <1>8, <1>9, <1>10

\* Every copy of h2 was one of h, and is awaited if that was.
MovesOn(e, h, h2) ==
  \A j2 \in 1..Len(h2) : \E j \in 1..Len(h) : h2[j2] = h[j] /\ (Awaited(e, h, j) => Awaited(e, h2, j2))

\* The copying stream executes an operation that waits for nothing.
LEMMA H2dRuns ==
  ASSUME NEW e, NEW h, NEW c, Sound(e, h, c), h # <<>>, Over(h[1], e, h),
         NEW c2 \in [Blocks -> Data \cup {None}], Effect(h[1], c, c2), NEW h2, h2 = Tail(h)
  PROVE  /\ Sound(e, h2, c2)
         /\ \A b \in Blocks : \A d : Holds(e, h, c, b, d) => Holds(e, h2, c2, b, d)
         /\ MovesOn(e, h, h2)
<1>1. /\ e \in Seq(ExecOps) /\ h \in Seq(H2dOps) /\ Len(e) \in Nat /\ Len(h) \in Nat
      /\ Announced(h) /\ Ordered(e, h) /\ Sourced(e, h, c)
  BY DEF Sound
<1>2. h2 \in Seq(H2dOps) /\ Dropped(h, h2) /\ Len(h2) \in Nat /\ 1 \in 1..Len(h)
  BY <1>1, TailDrops
<1>3. h[1].op # "kernel"
  <2>1. h[1] \in H2dOps
    BY <1>1, <1>2
  <2> QED BY <2>1, CopiesBlocks
<1>4. ASSUME NEW j2 \in 1..Len(h2)
      PROVE  \E j \in 1..Len(h) :
               /\ j = j2 + 1 /\ h2[j2] = h[j]
               /\ \A n : After(e, h, n, j) => After(e, h2, n, j2)
               /\ \A n : Before(e, h, n, j) => Before(e, h2, n, j2)
  <2>1. Len(e) \in Nat /\ Len(h) \in Nat /\ Len(h2) \in Nat /\ Dropped(h, h2)
    BY <1>1, <1>2
  <2> QED BY ONLY <2>1, Over(h[1], e, h), j2 \in 1..Len(h2), MovesUp
<1>5. Announced(h2)
  <2>1. SUFFICES ASSUME NEW j2 \in 1..Len(h2), h2[j2].op = "copy"
                 PROVE  \E m2 \in 1..Len(h2) : j2 < m2 /\ IsRecord(h2[m2], IsThere(h2[j2].data))
    BY DEF Announced
  <2>2. PICK j \in 1..Len(h) : j = j2 + 1 /\ h2[j2] = h[j]
    BY <1>4
  <2>3. PICK m \in 1..Len(h) : j < m /\ IsRecord(h[m], IsThere(h[j].data))
    BY <1>1, <2>1, <2>2 DEF Announced
  <2>4. PICK m2 \in Nat : m = m2 + 1
    <3>1. m - 1 \in Nat /\ m = (m - 1) + 1
      BY <2>3
    <3> QED BY <3>1
  <2>5. m2 \in 1..Len(h2) /\ j2 < m2 /\ h2[m2] = h[m]
    BY <1>2, <2>2, <2>3, <2>4 DEF Dropped
  <2> QED BY <2>2, <2>3, <2>5
<1>6. Ordered(e, h2)
  BY <1>1, <1>4 DEF Ordered
<1>7. ASSUME NEW i \in Nat, NEW b \in Blocks, NEW d, Finds(e, h, c, i, b, d)
      PROVE  Finds(e, h2, c2, i, b, d)
  BY <1>1, <1>2, <1>3, <1>7, FindsDropsH2d
<1>8. Sourced(e, h2, c2)
  <2>1. SUFFICES ASSUME NEW i \in 1..Len(e), NEW b, NEW d, Reads(e[i], b, d)
                 PROVE  Finds(e, h2, c2, i, b, d)
    BY DEF Sourced
  <2>2. e[i] \in ExecOps
    BY <1>1, <2>1
  <2>3. b \in Blocks
    BY <2>1, <2>2, TouchesBlocks
  <2>4. Finds(e, h, c, i, b, d)
    BY <1>1, <2>1 DEF Sourced
  <2> QED BY <1>7, <2>3, <2>4
<1>9. Sound(e, h2, c2)
  BY <1>1, <1>2, <1>5, <1>6, <1>8 DEF Sound
<1>10. ASSUME NEW b \in Blocks, NEW d, Holds(e, h, c, b, d) PROVE Holds(e, h2, c2, b, d)
  <2>1. PICK n \in Nat : n = Len(e) + 1
    BY <1>1
  <2>2. Finds(e, h2, c2, n, b, d)
    BY <1>7, <1>10, <2>1 DEF Holds
  <2> QED BY <2>1, <2>2 DEF Holds
<1>11. ASSUME NEW j2 \in 1..Len(h2)
       PROVE  \E j \in 1..Len(h) : h2[j2] = h[j] /\ (Awaited(e, h, j) => Awaited(e, h2, j2))
  BY <1>4 DEF Awaited
<1> QED BY <1>9, <1>10, <1>11 DEF MovesOn

\* What an operation at the head reads is there.
LEMMA HeadFinds ==
  ASSUME NEW e, NEW h, NEW c, Sound(e, h, c), e # <<>>, NEW b, NEW d, Reads(e[1], b, d)
  PROVE  c[b] = d
<1>1. e \in Seq(ExecOps) /\ Len(e) \in Nat /\ 1 \in 1..Len(e)
  BY TailDrops DEF Sound
<1>2. Finds(e, h, c, 1, b, d)
  BY <1>1 DEF Sound, Sourced
<1>3. ~FromKernel(e, h, 1, b, d)
  BY DEF FromKernel
<1>4. ~FromCopy(e, h, 1, b, d)
  BY <1>1 DEF FromCopy, Before
<1> QED BY <1>2, <1>3, <1>4 DEF Finds, IsIn

FindsAll(e, c) == \A b, d : Reads(e[1], b, d) => c[b] = d

LEMMA HeadFindsAll ==
  ASSUME NEW e, NEW h, NEW c, Sound(e, h, c), e # <<>>
  PROVE  FindsAll(e, c)
  BY HeadFinds DEF FindsAll

\* The two streams never touch the same buffer at the same time.
LEMMA HeadsAreApart ==
  ASSUME NEW e, NEW h, NEW c, Sound(e, h, c), e # <<>>, h # <<>>, h[1].op = "copy"
  PROVE  ~Touches(e[1], h[1].block)
<1>1. e \in Seq(ExecOps) /\ Len(e) \in Nat /\ 1 \in 1..Len(e)
  BY TailDrops DEF Sound
<1>2. h \in Seq(H2dOps) /\ Len(h) \in Nat /\ 1 \in 1..Len(h)
  BY TailDrops DEF Sound
<1>3. ~After(e, h, 1, 1) /\ ~Before(e, h, 1, 1)
  BY <1>1, <1>2 DEF After, Before
<1> QED BY <1>1, <1>2, <1>3 DEF Sound, Ordered

-----------------------------------------------------------------------------
(* An operation is enqueued.                                               *)

\* What was ordered stays so when the exec stream gets an operation more.
LEMMA AfterAdds ==
  ASSUME NEW e, NEW h, NEW e2, NEW op, Len(e) \in Nat, Len(e2) \in Nat, Added(e, op, e2), NEW i, NEW j
  PROVE  /\ After(e, h, i, j) => After(e2, h, i, j)
         /\ Before(e, h, i, j) => Before(e2, h, i, j)
<1>1. \A k \in 1..Len(e) : k \in 1..Len(e2) /\ e2[k] = e[k]
  BY DEF Added
<1> QED BY <1>1 DEF After, Before

\* What an operation that is enqueued already finds.
LEMMA FindsAdds ==
  ASSUME NEW e, NEW h, NEW c, NEW e2, NEW op, Len(e) \in Nat, Len(e2) \in Nat, Len(h) \in Nat,
         Added(e, op, e2), NEW i \in Nat, i <= Len(e), NEW b, NEW d, Finds(e, h, c, i, b, d)
  PROVE  Finds(e2, h, c, i, b, d)
<1>1. \A k \in 1..Len(e) : k \in 1..Len(e2) /\ e2[k] = e[k]
  BY DEF Added
<1>2. \A n, j : /\ After(e, h, n, j) => After(e2, h, n, j)
                /\ Before(e, h, n, j) => Before(e2, h, n, j)
  BY AfterAdds
<1>3. \A k \in 1..Len(e2) : k < i => k \in 1..Len(e) /\ e2[k] = e[k]
  BY DEF Added
<1>4. CASE FromKernel(e, h, i, b, d)
  <2>1. PICK k \in 1..Len(e) :
          /\ k < i /\ Writes(e[k], b) /\ e[k].data = d
          /\ \A l \in 1..Len(e) : k < l /\ l < i => ~Writes(e[l], b)
          /\ \A j \in 1..Len(h) : IsCopy(h[j], b) => After(e, h, i, j) \/ Before(e, h, k, j)
    BY <1>4 DEF FromKernel
  <2>2. k \in 1..Len(e2) /\ k < i /\ Writes(e2[k], b) /\ e2[k].data = d
    BY <1>1, <2>1
  <2>3. \A l \in 1..Len(e2) : k < l /\ l < i => ~Writes(e2[l], b)
    BY <1>3, <2>1
  <2>4. \A j \in 1..Len(h) : IsCopy(h[j], b) => After(e2, h, i, j) \/ Before(e2, h, k, j)
    BY <1>2, <2>1
  <2>5. FromKernel(e2, h, i, b, d)
    BY <2>2, <2>3, <2>4 DEF FromKernel
  <2> QED BY <2>5 DEF Finds
<1>5. CASE FromCopy(e, h, i, b, d)
  <2>1. PICK j \in 1..Len(h) :
          /\ IsCopy(h[j], b) /\ h[j].data = d
          /\ Before(e, h, i, j) \/ Len(e) < i
          /\ \A l \in 1..Len(h) : IsCopy(h[l], b) => l <= j \/ After(e, h, i, l)
          /\ \A k \in 1..Len(e) : k < i /\ Writes(e[k], b) => After(e, h, k, j)
    BY <1>5 DEF FromCopy
  <2>2. Before(e2, h, i, j)
    BY <1>2, <2>1
  <2>3. \A l \in 1..Len(h) : IsCopy(h[l], b) => l <= j \/ After(e2, h, i, l)
    BY <1>2, <2>1
  <2>4. \A k \in 1..Len(e2) : k < i /\ Writes(e2[k], b) => After(e2, h, k, j)
    BY <1>2, <1>3, <2>1
  <2>5. FromCopy(e2, h, i, b, d)
    BY <2>1, <2>2, <2>3, <2>4 DEF FromCopy
  <2> QED BY <2>5 DEF Finds
<1>6. CASE IsIn(e, h, c, i, b, d)
  <2>1. IsIn(e2, h, c, i, b, d)
    BY <1>2, <1>3, <1>6 DEF IsIn
  <2> QED BY <2>1 DEF Finds
<1> QED BY <1>4, <1>5, <1>6 DEF Finds

\* Nothing is after what is not enqueued.
LEMMA EndIsNotAfter ==
  ASSUME NEW e, NEW h, Len(e) \in Nat, NEW i \in Nat, i >= Len(e), NEW j
  PROVE  ~After(e, h, i, j)
BY DEF After

\* What the added operation finds, and what the one after it would.
LEMMA LastFinds ==
  ASSUME NEW e, NEW h, NEW c, NEW e2, NEW op, Len(e) \in Nat, Len(e2) \in Nat, Len(h) \in Nat,
         Added(e, op, e2), NEW b, NEW d, Holds(e, h, c, b, d), NEW i \in Nat,
         \/ i = Len(e) + 1 /\ \A j \in 1..Len(h) : IsCopy(h[j], b) => Awaited(e, h, j)
         \/ i = Len(e) + 2 /\ ~Writes(op, b)
  PROVE  Finds(e2, h, c, i, b, d)
<1>1. \A k \in 1..Len(e) : k \in 1..Len(e2) /\ e2[k] = e[k]
  BY DEF Added
<1>2. \A n, j : /\ After(e, h, n, j) => After(e2, h, n, j)
                /\ Before(e, h, n, j) => Before(e2, h, n, j)
  BY AfterAdds
<1>3. PICK n \in Nat : n = Len(e) + 1
  OBVIOUS
<1>4. \A j : ~After(e, h, n, j)
  BY <1>3, EndIsNotAfter
<1>5. \A k \in 1..Len(e2) : k < i /\ Writes(e2[k], b) => k \in 1..Len(e) /\ e2[k] = e[k] /\ k < n
  BY <1>3 DEF Added
<1>6. Finds(e, h, c, n, b, d)
  BY <1>3 DEF Holds
<1>7. CASE FromKernel(e, h, n, b, d)
  <2>1. PICK k \in 1..Len(e) :
          /\ k < n /\ Writes(e[k], b) /\ e[k].data = d
          /\ \A l \in 1..Len(e) : k < l /\ l < n => ~Writes(e[l], b)
          /\ \A j \in 1..Len(h) : IsCopy(h[j], b) => After(e, h, n, j) \/ Before(e, h, k, j)
    BY <1>7 DEF FromKernel
  <2>2. k \in 1..Len(e2) /\ k < i /\ Writes(e2[k], b) /\ e2[k].data = d
    BY <1>1, <1>3, <2>1
  <2>3. \A l \in 1..Len(e2) : k < l /\ l < i => ~Writes(e2[l], b)
    BY <1>5, <2>1
  <2>4. \A j \in 1..Len(h) : IsCopy(h[j], b) => After(e2, h, i, j) \/ Before(e2, h, k, j)
    BY <1>2, <1>4, <2>1
  <2>5. FromKernel(e2, h, i, b, d)
    BY <2>2, <2>3, <2>4 DEF FromKernel
  <2> QED BY <2>5 DEF Finds
<1>8. CASE FromCopy(e, h, n, b, d)
  <2>1. PICK j \in 1..Len(h) :
          /\ IsCopy(h[j], b) /\ h[j].data = d
          /\ Before(e, h, n, j) \/ Len(e) < n
          /\ \A l \in 1..Len(h) : IsCopy(h[l], b) => l <= j \/ After(e, h, n, l)
          /\ \A k \in 1..Len(e) : k < n /\ Writes(e[k], b) => After(e, h, k, j)
    BY <1>8 DEF FromCopy
  <2>2. Before(e2, h, i, j) \/ Len(e2) < i
    <3>1. CASE i = Len(e) + 1
      <4>1. Before(e, h, n, j)
        BY <1>3, <2>1, <3>1 DEF Awaited
      <4> QED BY <1>2, <1>3, <3>1, <4>1
    <3>2. CASE i = Len(e) + 2
      BY <3>2 DEF Added
    <3> QED BY <3>1, <3>2
  <2>3. \A l \in 1..Len(h) : IsCopy(h[l], b) => l <= j \/ After(e2, h, i, l)
    BY <1>4, <2>1
  <2>4. \A k \in 1..Len(e2) : k < i /\ Writes(e2[k], b) => After(e2, h, k, j)
    BY <1>2, <1>5, <2>1
  <2>5. FromCopy(e2, h, i, b, d)
    BY <2>1, <2>2, <2>3, <2>4 DEF FromCopy
  <2> QED BY <2>5 DEF Finds
<1>9. CASE IsIn(e, h, c, n, b, d)
  <2>1. IsIn(e2, h, c, i, b, d)
    BY <1>4, <1>5, <1>9 DEF IsIn
  <2> QED BY <2>1 DEF Finds
<1> QED BY <1>6, <1>7, <1>8, <1>9 DEF Finds

\* An operation that finds its data, and comes behind the copies to the buffers
\* it touches, may be enqueued on the exec stream.
LEMMA ExecAdds ==
  ASSUME NEW e, NEW h, NEW c, Sound(e, h, c), NEW op \in ExecOps,
         NEW e2 \in Seq(ExecOps), Added(e, op, e2),
         \A b, d : Reads(op, b, d) => Holds(e, h, c, b, d),
         \A j \in 1..Len(h) : h[j].op = "copy" /\ Touches(op, h[j].block) => Awaited(e, h, j)
  PROVE  /\ Sound(e2, h, c)
         /\ \A b, d : Holds(e, h, c, b, d) /\ ~Writes(op, b) => Holds(e2, h, c, b, d)
         /\ \A b : Writes(op, b) => Holds(e2, h, c, b, op.data)
         /\ \A j \in 1..Len(h) : Awaited(e, h, j) \/ IsWait(op, IsThere(h[j].data)) => Awaited(e2, h, j)
<1>1. /\ e \in Seq(ExecOps) /\ h \in Seq(H2dOps) /\ Len(e) \in Nat /\ Len(h) \in Nat
      /\ Announced(h) /\ Ordered(e, h) /\ Sourced(e, h, c) /\ c \in [Blocks -> Data \cup {None}]
  BY DEF Sound
<1>2. Len(e2) \in Nat /\ Len(e2) = Len(e) + 1 /\ e2[Len(e2)] = op
  BY DEF Added
<1>3. \A k \in 1..Len(e2) : k = Len(e2) \/ (k \in 1..Len(e) /\ e2[k] = e[k])
  BY <1>1, <1>2 DEF Added
<1>4. \A i, j : /\ After(e, h, i, j) => After(e2, h, i, j)
                /\ Before(e, h, i, j) => Before(e2, h, i, j)
  BY <1>1, <1>2, AfterAdds
<1>5. \A j : Awaited(e, h, j) => Before(e2, h, Len(e2), j)
  BY <1>2, <1>4 DEF Awaited
<1>6. Ordered(e2, h)
  <2>1. SUFFICES ASSUME NEW i \in 1..Len(e2), NEW j \in 1..Len(h), h[j].op = "copy",
                        Touches(e2[i], h[j].block)
                 PROVE  After(e2, h, i, j) \/ Before(e2, h, i, j)
    BY DEF Ordered
  <2>2. CASE i = Len(e2)
    BY <1>2, <1>5, <2>1, <2>2
  <2>3. CASE i # Len(e2)
    <3>1. i \in 1..Len(e) /\ e2[i] = e[i]
      BY <1>3, <2>3
    <3>2. After(e, h, i, j) \/ Before(e, h, i, j)
      BY <1>1, <2>1, <3>1 DEF Ordered
    <3> QED BY <1>4, <3>2
  <2> QED BY <2>2, <2>3
<1>7. Sourced(e2, h, c)
  <2>1. SUFFICES ASSUME NEW i \in 1..Len(e2), NEW b, NEW d, Reads(e2[i], b, d)
                 PROVE  Finds(e2, h, c, i, b, d)
    BY DEF Sourced
  <2>2. CASE i = Len(e2)
    <3>1. Reads(op, b, d)
      BY <1>2, <2>1, <2>2
    <3>2. Holds(e, h, c, b, d) /\ \A j \in 1..Len(h) : IsCopy(h[j], b) => Awaited(e, h, j)
      BY <3>1 DEF IsCopy, Touches
    <3>3. i \in Nat /\ i = Len(e) + 1
      BY <1>2, <2>2
    <3> QED BY <1>1, <1>2, <3>2, <3>3, LastFinds
  <2>3. CASE i # Len(e2)
    <3>1. i \in 1..Len(e) /\ e2[i] = e[i]
      BY <1>3, <2>3
    <3>2. Finds(e, h, c, i, b, d)
      BY <1>1, <2>1, <3>1 DEF Sourced
    <3>3. i \in Nat /\ i <= Len(e)
      BY <3>1
    <3> QED BY <1>1, <1>2, <3>2, <3>3, FindsAdds
  <2> QED BY <2>2, <2>3
<1>8. Sound(e2, h, c)
  BY <1>1, <1>6, <1>7 DEF Sound
<1>9. PICK n \in Nat : n = Len(e2) + 1
  BY <1>2
<1>10. ASSUME NEW b, NEW d, Holds(e, h, c, b, d), ~Writes(op, b) PROVE Holds(e2, h, c, b, d)
  <2>1. n = Len(e) + 2
    BY <1>1, <1>2, <1>9
  <2>2. Finds(e2, h, c, n, b, d)
    BY <1>1, <1>2, <1>10, <2>1, LastFinds
  <2> QED BY <1>9, <2>2 DEF Holds
<1>11. ASSUME NEW b, Writes(op, b) PROVE Holds(e2, h, c, b, op.data)
  <2>1. Len(e2) \in 1..Len(e2) /\ Len(e2) < n
    BY <1>1, <1>2, <1>9
  <2>2. \A l \in 1..Len(e2) : ~ (Len(e2) < l /\ l < n)
    BY <1>2, <1>9
  <2>3. \A j \in 1..Len(h) : IsCopy(h[j], b) => Before(e2, h, Len(e2), j)
    BY <1>5, <1>11 DEF IsCopy, Touches
  <2>4. Writes(e2[Len(e2)], b) /\ e2[Len(e2)].data = op.data
    BY <1>2, <1>11
  <2>5. FromKernel(e2, h, n, b, op.data)
    BY <2>1, <2>2, <2>3, <2>4 DEF FromKernel
  <2> QED BY <1>9, <2>5 DEF Holds, Finds
<1>12. ASSUME NEW j \in 1..Len(h), Awaited(e, h, j) \/ IsWait(op, IsThere(h[j].data))
       PROVE  Awaited(e2, h, j)
  <2>1. CASE Awaited(e, h, j)
    <3>1. PICK k \in 1..Len(e2) : k < Len(e2) /\ IsWait(e2[k], IsThere(h[j].data))
      BY <1>5, <2>1 DEF Before
    <3> QED BY <1>2, <3>1 DEF Awaited, Before
  <2>2. CASE IsWait(op, IsThere(h[j].data))
    BY <1>1, <1>2, <2>2 DEF Awaited, Before
  <2> QED BY <1>12, <2>1, <2>2
<1> QED BY <1>8, <1>10, <1>11, <1>12

\* What holds of copies that are enqueued stays so when h gets longer.
Longer(h, h2) == Len(h) <= Len(h2) /\ \A m \in 1..Len(h) : h2[m] = h[m]

\* What was ordered stays so in longer queues.
LEMMA LongerKeeps ==
  ASSUME NEW e, NEW h, NEW h2, Len(e) \in Nat, Len(h) \in Nat, Len(h2) \in Nat, Longer(h, h2),
         NEW j \in 1..Len(h), NEW i
  PROVE  /\ h2[j] = h[j] /\ j \in 1..Len(h2)
         /\ After(e, h, i, j) => After(e, h2, i, j)
         /\ Before(e, h, i, j) => Before(e, h2, i, j)
<1>1. h2[j] = h[j] /\ j \in 1..Len(h2)
  BY DEF Longer
<1>2. \A m \in 1..Len(h) : m \in 1..Len(h2) /\ h2[m] = h[m]
  BY DEF Longer
<1> QED BY <1>1, <1>2 DEF After, Before

\* The copies that h got are after every operation of e before i.
LEMMA FindsLonger ==
  ASSUME NEW e, NEW h, NEW c, NEW h2, Len(e) \in Nat, Len(h) \in Nat, Len(h2) \in Nat, Longer(h, h2),
         NEW i \in Nat, NEW b, NEW d, Finds(e, h, c, i, b, d),
         \A j \in 1..Len(h2) : IsCopy(h2[j], b) => j \in 1..Len(h) \/ After(e, h2, i, j)
  PROVE  Finds(e, h2, c, i, b, d)
<1>1. \A j \in 1..Len(h) : \A n : /\ h2[j] = h[j] /\ j \in 1..Len(h2)
                                  /\ After(e, h, n, j) => After(e, h2, n, j)
                                  /\ Before(e, h, n, j) => Before(e, h2, n, j)
  BY LongerKeeps
<1>2. CASE FromKernel(e, h, i, b, d)
  <2>1. PICK k \in 1..Len(e) :
          /\ k < i /\ Writes(e[k], b) /\ e[k].data = d
          /\ \A l \in 1..Len(e) : k < l /\ l < i => ~Writes(e[l], b)
          /\ \A j \in 1..Len(h) : IsCopy(h[j], b) => After(e, h, i, j) \/ Before(e, h, k, j)
    BY <1>2 DEF FromKernel
  <2>2. \A j \in 1..Len(h2) : IsCopy(h2[j], b) => After(e, h2, i, j) \/ Before(e, h2, k, j)
    BY <1>1, <2>1
  <2>3. FromKernel(e, h2, i, b, d)
    BY <2>1, <2>2 DEF FromKernel
  <2> QED BY <2>3 DEF Finds
<1>3. CASE FromCopy(e, h, i, b, d)
  <2>1. PICK j \in 1..Len(h) :
          /\ IsCopy(h[j], b) /\ h[j].data = d
          /\ Before(e, h, i, j) \/ Len(e) < i
          /\ \A l \in 1..Len(h) : IsCopy(h[l], b) => l <= j \/ After(e, h, i, l)
          /\ \A k \in 1..Len(e) : k < i /\ Writes(e[k], b) => After(e, h, k, j)
    BY <1>3 DEF FromCopy
  <2>2. j \in 1..Len(h2) /\ IsCopy(h2[j], b) /\ h2[j].data = d /\ (Before(e, h2, i, j) \/ Len(e) < i)
    BY <1>1, <2>1
  <2>3. \A l \in 1..Len(h2) : IsCopy(h2[l], b) => l <= j \/ After(e, h2, i, l)
    BY <1>1, <2>1
  <2>4. \A k \in 1..Len(e) : k < i /\ Writes(e[k], b) => After(e, h2, k, j)
    BY <1>1, <2>1
  <2>5. FromCopy(e, h2, i, b, d)
    BY <2>2, <2>3, <2>4 DEF FromCopy
  <2> QED BY <2>5 DEF Finds
<1>4. CASE IsIn(e, h, c, i, b, d)
  <2>1. \A j \in 1..Len(h2) : IsCopy(h2[j], b) => After(e, h2, i, j)
    BY <1>1, <1>4 DEF IsIn
  <2>2. IsIn(e, h2, c, i, b, d)
    BY <1>4, <2>1 DEF IsIn
  <2> QED BY <2>2 DEF Finds
<1> QED BY <1>2, <1>3, <1>4 DEF Finds

\* An event may be enqueued on the copying stream.
LEMMA EventAdds ==
  ASSUME NEW e, NEW h, NEW c, Sound(e, h, c), NEW op \in EventOps,
         NEW h2 \in Seq(H2dOps), Added(h, op, h2)
  PROVE  /\ Sound(e, h2, c)
         /\ \A b, d : Holds(e, h, c, b, d) => Holds(e, h2, c, b, d)
         /\ \A j \in 1..Len(h2) : h2[j].op = "copy" =>
              j \in 1..Len(h) /\ h2[j] = h[j] /\ (Awaited(e, h, j) => Awaited(e, h2, j))
<1>1. /\ e \in Seq(ExecOps) /\ h \in Seq(H2dOps) /\ Len(e) \in Nat /\ Len(h) \in Nat
      /\ Announced(h) /\ Ordered(e, h) /\ Sourced(e, h, c) /\ c \in [Blocks -> Data \cup {None}]
  BY DEF Sound
<1>2. Len(h2) \in Nat /\ Longer(h, h2) /\ Len(h2) = Len(h) + 1 /\ h2[Len(h2)] = op
  BY <1>1 DEF Added, Longer
<1>3. op.op # "copy"
  BY DEF EventOps
<1>4. \A j \in 1..Len(h2) : h2[j].op = "copy" => j \in 1..Len(h) /\ h2[j] = h[j]
  BY <1>1, <1>2, <1>3 DEF Longer
<1>5. \A j \in 1..Len(h) : \A n : /\ h2[j] = h[j] /\ j \in 1..Len(h2)
                                  /\ After(e, h, n, j) => After(e, h2, n, j)
                                  /\ Before(e, h, n, j) => Before(e, h2, n, j)
  BY <1>1, <1>2, LongerKeeps
<1>6. Announced(h2)
  <2>1. SUFFICES ASSUME NEW j \in 1..Len(h2), h2[j].op = "copy"
                 PROVE  \E m \in 1..Len(h2) : j < m /\ IsRecord(h2[m], IsThere(h2[j].data))
    BY DEF Announced
  <2>2. j \in 1..Len(h) /\ h2[j] = h[j]
    BY <1>4, <2>1
  <2>3. PICK m \in 1..Len(h) : j < m /\ IsRecord(h[m], IsThere(h[j].data))
    BY <1>1, <2>1, <2>2 DEF Announced
  <2>4. m \in 1..Len(h2) /\ h2[m] = h[m]
    BY <1>5
  <2> QED BY <2>2, <2>3, <2>4
<1>7. Ordered(e, h2)
  BY <1>1, <1>4, <1>5 DEF Ordered
<1>8. ASSUME NEW i \in Nat, NEW b, NEW d, Finds(e, h, c, i, b, d) PROVE Finds(e, h2, c, i, b, d)
  <2>1. \A j \in 1..Len(h2) : IsCopy(h2[j], b) => j \in 1..Len(h) \/ After(e, h2, i, j)
    BY <1>4 DEF IsCopy
  <2> QED BY <1>1, <1>2, <1>8, <2>1, FindsLonger
<1>9. Sourced(e, h2, c)
  BY <1>1, <1>8 DEF Sourced
<1>10. Sound(e, h2, c)
  BY <1>1, <1>6, <1>7, <1>9 DEF Sound
<1>11. PICK n \in Nat : n = Len(e) + 1
  BY <1>1
<1>12. \A b, d : Holds(e, h, c, b, d) => Holds(e, h2, c, b, d)
  BY <1>8, <1>11 DEF Holds
<1>13. \A j \in 1..Len(h2) : h2[j].op = "copy" =>
         j \in 1..Len(h) /\ h2[j] = h[j] /\ (Awaited(e, h, j) => Awaited(e, h2, j))
  BY <1>4, <1>5 DEF Awaited
<1> QED BY <1>10, <1>12, <1>13

\* A copy and its record, behind a wait for the record that ends e.
LEMMA CopyAdds ==
  ASSUME NEW e, NEW h, NEW c, Sound(e, h, c), NEW copy \in CopyOps, NEW record \in EventOps,
         e # <<>>, IsRecord(e[Len(e)], HasBuffer(copy.data)),
         h # <<>>, IsWait(h[Len(h)], HasBuffer(copy.data)),
         IsRecord(record, IsThere(copy.data)),
         NEW h1, NEW h2 \in Seq(H2dOps), Len(h1) \in Nat, Added(h, copy, h1), Added(h1, record, h2)
  PROVE  /\ Sound(e, h2, c)
         /\ \A b, d : Holds(e, h, c, b, d) /\ b # copy.block => Holds(e, h2, c, b, d)
         /\ Holds(e, h2, c, copy.block, copy.data)
         /\ \A j \in 1..Len(h2) : h2[j].op = "copy" =>
              \/ h2[j] = copy
              \/ j \in 1..Len(h) /\ h2[j] = h[j] /\ (Awaited(e, h, j) => Awaited(e, h2, j))
<1>1. /\ e \in Seq(ExecOps) /\ h \in Seq(H2dOps) /\ Len(e) \in Nat /\ Len(h) \in Nat
      /\ Announced(h) /\ Ordered(e, h) /\ Sourced(e, h, c) /\ c \in [Blocks -> Data \cup {None}]
  BY DEF Sound
<1>2. Len(h) \in 1..Len(h) /\ Len(e) \in 1..Len(e)
  BY <1>1
<1>3. PICK p \in Nat : p = Len(h) + 1
  BY <1>1
<1>4. /\ Len(h2) \in Nat /\ Longer(h, h2) /\ Len(h2) = p + 1 /\ p \in 1..Len(h2)
      /\ h2[p] = copy /\ h2[Len(h2)] = record
  BY <1>1, <1>3 DEF Added, Longer
<1>5. record.op # "copy" /\ copy.op = "copy"
  BY DEF EventOps, CopyOps
<1>6. \A j \in 1..Len(h2) : h2[j].op = "copy" => j = p \/ (j \in 1..Len(h) /\ h2[j] = h[j])
  BY <1>1, <1>3, <1>4, <1>5 DEF Longer
<1>7. \A j \in 1..Len(h) : \A n : /\ h2[j] = h[j] /\ j \in 1..Len(h2)
                                  /\ After(e, h, n, j) => After(e, h2, n, j)
                                  /\ Before(e, h, n, j) => Before(e, h2, n, j)
  BY <1>1, <1>4, LongerKeeps
<1>8. ASSUME NEW i \in Nat, i < Len(e) PROVE After(e, h2, i, p)
  <2>1. Len(h) \in 1..Len(h2) /\ Len(h) < p /\ IsWait(h2[Len(h)], HasBuffer(h2[p].data))
    BY <1>2, <1>3, <1>4, <1>7
  <2>2. Len(e) \in 1..Len(e) /\ i < Len(e) /\ IsRecord(e[Len(e)], HasBuffer(h2[p].data))
    BY <1>2, <1>4, <1>8
  <2> QED BY <2>1, <2>2 DEF After
<1>9. Announced(h2)
  <2>1. SUFFICES ASSUME NEW j \in 1..Len(h2), h2[j].op = "copy"
                 PROVE  \E m \in 1..Len(h2) : j < m /\ IsRecord(h2[m], IsThere(h2[j].data))
    BY DEF Announced
  <2>2. CASE j = p
    <3>1. Len(h2) \in 1..Len(h2) /\ p < Len(h2)
      BY <1>4
    <3> QED BY <1>4, <2>2, <3>1
  <2>3. CASE j # p
    <3>1. j \in 1..Len(h) /\ h2[j] = h[j]
      BY <1>6, <2>1, <2>3
    <3>2. PICK m \in 1..Len(h) : j < m /\ IsRecord(h[m], IsThere(h[j].data))
      BY <1>1, <2>1, <3>1 DEF Announced
    <3>3. m \in 1..Len(h2) /\ h2[m] = h[m]
      BY <1>7
    <3> QED BY <3>1, <3>2, <3>3
  <2> QED BY <2>2, <2>3
<1>10. \A i \in 1..Len(e) : \A b : Touches(e[i], b) => i < Len(e)
  <2>1. \A b : ~Touches(e[Len(e)], b)
    BY DEF IsRecord, Touches, Writes, Reads
  <2> QED BY <1>1, <2>1
<1>11. Ordered(e, h2)
  <2>1. SUFFICES ASSUME NEW i \in 1..Len(e), NEW j \in 1..Len(h2), h2[j].op = "copy",
                        Touches(e[i], h2[j].block)
                 PROVE  After(e, h2, i, j) \/ Before(e, h2, i, j)
    BY DEF Ordered
  <2>2. CASE j = p
    <3>1. i \in Nat /\ i < Len(e)
      BY <1>10, <2>1
    <3> QED BY <1>8, <2>2, <3>1
  <2>3. CASE j # p
    <3>1. j \in 1..Len(h) /\ h2[j] = h[j]
      BY <1>6, <2>1, <2>3
    <3>2. After(e, h, i, j) \/ Before(e, h, i, j)
      BY <1>1, <2>1, <3>1 DEF Ordered
    <3> QED BY <1>7, <3>1, <3>2
  <2> QED BY <2>2, <2>3
<1>12. ASSUME NEW i \in Nat, NEW b, NEW d, Finds(e, h, c, i, b, d), i < Len(e) \/ b # copy.block
       PROVE  Finds(e, h2, c, i, b, d)
  <2>1. ASSUME NEW j \in 1..Len(h2), IsCopy(h2[j], b)
        PROVE  j \in 1..Len(h) \/ After(e, h2, i, j)
    <3>1. j = p \/ j \in 1..Len(h)
      BY <1>6, <2>1 DEF IsCopy
    <3>2. CASE j = p
      <4>1. b = copy.block
        BY <1>4, <2>1, <3>2 DEF IsCopy
      <4>2. After(e, h2, i, p)
        BY <1>8, <1>12, <4>1
      <4> QED BY <3>2, <4>2
    <3> QED BY <3>1, <3>2
  <2> QED BY <1>1, <1>4, <1>12, <2>1, FindsLonger
<1>13. Sourced(e, h2, c)
  <2>1. SUFFICES ASSUME NEW i \in 1..Len(e), NEW b, NEW d, Reads(e[i], b, d)
                 PROVE  Finds(e, h2, c, i, b, d)
    BY DEF Sourced
  <2>2. Finds(e, h, c, i, b, d)
    BY <1>1, <2>1 DEF Sourced
  <2>3. Touches(e[i], b)
    BY <2>1 DEF Touches
  <2>4. i \in Nat /\ i < Len(e)
    BY <1>10, <2>3
  <2> QED BY <1>12, <2>2, <2>4
<1>14. Sound(e, h2, c)
  BY <1>1, <1>9, <1>11, <1>13 DEF Sound
<1>15. PICK n \in Nat : n = Len(e) + 1
  BY <1>1
<1>16. \A b, d : Holds(e, h, c, b, d) /\ b # copy.block => Holds(e, h2, c, b, d)
  BY <1>12, <1>15 DEF Holds
<1>17. Holds(e, h2, c, copy.block, copy.data)
  <2>1. IsCopy(h2[p], copy.block) /\ h2[p].data = copy.data /\ Len(e) < n
    BY <1>4, <1>5, <1>15, <1>1 DEF IsCopy
  <2>2. \A l \in 1..Len(h2) : IsCopy(h2[l], copy.block) => l <= p
    BY <1>3, <1>6, <1>1 DEF IsCopy
  <2>3. ASSUME NEW k \in 1..Len(e), Writes(e[k], copy.block) PROVE After(e, h2, k, p)
    <3>1. Touches(e[k], copy.block)
      BY <2>3 DEF Touches
    <3>2. k \in Nat /\ k < Len(e)
      BY <1>10, <3>1
    <3> QED BY <1>8, <3>2
  <2>4. FromCopy(e, h2, n, copy.block, copy.data)
    BY <1>4, <2>1, <2>2, <2>3 DEF FromCopy
  <2> QED BY <1>15, <2>4 DEF Holds, Finds
<1>18. ASSUME NEW j \in 1..Len(h2), h2[j].op = "copy"
       PROVE  \/ h2[j] = copy
              \/ j \in 1..Len(h) /\ h2[j] = h[j] /\ (Awaited(e, h, j) => Awaited(e, h2, j))
  BY <1>4, <1>6, <1>7, <1>18 DEF Awaited
<1> QED BY <1>14, <1>16, <1>17, <1>18

-----------------------------------------------------------------------------
(* The operations that a piece of the code enqueues.                       *)

AnyOps == ExecOps \cup H2dOps
Work == [Streams -> Seq(AnyOps)]

\* Work can be put behind work.
LEMMA WorkIsAdded ==
  ASSUME NEW w1 \in Work, NEW w2 \in Work
  PROVE  w1 ++ w2 \in Work /\ Nothing \in Work /\ w1 ++ Nothing = w1
<1>1. \A s \in Streams : (w1 ++ w2)[s] = w1[s] \o w2[s] /\ w1[s] \o w2[s] \in Seq(AnyOps)
  BY DEF Work, ++
<1>2. w1 ++ w2 \in Work
  BY <1>1 DEF Work, ++
<1>3. Nothing \in Work
  BY DEF Nothing, Work
<1>4. \A s \in Streams : (w1 ++ Nothing)[s] = w1[s]
  <2>1. \A s \in Streams : w1[s] \o <<>> = w1[s]
    BY ConcatEmptySeq DEF Work
  <2> QED BY <2>1 DEF Nothing, ++
<1>5. w1 ++ Nothing = w1
  <2>1. w1 ++ Nothing \in Work
    <3>1. \A s \in Streams : w1[s] \o Nothing[s] \in Seq(AnyOps)
      BY <1>3 DEF Work
    <3> QED BY <3>1 DEF Work, ++
  <2>2. PICK sum : sum = w1 ++ Nothing
    OBVIOUS
  <2>3. sum = w1
    BY <1>4, <2>1, <2>2 DEF Work
  <2> QED BY <2>2, <2>3
<1> QED BY <1>2, <1>3, <1>5

\* The order of work is all that matters.
LEMMA WorkAssociates ==
  ASSUME NEW w1 \in Work, NEW w2 \in Work, NEW w3 \in Work
  PROVE  w1 ++ (w2 ++ w3) = (w1 ++ w2) ++ w3
<1> DEFINE left == w1 ++ (w2 ++ w3)
           right == (w1 ++ w2) ++ w3
<1>1. ASSUME NEW s \in Streams PROVE left[s] = right[s]
  <2>1. PICK q1 \in Seq(AnyOps), q2 \in Seq(AnyOps), q3 \in Seq(AnyOps) :
          q1 = w1[s] /\ q2 = w2[s] /\ q3 = w3[s]
    BY DEF Work
  <2>2. left[s] = q1 \o (q2 \o q3)
    BY <2>1 DEF ++
  <2>3. right[s] = (q1 \o q2) \o q3
    BY <2>1 DEF ++
  <2>4. (q1 \o q2) \o q3 = q1 \o (q2 \o q3)
    BY ONLY q1 \in Seq(AnyOps), q2 \in Seq(AnyOps), q3 \in Seq(AnyOps), ConcatAssociative
  <2> QED BY <2>2, <2>3, <2>4
<1>2. w2 ++ w3 \in Work /\ w1 ++ w2 \in Work
  BY WorkIsAdded
<1>3. left \in Work /\ right \in Work
  BY <1>2, WorkIsAdded
<1> HIDE DEF left, right
<1>4. left = right
  BY <1>1, <1>3 DEF Work
<1> QED BY <1>4 DEF left, right

\* One operation.
LEMMA OnIsAdded ==
  ASSUME NEW st \in Work, NEW s \in Streams, NEW op \in AnyOps, NEW T, st[s] \in Seq(T), op \in T
  PROVE  /\ Single(s, op) \in Work /\ st ++ Single(s, op) \in Work
         /\ (st ++ Single(s, op))[s] \in Seq(T) /\ Added(st[s], op, (st ++ Single(s, op))[s])
         /\ \A t \in Streams : t # s => (st ++ Single(s, op))[t] = st[t]
<1>1. Single(s, op) \in Work
  BY DEF Single, Work
<1>2. st ++ Single(s, op) \in Work
  BY <1>1, WorkIsAdded
<1>3. (st ++ Single(s, op))[s] = st[s] \o <<op>>
  BY DEF ++, Single
<1>4. st[s] \o <<op>> \in Seq(T) /\ Added(st[s], op, st[s] \o <<op>>)
  BY DEF Added
<1>5. ASSUME NEW t \in Streams, t # s PROVE (st ++ Single(s, op))[t] = st[t]
  <2>1. (st ++ Single(s, op))[t] = st[t] \o <<>>
    BY <1>5 DEF ++, Single
  <2>2. st[t] \in Seq(AnyOps)
    BY DEF Work
  <2> QED BY <2>1, <2>2, ConcatEmptySeq
<1> QED BY <1>1, <1>2, <1>3, <1>4, <1>5

-----------------------------------------------------------------------------
(* The queues and the buffers: `keeps` holds what kernels to come will     *)
(* find, and `open` the copies that nothing enqueued has waited for.       *)

Scene(st, c, keeps, open) ==
  LET e == st["exec"]
      h == st["h2d"]
  IN /\ st \in Work /\ Sound(e, h, c)
     /\ \A p \in keeps : Holds(e, h, c, p[1], p[2])
     /\ \A j \in 1..Len(h) : h[j].op = "copy" => Awaited(e, h, j) \/ <<h[j].block, h[j].data>> \in open

\* A scene may promise less.
LEMMA SceneWeakens ==
  ASSUME NEW st, NEW c, NEW keeps, NEW open, Scene(st, c, keeps, open),
         NEW keeps2, keeps2 \subseteq keeps, NEW open2, open \subseteq open2
  PROVE  Scene(st, c, keeps2, open2)
BY DEF Scene

\* A record or a wait is an operation of either stream.
LEMMA EventsAreOps == ASSUME NEW event \in Events, NEW kind \in {"record", "wait"}
                      PROVE  [op |-> kind, event |-> event] \in EventOps
BY DEF EventOps

\* An event is enqueued on the exec stream; a wait for a copy closes it.
LEMMA SceneEvent ==
  ASSUME NEW st, NEW c, NEW keeps, NEW open, Scene(st, c, keeps, open),
         NEW op \in EventOps, NEW open2,
         \A p \in open : p \in open2 \/ IsWait(op, IsThere(p[2]))
  PROVE  Scene(st ++ Single("exec", op), c, keeps, open2)
<1> DEFINE e == st["exec"]
           h == st["h2d"]
           e2 == (st ++ Single("exec", op))["exec"]
<1>1. st \in Work /\ Sound(e, h, c) /\ e \in Seq(ExecOps) /\ h \in Seq(H2dOps)
  BY DEF Scene, Sound
<1>2. op \in ExecOps /\ op \in AnyOps /\ "exec" \in Streams /\ "h2d" \in Streams /\ "exec" # "h2d"
  BY DEF ExecOps, AnyOps, Streams
<1>3. /\ st ++ Single("exec", op) \in Work /\ e2 \in Seq(ExecOps) /\ Added(e, op, e2)
      /\ (st ++ Single("exec", op))["h2d"] = h
  BY <1>1, <1>2, OnIsAdded
<1>4. \A b, d : ~Reads(op, b, d) /\ ~Writes(op, b)
  BY DEF EventOps, Reads, Writes
<1>5. \A j \in 1..Len(h) : h[j].op = "copy" => Awaited(e, h, j) \/ <<h[j].block, h[j].data>> \in open
  BY DEF Scene
<1>6. \A p \in keeps : Holds(e, h, c, p[1], p[2])
  BY DEF Scene
<1> HIDE DEF e, h, e2
<1>7. /\ Sound(e2, h, c)
      /\ \A b, d : Holds(e, h, c, b, d) /\ ~Writes(op, b) => Holds(e2, h, c, b, d)
      /\ \A b : Writes(op, b) => Holds(e2, h, c, b, op.data)
      /\ \A j \in 1..Len(h) : Awaited(e, h, j) \/ IsWait(op, IsThere(h[j].data)) => Awaited(e2, h, j)
  <2>1. \A j \in 1..Len(h) : ~Touches(op, h[j].block)
    BY <1>4 DEF Touches
  <2> QED BY <1>1, <1>2, <1>3, <1>4, <2>1, ExecAdds
<1>8. ASSUME NEW j \in 1..Len(h), h[j].op = "copy"
      PROVE  Awaited(e2, h, j) \/ <<h[j].block, h[j].data>> \in open2
  BY <1>5, <1>7, <1>8
<1> QED BY <1>3, <1>4, <1>6, <1>7, <1>8 DEF Scene, e, h, e2

\* An operation of the exec stream that finds what it reads is enqueued.
LEMMA SceneExec ==
  ASSUME NEW st, NEW c, NEW keeps, NEW open, Scene(st, c, keeps, open),
         NEW op \in KernelOps \cup CallbackOps,
         \A r \in op.reads : r \in keeps,
         \A p \in open : ~Touches(op, p[1]),
         NEW keeps2, \A p \in keeps2 : \/ p \in keeps /\ ~Writes(op, p[1])
                                       \/ Writes(op, p[1]) /\ p[2] = op.data
  PROVE  Scene(st ++ Single("exec", op), c, keeps2, open)
<1> DEFINE e == st["exec"]
           h == st["h2d"]
           e2 == (st ++ Single("exec", op))["exec"]
<1>1. st \in Work /\ Sound(e, h, c) /\ e \in Seq(ExecOps) /\ h \in Seq(H2dOps)
  BY DEF Scene, Sound
<1>2. op \in ExecOps /\ op \in AnyOps /\ "exec" \in Streams /\ "h2d" \in Streams /\ "exec" # "h2d"
  BY DEF ExecOps, AnyOps, Streams
<1>3. /\ st ++ Single("exec", op) \in Work /\ e2 \in Seq(ExecOps) /\ Added(e, op, e2)
      /\ (st ++ Single("exec", op))["h2d"] = h
  BY <1>1, <1>2, OnIsAdded
<1>4. \A j \in 1..Len(h) : h[j].op = "copy" => Awaited(e, h, j) \/ <<h[j].block, h[j].data>> \in open
  BY DEF Scene
<1>5. \A p \in keeps : Holds(e, h, c, p[1], p[2])
  BY DEF Scene
<1> HIDE DEF e, h, e2
<1>6. \A b, d : Reads(op, b, d) => Holds(e, h, c, b, d)
  <2>1. SUFFICES ASSUME NEW b, NEW d, Reads(op, b, d) PROVE Holds(e, h, c, b, d)
    OBVIOUS
  <2>2. PICK p : p = <<b, d>>
    OBVIOUS
  <2>3. p \in keeps
    BY <2>1, <2>2 DEF Reads
  <2> QED BY <1>5, <2>2, <2>3
<1>7. ASSUME NEW j \in 1..Len(h), h[j].op = "copy", Touches(op, h[j].block) PROVE Awaited(e, h, j)
  <2>1. PICK p : p = <<h[j].block, h[j].data>>
    OBVIOUS
  <2>2. p[1] = h[j].block
    BY <2>1
  <2>3. p \notin open
    BY <1>7, <2>2
  <2> QED BY <1>4, <1>7, <2>1, <2>3
<1>8. /\ Sound(e2, h, c)
      /\ \A b, d : Holds(e, h, c, b, d) /\ ~Writes(op, b) => Holds(e2, h, c, b, d)
      /\ \A b : Writes(op, b) => Holds(e2, h, c, b, op.data)
      /\ \A j \in 1..Len(h) : Awaited(e, h, j) \/ IsWait(op, IsThere(h[j].data)) => Awaited(e2, h, j)
  BY <1>1, <1>2, <1>3, <1>6, <1>7, ExecAdds
<1>9. \A p \in keeps2 : Holds(e2, h, c, p[1], p[2])
  BY <1>5, <1>8
<1>10. \A j \in 1..Len(h) : h[j].op = "copy" => Awaited(e2, h, j) \/ <<h[j].block, h[j].data>> \in open
  BY <1>4, <1>8
<1> QED BY <1>3, <1>8, <1>9, <1>10 DEF Scene, e, h, e2

\* A kernel is enqueued: it may read what is kept, and keeps what it leaves.
LEMMA SceneKernel ==
  ASSUME NEW st, NEW c, NEW keeps, NEW open, Scene(st, c, keeps, open),
         NEW reads \in SUBSET (Device \X Data), NEW data \in Data, NEW block \in Blocks,
         reads \subseteq keeps,
         \A p \in open : p[1] # block /\ \A r \in reads : p[1] # r[1],
         NEW keeps2, \A p \in keeps2 : (p \in keeps /\ p[1] # block) \/ p = <<block, data>>
  PROVE  Scene(st ++ Kernel(reads, data, block), c, keeps2, open)
<1> DEFINE op == [op |-> "kernel", reads |-> reads, block |-> block, data |-> data]
<1>1. op \in KernelOps /\ op \in KernelOps \cup CallbackOps
  BY DEF KernelOps
<1>2. op.reads = reads /\ op.block = block /\ op.data = data /\ op.op = "kernel"
  OBVIOUS
<1>3. Kernel(reads, data, block) = Single("exec", op)
  BY DEF Kernel
<1> HIDE DEF op
<1>4. \A b : Writes(op, b) <=> b = block
  BY <1>2 DEF Writes
<1>5. \A b : Touches(op, b) => b = block \/ \E r \in reads : r[1] = b
  <2>1. SUFFICES ASSUME NEW b, NEW d, <<b, d>> \in reads PROVE \E r \in reads : r[1] = b
    BY <1>2, <1>4 DEF Touches, Reads
  <2>2. <<b, d>>[1] = b
    OBVIOUS
  <2> QED BY <2>1, <2>2
<1>6. \A p \in open : ~Touches(op, p[1])
  BY <1>5
<1>7. \A p \in keeps2 : \/ p \in keeps /\ ~Writes(op, p[1])
                        \/ Writes(op, p[1]) /\ p[2] = op.data
  <2>1. <<block, data>>[1] = block /\ <<block, data>>[2] = data
    OBVIOUS
  <2> QED BY <1>2, <1>4, <2>1
<1>8. \A r \in op.reads : r \in keeps
  BY <1>2
<1> QED BY <1>1, <1>3, <1>6, <1>7, <1>8, SceneExec

\* A callback is enqueued: it may read what is kept.
LEMMA SceneCallback ==
  ASSUME NEW st, NEW c, NEW keeps, NEW open, Scene(st, c, keeps, open),
         NEW reads \in SUBSET ({HostCaps} \X Data), NEW id \in Ids,
         reads \subseteq keeps, \A p \in open : p[1] # HostCaps
  PROVE  Scene(st ++ Callback(reads, id), c, keeps, open)
<1> DEFINE op == [op |-> "callback", reads |-> reads, id |-> id]
<1>1. op \in KernelOps \cup CallbackOps
  BY DEF CallbackOps
<1>2. op.reads = reads /\ op.op = "callback"
  OBVIOUS
<1>3. Callback(reads, id) = Single("exec", op)
  BY DEF Callback
<1> HIDE DEF op
<1>4. \A b : ~Writes(op, b)
  BY <1>2 DEF Writes
<1>5. \A b : Touches(op, b) => b = HostCaps
  <2>1. SUFFICES ASSUME NEW b, NEW d, <<b, d>> \in reads PROVE b = HostCaps
    BY <1>2, <1>4 DEF Touches, Reads
  <2> QED BY <2>1
<1>6. \A p \in open : ~Touches(op, p[1])
  BY <1>5
<1>7. \A p \in keeps : p \in keeps /\ ~Writes(op, p[1])
  BY <1>4
<1> QED BY <1>1, <1>2, <1>3, <1>6, <1>7, SceneExec

\* The events and the data of a transfer.
LEMMA TransferEvents ==
  ASSUME NEW name \in Names, NEW id \in Ids
  PROVE  /\ <<<<name, "allocated">>, id>> \in Events /\ <<<<name, "transferred">>, id>> \in Events
         /\ <<id, name>> \in Data
         /\ HasBuffer(<<id, name>>) = <<<<name, "allocated">>, id>>
         /\ IsThere(<<id, name>>) = <<<<name, "transferred">>, id>>
BY DEF Events, Data, HasBuffer, IsThere

\* The computation waits for a transfer.
LEMMA SceneTransferred ==
  ASSUME NEW st, NEW c, NEW keeps, NEW open, Scene(st, c, keeps, open),
         NEW name \in Names, NEW id \in Ids, NEW open2, \A p \in open : p[2] # <<id, name>> => p \in open2
  PROVE  Scene(st ++ EnsureTransferred(name, id), c, keeps, open2)
<1> DEFINE op == [op |-> "wait", event |-> <<<<name, "transferred">>, id>>]
<1>1. op \in EventOps
  BY TransferEvents, EventsAreOps
<1>2. IsWait(op, IsThere(<<id, name>>))
  BY TransferEvents DEF IsWait
<1>3. EnsureTransferred(name, id) = Single("exec", op)
  BY DEF EnsureTransferred, Wait
<1> HIDE DEF op
<1>4. \A p \in open : p \in open2 \/ IsWait(op, IsThere(p[2]))
  BY <1>2
<1> QED BY <1>1, <1>3, <1>4, SceneEvent

\* An event of a job on the exec stream.
LEMMA SceneJobEvent ==
  ASSUME NEW st, NEW c, NEW keeps, NEW open, Scene(st, c, keeps, open),
         NEW kind \in {"spill", "is_finished"}, NEW id \in Ids
  PROVE  Scene(st ++ Record("exec", <<"job", kind>>, id), c, keeps, open)
<1> DEFINE op == [op |-> "record", event |-> <<<<"job", kind>>, id>>]
<1>1. <<<<"job", kind>>, id>> \in Events
  BY DEF Events
<1>2. op \in EventOps
  BY <1>1, EventsAreOps
<1>3. Record("exec", <<"job", kind>>, id) = Single("exec", op)
  BY DEF Record
<1> HIDE DEF op
<1> QED BY <1>2, <1>3, SceneEvent

\* An event of the h2d stream.
LEMMA SceneH2dEvent ==
  ASSUME NEW st, NEW c, NEW keeps, NEW open, Scene(st, c, keeps, open), NEW op \in EventOps
  PROVE  Scene(st ++ Single("h2d", op), c, keeps, open)
<1> DEFINE e == st["exec"]
           h == st["h2d"]
           h2 == (st ++ Single("h2d", op))["h2d"]
<1>1. st \in Work /\ Sound(e, h, c) /\ e \in Seq(ExecOps) /\ h \in Seq(H2dOps)
  BY DEF Scene, Sound
<1>2. op \in H2dOps /\ op \in AnyOps /\ "exec" \in Streams /\ "h2d" \in Streams /\ "exec" # "h2d"
  BY DEF H2dOps, ExecOps, AnyOps, Streams
<1>3. /\ st ++ Single("h2d", op) \in Work /\ h2 \in Seq(H2dOps) /\ Added(h, op, h2)
      /\ (st ++ Single("h2d", op))["exec"] = e
  BY <1>1, <1>2, OnIsAdded
<1>4. /\ \A j \in 1..Len(h) : h[j].op = "copy" => Awaited(e, h, j) \/ <<h[j].block, h[j].data>> \in open
      /\ \A p \in keeps : Holds(e, h, c, p[1], p[2])
  BY DEF Scene
<1> HIDE DEF e, h, h2
<1>5. /\ Sound(e, h2, c)
      /\ \A b, d : Holds(e, h, c, b, d) => Holds(e, h2, c, b, d)
      /\ \A j \in 1..Len(h2) : h2[j].op = "copy" =>
           j \in 1..Len(h) /\ h2[j] = h[j] /\ (Awaited(e, h, j) => Awaited(e, h2, j))
  BY <1>1, <1>3, EventAdds
<1>6. \A j \in 1..Len(h2) : h2[j].op = "copy" => Awaited(e, h2, j) \/ <<h2[j].block, h2[j].data>> \in open
  BY <1>4, <1>5
<1> QED BY <1>3, <1>4, <1>5, <1>6 DEF Scene, e, h, h2

\* A transfer, operation by operation.
LEMMA TransferSteps ==
  ASSUME NEW st \in Work, NEW name \in Names, NEW id \in Ids, NEW block \in Device
  PROVE  /\ Record("exec", <<name, "allocated">>, id) \in Work /\ EnsureAllocated(name, id) \in Work
         /\ Copy(name, id, block) \in Work /\ Record("h2d", <<name, "transferred">>, id) \in Work
         /\ Transfer(name, id, block) \in Work
         /\ st ++ Transfer(name, id, block)
              = (((st ++ Record("exec", <<name, "allocated">>, id)) ++ EnsureAllocated(name, id))
                   ++ Copy(name, id, block)) ++ Record("h2d", <<name, "transferred">>, id)
<1> DEFINE w1 == Record("exec", <<name, "allocated">>, id)
           w2 == EnsureAllocated(name, id)
           w3 == Copy(name, id, block)
           w4 == Record("h2d", <<name, "transferred">>, id)
<1>1. /\ [op |-> "record", event |-> <<<<name, "allocated">>, id>>] \in EventOps
      /\ [op |-> "wait", event |-> <<<<name, "allocated">>, id>>] \in EventOps
      /\ [op |-> "record", event |-> <<<<name, "transferred">>, id>>] \in EventOps
  BY TransferEvents, EventsAreOps
<1>2. [op |-> "copy", block |-> block, data |-> <<id, name>>] \in CopyOps
  BY TransferEvents DEF CopyOps
<1>3. \A op \in EventOps \cup CopyOps : \A s \in Streams : Single(s, op) \in Work
  <2>1. SUFFICES ASSUME NEW op \in EventOps \cup CopyOps, NEW s \in Streams PROVE Single(s, op) \in Work
    OBVIOUS
  <2>2. op \in AnyOps
    BY DEF AnyOps, H2dOps
  <2>3. <<op>> \in Seq(AnyOps) /\ <<>> \in Seq(AnyOps)
    BY <2>2
  <2> QED BY <2>3 DEF Single, Work
<1>4. w1 \in Work /\ w2 \in Work /\ w3 \in Work /\ w4 \in Work
  BY <1>1, <1>2, <1>3 DEF Record, EnsureAllocated, Wait, Copy, Streams
<1>5. Transfer(name, id, block) = (w1 ++ w2) ++ (w3 ++ w4)
  BY DEF Transfer, Scheduled
<1> HIDE DEF w1, w2, w3, w4
<1>6. w1 ++ w2 \in Work /\ w3 ++ w4 \in Work /\ (w1 ++ w2) ++ (w3 ++ w4) \in Work
  BY <1>4, WorkIsAdded
<1>7. st ++ ((w1 ++ w2) ++ (w3 ++ w4)) = (st ++ (w1 ++ w2)) ++ (w3 ++ w4)
  BY <1>6, WorkAssociates
<1>8. st ++ (w1 ++ w2) = (st ++ w1) ++ w2
  BY <1>4, WorkAssociates
<1>9. st ++ w1 \in Work
  BY <1>4, WorkIsAdded
<1>10. (st ++ w1) ++ w2 \in Work
  BY <1>4, <1>9, WorkIsAdded
<1>11. ((st ++ w1) ++ w2) ++ (w3 ++ w4) = (((st ++ w1) ++ w2) ++ w3) ++ w4
  BY <1>4, <1>10, WorkAssociates
<1> QED BY <1>4, <1>5, <1>6, <1>7, <1>8, <1>11 DEF w1, w2, w3, w4

\* A transfer into a buffer of which nothing is needed any more.
LEMMA SceneTransfer ==
  ASSUME NEW st, NEW c, NEW keeps, NEW open, Scene(st, c, keeps, open),
         NEW name \in Names, NEW id \in Ids, NEW block \in Device,
         NEW keeps2, \A p \in keeps2 : (p \in keeps /\ p[1] # block) \/ p = <<block, <<id, name>>>>,
         NEW open2, open \subseteq open2, <<block, <<id, name>>>> \in open2
  PROVE  Scene(st ++ Transfer(name, id, block), c, keeps2, open2)
<1> DEFINE allocated == [op |-> "record", event |-> <<<<name, "allocated">>, id>>]
           waits == [op |-> "wait", event |-> <<<<name, "allocated">>, id>>]
           copy == [op |-> "copy", block |-> block, data |-> <<id, name>>]
           transferred == [op |-> "record", event |-> <<<<name, "transferred">>, id>>]
           st1 == st ++ Single("exec", allocated)
           st2 == st1 ++ Single("h2d", waits)
           st3 == st2 ++ Single("h2d", copy)
           st4 == st3 ++ Single("h2d", transferred)
<1>1. st \in Work /\ st["exec"] \in Seq(ExecOps)
  BY DEF Scene, Sound
<1>2. st ++ Transfer(name, id, block) = st4
  BY <1>1, TransferSteps DEF Record, EnsureAllocated, Wait, Copy
<1>3. allocated \in EventOps /\ waits \in EventOps /\ transferred \in EventOps
  BY TransferEvents, EventsAreOps
<1>4. copy \in CopyOps /\ copy.block = block /\ copy.data = <<id, name>> /\ copy.op = "copy"
  BY TransferEvents DEF CopyOps
<1>5. /\ IsRecord(allocated, HasBuffer(copy.data)) /\ IsWait(waits, HasBuffer(copy.data))
      /\ IsRecord(transferred, IsThere(copy.data))
  BY <1>4, TransferEvents DEF IsRecord, IsWait
<1> HIDE DEF allocated, waits, copy, transferred
<1>6. Scene(st1, c, keeps, open)
  BY <1>3, SceneEvent
<1> DEFINE e == st1["exec"]
           h == st2["h2d"]
           h1 == st3["h2d"]
           h2 == st4["h2d"]
<1>7. e # <<>> /\ e[Len(e)] = allocated
  <2>1. allocated \in ExecOps /\ allocated \in AnyOps /\ "exec" \in Streams
    BY <1>3 DEF ExecOps, AnyOps, Streams
  <2>2. e \in Seq(ExecOps) /\ Added(st["exec"], allocated, e)
    BY <1>1, <2>1, OnIsAdded
  <2> HIDE DEF e
  <2>3. Len(e) = Len(st["exec"]) + 1 /\ Len(st["exec"]) \in Nat
    BY <1>1, <2>2 DEF Added
  <2> QED BY <2>2, <2>3 DEF Added
<1> HIDE DEF st1
<1>8. Scene(st2, c, keeps, open)
  BY <1>3, <1>6, SceneH2dEvent
<1>9. st1 \in Work /\ st1["h2d"] \in Seq(H2dOps) /\ "h2d" \in Streams /\ "exec" \in Streams
  BY <1>6 DEF Scene, Sound, Streams
<1>10. st2 \in Work /\ h \in Seq(H2dOps) /\ Added(st1["h2d"], waits, h) /\ st2["exec"] = e
  <2>1. waits \in H2dOps /\ waits \in AnyOps
    BY <1>3 DEF H2dOps, AnyOps
  <2> QED BY <1>9, <2>1, OnIsAdded
<1> HIDE DEF st2
<1>11. st3 \in Work /\ h1 \in Seq(H2dOps) /\ Added(h, copy, h1) /\ st3["exec"] = e
  <2>1. copy \in H2dOps /\ copy \in AnyOps
    BY <1>4 DEF H2dOps, AnyOps
  <2> QED BY <1>9, <1>10, <2>1, OnIsAdded
<1> HIDE DEF st3
<1>12. st4 \in Work /\ h2 \in Seq(H2dOps) /\ Added(h1, transferred, h2) /\ st4["exec"] = e
  <2>1. transferred \in H2dOps /\ transferred \in AnyOps
    BY <1>3 DEF H2dOps, AnyOps
  <2> QED BY <1>9, <1>11, <2>1, OnIsAdded
<1>13. /\ Sound(e, h, c)
       /\ \A p \in keeps : Holds(e, h, c, p[1], p[2])
       /\ \A j \in 1..Len(h) : h[j].op = "copy" => Awaited(e, h, j) \/ <<h[j].block, h[j].data>> \in open
  BY <1>8, <1>10 DEF Scene
<1> HIDE DEF e, h, h1, h2, st4
<1>14. h # <<>> /\ h[Len(h)] = waits
  <2>1. Len(h) = Len(st1["h2d"]) + 1 /\ Len(st1["h2d"]) \in Nat
    BY <1>9, <1>10 DEF Added
  <2> QED BY <1>10, <2>1 DEF Added
<1>15. /\ Sound(e, h2, c)
       /\ \A b, d : Holds(e, h, c, b, d) /\ b # copy.block => Holds(e, h2, c, b, d)
       /\ Holds(e, h2, c, copy.block, copy.data)
       /\ \A j \in 1..Len(h2) : h2[j].op = "copy" =>
            \/ h2[j] = copy
            \/ j \in 1..Len(h) /\ h2[j] = h[j] /\ (Awaited(e, h, j) => Awaited(e, h2, j))
  <2>1. Len(h1) \in Nat
    BY <1>11
  <2> QED BY <1>3, <1>4, <1>5, <1>7, <1>11, <1>12, <1>13, <1>14, <2>1, CopyAdds
<1>16. \A p \in keeps2 : Holds(e, h2, c, p[1], p[2])
  <2>1. <<block, <<id, name>>>>[1] = block /\ <<block, <<id, name>>>>[2] = <<id, name>>
    OBVIOUS
  <2> QED BY <1>4, <1>13, <1>15, <2>1
<1>17. \A j \in 1..Len(h2) : h2[j].op = "copy" => Awaited(e, h2, j) \/ <<h2[j].block, h2[j].data>> \in open2
  BY <1>4, <1>13, <1>15
<1>18. Scene(st4, c, keeps2, open2)
  BY <1>12, <1>15, <1>16, <1>17 DEF Scene, h2
<1> QED BY <1>2, <1>18

-----------------------------------------------------------------------------
(* What the work of a request waits for and copies.                        *)

\* All waits of the exec stream and all copies are those of the request.
Belongs(w, id) ==
  /\ w \in Work
  /\ \A k \in 1..Len(w["exec"]) : w["exec"][k].op = "wait" => w["exec"][k].event[2] = id
  /\ \A j \in 1..Len(w["h2d"]) : w["h2d"][j].op = "copy" => w["h2d"][j].data[1] = id

\* The exec stream waits for nothing.
Quiet(w) == \A k \in 1..Len(w["exec"]) : w["exec"][k].op # "wait"

\* The callback of the request is enqueued.
Calls(w, id) == \E k \in 1..Len(w["exec"]) : w["exec"][k].op = "callback" /\ w["exec"][k].id = id

\* Where the operations of two pieces of work are in both together.
LEMMA WorkIndexed ==
  ASSUME NEW w1 \in Work, NEW w2 \in Work, NEW s \in Streams
  PROVE  /\ Len(w1[s]) \in Nat /\ Len(w2[s]) \in Nat
         /\ Len((w1 ++ w2)[s]) = Len(w1[s]) + Len(w2[s])
         /\ \A k \in 1..Len(w1[s]) : k \in 1..Len((w1 ++ w2)[s]) /\ (w1 ++ w2)[s][k] = w1[s][k]
         /\ \A k \in 1..Len((w1 ++ w2)[s]) :
              \/ k \in 1..Len(w1[s]) /\ (w1 ++ w2)[s][k] = w1[s][k]
              \/ /\ Len(w1[s]) < k
                 /\ \E i \in 1..Len(w2[s]) : k = Len(w1[s]) + i /\ (w1 ++ w2)[s][k] = w2[s][i]
         /\ \A i \in 1..Len(w2[s]) :
              \E k \in 1..Len((w1 ++ w2)[s]) : k = Len(w1[s]) + i /\ (w1 ++ w2)[s][k] = w2[s][i]
<1>1. PICK q1 \in Seq(AnyOps), q2 \in Seq(AnyOps) : q1 = w1[s] /\ q2 = w2[s]
  BY DEF Work
<1>2. PICK q : q = q1 \o q2
  OBVIOUS
<1>3. (w1 ++ w2)[s] = q
  BY <1>1, <1>2 DEF ++
<1>4. Len(q1) \in Nat /\ Len(q2) \in Nat /\ Len(q) = Len(q1) + Len(q2)
  BY <1>2
<1>5. \A k \in 1..Len(q) : q[k] = IF k <= Len(q1) THEN q1[k] ELSE q2[k - Len(q1)]
  BY <1>2, <1>4
<1>6. \A k \in 1..Len(q1) : k \in 1..Len(q) /\ q[k] = q1[k]
  BY <1>4, <1>5
<1>7. ASSUME NEW i \in 1..Len(q2)
      PROVE  \E k \in 1..Len(q) : k = Len(q1) + i /\ q[k] = q2[i]
  <2>1. PICK k : k = Len(q1) + i
    OBVIOUS
  <2>2. k \in 1..Len(q) /\ ~ (k <= Len(q1)) /\ k - Len(q1) = i
    BY <1>4, <2>1
  <2> QED BY <1>5, <2>1, <2>2
<1>8. ASSUME NEW k \in 1..Len(q), ~ (k <= Len(q1))
      PROVE  Len(q1) < k /\ \E i \in 1..Len(q2) : k = Len(q1) + i /\ q[k] = q2[i]
  <2>1. PICK i : i = k - Len(q1)
    OBVIOUS
  <2>2. i \in 1..Len(q2) /\ k = Len(q1) + i
    BY <1>4, <1>8, <2>1
  <2> QED BY <1>4, <1>5, <1>8, <2>1, <2>2
<1>9. \A k \in 1..Len(q) :
        \/ k \in 1..Len(q1) /\ q[k] = q1[k]
        \/ Len(q1) < k /\ \E i \in 1..Len(q2) : k = Len(q1) + i /\ q[k] = q2[i]
  <2>1. \A k \in 1..Len(q) : k <= Len(q1) => k \in 1..Len(q1)
    BY <1>4
  <2> QED BY <1>6, <1>8, <2>1
<1> QED BY <1>1, <1>3, <1>4, <1>6, <1>7, <1>9

\* The last operation of the exec stream says that the job is finished.
Finished(id) == <<<<"job", "is_finished">>, id>>
Ends(w, id) == LET e == w["exec"] IN Len(e) \in 1..Len(e) /\ IsRecord(e[Len(e)], Finished(id))

\* What is in q is in q1 or in q2.
Joins(q1, q2, q) ==
  /\ \A k \in 1..Len(q1) : k \in 1..Len(q) /\ q[k] = q1[k]
  /\ \A k \in 1..Len(q) : (k \in 1..Len(q1) /\ q[k] = q1[k]) \/ \E i \in 1..Len(q2) : q[k] = q2[i]
  /\ \A i \in 1..Len(q2) : \E k \in 1..Len(q) : q[k] = q2[i]

\* The operations of two pieces of work are those of the one and of the other.
LEMMA WorkSplits ==
  ASSUME NEW w1 \in Work, NEW w2 \in Work, NEW s \in Streams, NEW w, w = w1 ++ w2
  PROVE  Joins(w1[s], w2[s], w[s])
<1>1. /\ Len(w1[s]) \in Nat /\ Len(w2[s]) \in Nat
      /\ Len((w1 ++ w2)[s]) = Len(w1[s]) + Len(w2[s])
      /\ \A k \in 1..Len(w1[s]) : k \in 1..Len((w1 ++ w2)[s]) /\ (w1 ++ w2)[s][k] = w1[s][k]
      /\ \A k \in 1..Len((w1 ++ w2)[s]) :
           \/ k \in 1..Len(w1[s]) /\ (w1 ++ w2)[s][k] = w1[s][k]
           \/ /\ Len(w1[s]) < k
              /\ \E i \in 1..Len(w2[s]) : k = Len(w1[s]) + i /\ (w1 ++ w2)[s][k] = w2[s][i]
      /\ \A i \in 1..Len(w2[s]) :
           \E k \in 1..Len((w1 ++ w2)[s]) : k = Len(w1[s]) + i /\ (w1 ++ w2)[s][k] = w2[s][i]
  BY WorkIndexed
<1>2. \A k \in 1..Len(w1[s]) : k \in 1..Len(w[s]) /\ w[s][k] = w1[s][k]
  BY <1>1
<1>3. \A k \in 1..Len(w[s]) : \/ k \in 1..Len(w1[s]) /\ w[s][k] = w1[s][k]
                             \/ \E i \in 1..Len(w2[s]) : w[s][k] = w2[s][i]
  BY <1>1
<1>4. \A i \in 1..Len(w2[s]) : \E k \in 1..Len(w[s]) : w[s][k] = w2[s][i]
  BY <1>1
<1> QED BY <1>2, <1>3, <1>4 DEF Joins

\* Two pieces of work for a request are work for the request.
LEMMA BelongsOn ==
  ASSUME NEW w1, NEW w2, NEW id, Belongs(w1, id), Belongs(w2, id)
  PROVE  Belongs(w1 ++ w2, id) /\ (Calls(w1, id) \/ Calls(w2, id) => Calls(w1 ++ w2, id))
<1>1. w1 \in Work /\ w2 \in Work /\ w1 ++ w2 \in Work /\ "exec" \in Streams /\ "h2d" \in Streams
  BY WorkIsAdded DEF Belongs, Streams
<1>2. PICK w : w = w1 ++ w2
  OBVIOUS
<1>3. Joins(w1["exec"], w2["exec"], w["exec"]) /\ Joins(w1["h2d"], w2["h2d"], w["h2d"])
  BY <1>1, <1>2, WorkSplits
<1>4. \A k \in 1..Len(w["exec"]) : w["exec"][k].op = "wait" => w["exec"][k].event[2] = id
  <2>1. Joins(w1["exec"], w2["exec"], w["exec"])
    BY <1>3
  <2>2. /\ \A k \in 1..Len(w1["exec"]) : w1["exec"][k].op = "wait" => w1["exec"][k].event[2] = id
        /\ \A k \in 1..Len(w2["exec"]) : w2["exec"][k].op = "wait" => w2["exec"][k].event[2] = id
    BY DEF Belongs
  <2>3. SUFFICES ASSUME NEW k \in 1..Len(w["exec"]), w["exec"][k].op = "wait"
                 PROVE  w["exec"][k].event[2] = id
    OBVIOUS
  <2>4. CASE k \in 1..Len(w1["exec"]) /\ w["exec"][k] = w1["exec"][k]
    BY <2>2, <2>3, <2>4
  <2>5. CASE \E i \in 1..Len(w2["exec"]) : w["exec"][k] = w2["exec"][i]
    BY <2>2, <2>3, <2>5
  <2> QED BY <2>1, <2>4, <2>5 DEF Joins
<1>5. \A j \in 1..Len(w["h2d"]) : w["h2d"][j].op = "copy" => w["h2d"][j].data[1] = id
  BY <1>1, <1>3 DEF Belongs, Joins
<1>6. Calls(w1, id) \/ Calls(w2, id) => Calls(w, id)
  BY <1>1, <1>3 DEF Calls, Joins
<1> QED BY <1>1, <1>2, <1>4, <1>5, <1>6 DEF Belongs

\* Two pieces of work that wait for nothing wait for nothing.
LEMMA QuietOn ==
  ASSUME NEW w1 \in Work, NEW w2 \in Work, Quiet(w1), Quiet(w2)
  PROVE  Quiet(w1 ++ w2)
<1>1. "exec" \in Streams
  BY DEF Streams
<1>2. PICK w : w = w1 ++ w2
  OBVIOUS
<1>3. Joins(w1["exec"], w2["exec"], w["exec"])
  BY <1>1, <1>2, WorkSplits
<1> QED BY <1>2, <1>3 DEF Quiet, Joins

\* One operation for a request is work for the request.
LEMMA SingleBelongs ==
  ASSUME NEW op \in AnyOps, NEW s \in Streams, NEW id,
         op.op = "wait" /\ s = "exec" => op.event[2] = id, op.op = "copy" => op.data[1] = id
  PROVE  /\ Belongs(Single(s, op), id)
         /\ op.op # "wait" \/ s # "exec" => Quiet(Single(s, op))
         /\ op.op = "callback" /\ op.id = id /\ s = "exec" => Calls(Single(s, op), id)
<1>1. Single(s, op) \in Work
  <2>1. <<op>> \in Seq(AnyOps) /\ <<>> \in Seq(AnyOps)
    OBVIOUS
  <2> QED BY <2>1 DEF Single, Work
<1>2. \A t \in Streams : Single(s, op)[t] = IF t = s THEN <<op>> ELSE <<>>
  BY DEF Single
<1>3. "exec" \in Streams /\ "h2d" \in Streams
  BY DEF Streams
<1>4. PICK w \in Work : w = Single(s, op)
  BY <1>1
<1>5. w["exec"] = (IF "exec" = s THEN <<op>> ELSE <<>>) /\ w["h2d"] = (IF "h2d" = s THEN <<op>> ELSE <<>>)
  BY <1>2, <1>3, <1>4
<1>6. Len(<<op>>) = 1 /\ <<op>>[1] = op /\ Len(<<>>) = 0
  OBVIOUS
<1>7. \A k \in 1..Len(w["exec"]) : s = "exec" /\ w["exec"][k] = op
  BY <1>5, <1>6
<1>8. \A k \in 1..Len(w["h2d"]) : w["h2d"][k] = op
  BY <1>5, <1>6
<1>9. s = "exec" => 1 \in 1..Len(w["exec"])
  BY <1>5, <1>6
<1>10. Belongs(w, id)
  BY <1>7, <1>8 DEF Belongs
<1>11. op.op # "wait" \/ s # "exec" => Quiet(w)
  BY <1>7 DEF Quiet
<1>12. op.op = "callback" /\ op.id = id /\ s = "exec" => Calls(w, id)
  BY <1>7, <1>9 DEF Calls
<1> QED BY <1>4, <1>10, <1>11, <1>12

\* The end of the second piece of work is the end of both.
LEMMA EndsOn ==
  ASSUME NEW w1 \in Work, NEW w2 \in Work, NEW id, Ends(w2, id)
  PROVE  Ends(w1 ++ w2, id)
<1>1. PICK s \in Streams : s = "exec"
  BY DEF Streams
<1>2. PICK w : w = w1 ++ w2
  OBVIOUS
<1>3. PICK n : n = Len(w2[s])
  OBVIOUS
<1>4. n \in 1..Len(w2[s]) /\ IsRecord(w2[s][n], Finished(id))
  BY <1>1, <1>3 DEF Ends
<1>5. /\ Len(w1[s]) \in Nat /\ Len(w2[s]) \in Nat
      /\ Len((w1 ++ w2)[s]) = Len(w1[s]) + Len(w2[s])
      /\ \A k \in 1..Len(w1[s]) : k \in 1..Len((w1 ++ w2)[s]) /\ (w1 ++ w2)[s][k] = w1[s][k]
      /\ \A k \in 1..Len((w1 ++ w2)[s]) :
           \/ k \in 1..Len(w1[s]) /\ (w1 ++ w2)[s][k] = w1[s][k]
           \/ /\ Len(w1[s]) < k
              /\ \E i \in 1..Len(w2[s]) : k = Len(w1[s]) + i /\ (w1 ++ w2)[s][k] = w2[s][i]
      /\ \A i \in 1..Len(w2[s]) :
           \E k \in 1..Len((w1 ++ w2)[s]) : k = Len(w1[s]) + i /\ (w1 ++ w2)[s][k] = w2[s][i]
  BY WorkIndexed
<1>6. PICK k \in 1..Len(w[s]) : k = Len(w1[s]) + n /\ w[s][k] = w2[s][n]
  BY <1>2, <1>4, <1>5
<1>7. k = Len(w[s])
  BY <1>2, <1>3, <1>5, <1>6
<1>8. Len(w[s]) \in 1..Len(w[s]) /\ IsRecord(w[s][Len(w[s])], Finished(id))
  BY <1>4, <1>6, <1>7
<1> QED BY <1>1, <1>2, <1>8 DEF Ends

\* The event of the job is an end.
LEMMA FinishedEnds ==
  ASSUME NEW id \in Ids
  PROVE  Ends(Record("exec", <<"job", "is_finished">>, id), id)
<1>1. PICK op : op = [op |-> "record", event |-> Finished(id)]
  OBVIOUS
<1>2. PICK w : w = Single("exec", op)
  OBVIOUS
<1>3. Record("exec", <<"job", "is_finished">>, id) = w
  BY <1>1, <1>2 DEF Record, Finished
<1>4. w["exec"] = <<op>>
  BY <1>2 DEF Single, Streams
<1>5. Len(<<op>>) = 1 /\ <<op>>[1] = op /\ IsRecord(op, Finished(id))
  BY <1>1 DEF IsRecord
<1> QED BY <1>3, <1>4, <1>5 DEF Ends

\* Work of the request that comes first changes neither.
LEMMA ClosesOn ==
  ASSUME NEW id, NEW w1, NEW w2, Belongs(w1, id), Belongs(w2, id), Calls(w1, id) \/ Calls(w2, id), Ends(w2, id)
  PROVE  Calls(w1 ++ w2, id) /\ Ends(w1 ++ w2, id)
<1>1. w1 \in Work /\ w2 \in Work
  BY DEF Belongs
<1> QED BY <1>1, BelongsOn, EndsOn

-----------------------------------------------------------------------------
(* What a piece of work makes of a scene.                                  *)

Leads(id, w, keeps, open, keeps2, open2) ==
  Belongs(w, id) /\ \A st, c : Scene(st, c, keeps, open) => Scene(st ++ w, c, keeps2, open2)

\* One piece of work after the other.
LEMMA LeadsOn ==
  ASSUME NEW id, NEW w1, NEW w2, NEW k1, NEW o1, NEW k2, NEW o2, NEW k3, NEW o3,
         Leads(id, w1, k1, o1, k2, o2), Leads(id, w2, k2, o2, k3, o3)
  PROVE  Leads(id, w1 ++ w2, k1, o1, k3, o3)
<1>1. w1 \in Work /\ w2 \in Work /\ Belongs(w1 ++ w2, id)
  BY BelongsOn DEF Leads, Belongs
<1>2. ASSUME NEW st, NEW c, Scene(st, c, k1, o1) PROVE Scene(st ++ (w1 ++ w2), c, k3, o3)
  <2>1. Scene(st ++ w1, c, k2, o2)
    BY <1>2 DEF Leads
  <2>2. PICK st1 : st1 = st ++ w1
    OBVIOUS
  <2>3. Scene(st1 ++ w2, c, k3, o3)
    BY <2>1, <2>2 DEF Leads
  <2>4. st \in Work
    BY <1>2 DEF Scene
  <2>5. st ++ (w1 ++ w2) = st1 ++ w2
    BY <1>1, <2>2, <2>4, WorkAssociates
  <2> QED BY <2>3, <2>5
<1> QED BY <1>1, <1>2 DEF Leads

\* No work changes nothing.
LEMMA NothingLeads ==
  ASSUME NEW id, NEW keeps, NEW open, NEW keeps2, keeps2 \subseteq keeps, NEW open2, open \subseteq open2
  PROVE  Leads(id, Nothing, keeps, open, keeps2, open2)
<1>1. Belongs(Nothing, id)
  <2>1. Nothing \in Work /\ Nothing["exec"] = <<>> /\ Nothing["h2d"] = <<>>
    BY DEF Nothing, Work, Streams
  <2> QED BY <2>1 DEF Belongs
<1>2. ASSUME NEW st, NEW c, Scene(st, c, keeps, open) PROVE Scene(st ++ Nothing, c, keeps2, open2)
  <2>1. st \in Work
    BY <1>2 DEF Scene
  <2>2. st ++ Nothing = st
    BY <2>1, WorkIsAdded
  <2> QED BY <1>2, <2>2, SceneWeakens
<1> QED BY <1>1, <1>2 DEF Leads

\* A kernel, as a piece of work.
LEMMA KernelLeads ==
  ASSUME NEW id, NEW keeps, NEW open,
         NEW reads \in SUBSET (Device \X Data), NEW data \in Data, NEW block \in Blocks,
         reads \subseteq keeps,
         \A p \in open : p[1] # block /\ \A r \in reads : p[1] # r[1],
         NEW keeps2, \A p \in keeps2 : (p \in keeps /\ p[1] # block) \/ p = <<block, data>>
  PROVE  Leads(id, Kernel(reads, data, block), keeps, open, keeps2, open)
<1>1. Belongs(Kernel(reads, data, block), id)
  <2>1. PICK op : op = [op |-> "kernel", reads |-> reads, block |-> block, data |-> data]
    OBVIOUS
  <2>2. op \in AnyOps /\ op.op = "kernel" /\ "exec" \in Streams
    BY <2>1 DEF KernelOps, ExecOps, AnyOps, Streams
  <2> QED BY <2>1, <2>2, SingleBelongs DEF Kernel
<1>2. ASSUME NEW st, NEW c, Scene(st, c, keeps, open)
      PROVE  Scene(st ++ Kernel(reads, data, block), c, keeps2, open)
  BY <1>2, SceneKernel
<1> QED BY <1>1, <1>2 DEF Leads

\* A callback, as a piece of work.
LEMMA CallbackLeads ==
  ASSUME NEW keeps, NEW open, NEW reads \in SUBSET ({HostCaps} \X Data), NEW id \in Ids,
         reads \subseteq keeps, \A p \in open : p[1] # HostCaps
  PROVE  Leads(id, Callback(reads, id), keeps, open, keeps, open) /\ Calls(Callback(reads, id), id)
<1>1. Belongs(Callback(reads, id), id) /\ Calls(Callback(reads, id), id)
  <2>1. PICK op : op = [op |-> "callback", reads |-> reads, id |-> id]
    OBVIOUS
  <2>2. op \in AnyOps /\ op.op = "callback" /\ op.id = id /\ "exec" \in Streams
    BY <2>1 DEF CallbackOps, ExecOps, AnyOps, Streams
  <2> QED BY <2>1, <2>2, SingleBelongs DEF Callback
<1>2. ASSUME NEW st, NEW c, Scene(st, c, keeps, open)
      PROVE  Scene(st ++ Callback(reads, id), c, keeps, open)
  BY <1>2, SceneCallback
<1> QED BY <1>1, <1>2 DEF Leads

\* The wait for a transfer, as a piece of work.
LEMMA TransferredLeads ==
  ASSUME NEW keeps, NEW open, NEW name \in Names, NEW id \in Ids,
         NEW open2, \A p \in open : p[2] # <<id, name>> => p \in open2
  PROVE  Leads(id, EnsureTransferred(name, id), keeps, open, keeps, open2)
<1>1. Belongs(EnsureTransferred(name, id), id)
  <2>1. PICK op \in EventOps : op = [op |-> "wait", event |-> <<<<name, "transferred">>, id>>]
    BY TransferEvents, EventsAreOps
  <2>2. op \in AnyOps /\ op.op = "wait" /\ op.event[2] = id /\ "exec" \in Streams
    BY <2>1 DEF ExecOps, AnyOps, Streams
  <2> QED BY <2>1, <2>2, SingleBelongs DEF EnsureTransferred, Wait
<1>2. ASSUME NEW st, NEW c, Scene(st, c, keeps, open)
      PROVE  Scene(st ++ EnsureTransferred(name, id), c, keeps, open2)
  BY <1>2, SceneTransferred
<1> QED BY <1>1, <1>2 DEF Leads

\* The events of a job, as pieces of work.
LEMMA EventLeads ==
  ASSUME NEW keeps, NEW open, NEW kind \in {"spill", "is_finished"}, NEW id \in Ids
  PROVE  /\ Leads(id, Record("exec", <<"job", kind>>, id), keeps, open, keeps, open)
         /\ Leads(id, Wait("h2d", <<"job", kind>>, id), keeps, open, keeps, open)
<1>1. <<<<"job", kind>>, id>> \in Events
  BY DEF Events
<1>2. PICK record \in EventOps : record = [op |-> "record", event |-> <<<<"job", kind>>, id>>]
  BY <1>1, EventsAreOps
<1>3. PICK waits \in EventOps : waits = [op |-> "wait", event |-> <<<<"job", kind>>, id>>]
  BY <1>1, EventsAreOps
<1>4. Record("exec", <<"job", kind>>, id) = Single("exec", record)
  BY <1>2 DEF Record
<1>5. Wait("h2d", <<"job", kind>>, id) = Single("h2d", waits)
  BY <1>3 DEF Wait
<1>6. Belongs(Single("exec", record), id) /\ Belongs(Single("h2d", waits), id)
  <2>1. record \in AnyOps /\ waits \in AnyOps /\ "exec" \in Streams /\ "h2d" \in Streams
    BY DEF ExecOps, AnyOps, Streams
  <2>2. record.op = "record" /\ waits.op = "wait"
    BY <1>2, <1>3
  <2> QED BY <2>1, <2>2, SingleBelongs
<1>7. ASSUME NEW st, NEW c, Scene(st, c, keeps, open)
      PROVE  Scene(st ++ Single("exec", record), c, keeps, open) /\ Scene(st ++ Single("h2d", waits), c, keeps, open)
  BY <1>7, SceneEvent, SceneH2dEvent
<1> QED BY <1>4, <1>5, <1>6, <1>7 DEF Leads

\* A transfer into a buffer that nobody keeps, as a piece of work.
LEMMA TransferLeads ==
  ASSUME NEW keeps, NEW open, NEW name \in Names, NEW id \in Ids, NEW block \in Device,
         NEW keeps2, \A p \in keeps2 : (p \in keeps /\ p[1] # block) \/ p = <<block, <<id, name>>>>,
         NEW open2, open \subseteq open2, <<block, <<id, name>>>> \in open2
  PROVE  /\ Leads(id, Transfer(name, id, block), keeps, open, keeps2, open2)
         /\ Quiet(Transfer(name, id, block))
<1>1. Belongs(Transfer(name, id, block), id) /\ Quiet(Transfer(name, id, block))
  <2>1. PICK record \in EventOps : record = [op |-> "record", event |-> <<<<name, "allocated">>, id>>]
    BY TransferEvents, EventsAreOps
  <2>2. PICK waits \in EventOps : waits = [op |-> "wait", event |-> <<<<name, "allocated">>, id>>]
    BY TransferEvents, EventsAreOps
  <2>3. PICK copy \in CopyOps : copy = [op |-> "copy", block |-> block, data |-> <<id, name>>]
    BY TransferEvents DEF CopyOps
  <2>4. PICK last \in EventOps : last = [op |-> "record", event |-> <<<<name, "transferred">>, id>>]
    BY TransferEvents, EventsAreOps
  <2>5. /\ record \in AnyOps /\ waits \in AnyOps /\ copy \in AnyOps /\ last \in AnyOps
        /\ "exec" \in Streams /\ "h2d" \in Streams /\ "exec" # "h2d"
    BY DEF ExecOps, H2dOps, AnyOps, Streams
  <2>6. /\ record.op = "record" /\ waits.op = "wait" /\ copy.op = "copy" /\ last.op = "record"
        /\ copy.data[1] = id
    BY <2>1, <2>2, <2>3, <2>4
  <2> DEFINE w1 == Single("exec", record)
             w2 == Single("h2d", waits)
             w3 == Single("h2d", copy)
             w4 == Single("h2d", last)
  <2>7. Transfer(name, id, block) = (w1 ++ w2) ++ (w3 ++ w4)
    BY <2>1, <2>2, <2>3, <2>4 DEF Transfer, Scheduled, Record, EnsureAllocated, Wait, Copy
  <2>8. Belongs(w1, id) /\ Quiet(w1)
    BY <2>5, <2>6, SingleBelongs
  <2>9. Belongs(w2, id) /\ Quiet(w2)
    BY <2>5, <2>6, SingleBelongs
  <2>10. Belongs(w3, id) /\ Quiet(w3)
    BY <2>5, <2>6, SingleBelongs
  <2>11. Belongs(w4, id) /\ Quiet(w4)
    BY <2>5, <2>6, SingleBelongs
  <2> HIDE DEF w1, w2, w3, w4
  <2>12. Belongs(w1 ++ w2, id) /\ Quiet(w1 ++ w2)
    BY <2>8, <2>9, BelongsOn, QuietOn DEF Belongs
  <2>13. Belongs(w3 ++ w4, id) /\ Quiet(w3 ++ w4)
    BY <2>10, <2>11, BelongsOn, QuietOn DEF Belongs
  <2>14. Belongs((w1 ++ w2) ++ (w3 ++ w4), id) /\ Quiet((w1 ++ w2) ++ (w3 ++ w4))
    BY <2>12, <2>13, BelongsOn, QuietOn DEF Belongs
  <2> QED BY <2>7, <2>14
<1>2. ASSUME NEW st, NEW c, Scene(st, c, keeps, open)
      PROVE  Scene(st ++ Transfer(name, id, block), c, keeps2, open2)
  BY <1>2, SceneTransfer
<1> QED BY <1>1, <1>2 DEF Leads

\* Work may promise less.
LEMMA LeadsLess ==
  ASSUME NEW id, NEW w, NEW k1, NEW o1, NEW k2, NEW o2, Leads(id, w, k1, o1, k2, o2),
         NEW k3, k3 \subseteq k2, NEW o3, o2 \subseteq o3
  PROVE  Leads(id, w, k1, o1, k3, o3)
<1>1. ASSUME NEW st, NEW c, Scene(st, c, k1, o1) PROVE Scene(st ++ w, c, k3, o3)
  <2>1. Scene(st ++ w, c, k2, o2)
    BY <1>1 DEF Leads
  <2>2. PICK st2 : st2 = st ++ w
    OBVIOUS
  <2>3. Scene(st2, c, k3, o3)
    BY <2>1, <2>2, SceneWeakens
  <2> QED BY <2>2, <2>3
<1> QED BY <1>1 DEF Leads

\* The buffers of a request are different ones.
Apart(device) == \A m, n \in DOMAIN device : m # n => device[m] # device[n]

\* The names of buffers.
LEMMA BufferedNames == Buffered \subseteq Names /\ Parts \subseteq Buffered
BY DEF Buffered, Names, Parts

\* One transfer of a request into its buffer, if it needs it.
LEMMA TransferOneLeads ==
  ASSUME NEW id \in Ids, NEW names \in SUBSET Buffered, NEW device \in [names -> Device], Apart(device),
         NEW keeps, \A p \in keeps : \A n \in names : p[1] # device[n], NEW open,
         NEW done \in SUBSET names, NEW name \in Buffered, name \notin done,
         NEW done2, done2 = done \cup (names \cap {name})
  PROVE  /\ Leads(id, TransferOne(name, names, id, device),
               keeps \cup Inputs(done, id, device), open \cup Inputs(done, id, device),
               keeps \cup Inputs(done2, id, device), open \cup Inputs(done2, id, device))
         /\ Quiet(TransferOne(name, names, id, device))
<1>1. CASE name \notin names
  <2>1. done2 = done
    BY <1>1
  <2>2. TransferOne(name, names, id, device) = Nothing
    BY <1>1 DEF TransferOne
  <2>3. Quiet(Nothing)
    <3>1. Nothing["exec"] = <<>>
      BY DEF Nothing, Streams
    <3> QED BY <3>1 DEF Quiet
  <2> QED BY <2>1, <2>2, <2>3, NothingLeads
<1>2. CASE name \in names
  <2>1. PICK block \in Device : block = device[name]
    BY <1>2
  <2>2. TransferOne(name, names, id, device) = Transfer(name, id, block)
    BY <1>2, <2>1 DEF TransferOne
  <2>3. name \in Names
    BY BufferedNames
  <2>4. PICK k, o, k2, o2 :
          /\ k = keeps \cup Inputs(done, id, device) /\ o = open \cup Inputs(done, id, device)
          /\ k2 = keeps \cup Inputs(done2, id, device) /\ o2 = open \cup Inputs(done2, id, device)
    OBVIOUS
  <2>5. \A n \in done : device[n] # block
    BY <1>2, <2>1 DEF Apart
  <2>6. \A n \in done : <<device[n], <<id, n>>>>[1] = device[n]
    OBVIOUS
  <2>7. \A p \in keeps : p[1] # block
    BY <1>2, <2>1
  <2>8. \A p \in k2 : (p \in k /\ p[1] # block) \/ p = <<block, <<id, name>>>>
    <3>1. SUFFICES ASSUME NEW n \in done2 PROVE \/ n \in done /\ <<device[n], <<id, n>>>>[1] # block
                                                \/ <<device[n], <<id, n>>>> = <<block, <<id, name>>>>
      BY <2>4, <2>7 DEF Inputs
    <3>2. n \in done \/ n = name
      BY <3>1
    <3> QED BY <2>1, <2>5, <2>6, <3>2
  <2>9. o \subseteq o2
    BY <2>4 DEF Inputs
  <2>10. <<block, <<id, name>>>> \in o2
    <3>1. name \in done2
      BY <1>2
    <3> QED BY <2>1, <2>4, <3>1 DEF Inputs
  <2>11. Leads(id, Transfer(name, id, block), k, o, k2, o2) /\ Quiet(Transfer(name, id, block))
    BY <2>3, <2>8, <2>9, <2>10, TransferLeads
  <2> QED BY <2>2, <2>4, <2>11
<1> QED BY <1>1, <1>2

\* All transfers of a request into buffers nobody else keeps.
LEMMA TransfersLead ==
  ASSUME NEW id \in Ids, NEW names \in SUBSET Buffered, NEW device \in [names -> Device], Apart(device),
         NEW keeps, \A p \in keeps : \A n \in names : p[1] # device[n], NEW open
  PROVE  /\ Leads(id, Transfers(names, id, device), keeps, open,
               keeps \cup Inputs(names, id, device), open \cup Inputs(names, id, device))
         /\ Quiet(Transfers(names, id, device))
<1> DEFINE d1 == names \cap {"setup"}
           d2 == names \cap {"setup", "decoder"}
           d3 == names \cap {"setup", "decoder", "inits"}
           T(name) == TransferOne(name, names, id, device)
           K(done) == keeps \cup Inputs(done, id, device)
           O(done) == open \cup Inputs(done, id, device)
<1>1. Leads(id, T("setup"), K({}), O({}), K(d1), O(d1)) /\ Quiet(T("setup"))
  <2>1. PICK done \in SUBSET names : done = {}
    OBVIOUS
  <2>2. PICK done2 : done2 = d1
    OBVIOUS
  <2>3. done2 = done \cup (names \cap {"setup"}) /\ "setup" \in Buffered /\ "setup" \notin done
    BY <2>1, <2>2 DEF Buffered
  <2> QED BY <2>1, <2>2, <2>3, TransferOneLeads
<1>2. Leads(id, T("decoder"), K(d1), O(d1), K(d2), O(d2)) /\ Quiet(T("decoder"))
  <2>1. PICK done \in SUBSET names : done = d1
    OBVIOUS
  <2>2. PICK done2 : done2 = d2
    OBVIOUS
  <2>3. done2 = done \cup (names \cap {"decoder"}) /\ "decoder" \in Buffered /\ "decoder" \notin done
    BY <2>1, <2>2 DEF Buffered
  <2> QED BY <2>1, <2>2, <2>3, TransferOneLeads
<1>3. Leads(id, T("inits"), K(d2), O(d2), K(d3), O(d3)) /\ Quiet(T("inits"))
  <2>1. PICK done \in SUBSET names : done = d2
    OBVIOUS
  <2>2. PICK done2 : done2 = d3
    OBVIOUS
  <2>3. done2 = done \cup (names \cap {"inits"}) /\ "inits" \in Buffered /\ "inits" \notin done
    BY <2>1, <2>2 DEF Buffered
  <2> QED BY <2>1, <2>2, <2>3, TransferOneLeads
<1>4. Leads(id, T("trace"), K(d3), O(d3), K(names), O(names)) /\ Quiet(T("trace"))
  <2>1. PICK done \in SUBSET names : done = d3
    OBVIOUS
  <2>2. PICK done2 : done2 = names
    OBVIOUS
  <2>3. done2 = done \cup (names \cap {"trace"}) /\ "trace" \in Buffered /\ "trace" \notin done
    BY <2>1, <2>2 DEF Buffered
  <2> QED BY <2>1, <2>2, <2>3, TransferOneLeads
<1>5. K({}) = keeps /\ O({}) = open
  BY DEF Inputs
<1>6. Transfers(names, id, device) = ((T("setup") ++ T("decoder")) ++ T("inits")) ++ T("trace")
  BY DEF Transfers
<1> HIDE DEF T, K, O, d1, d2, d3
<1>7. T("setup") \in Work /\ T("decoder") \in Work /\ T("inits") \in Work /\ T("trace") \in Work
  BY <1>1, <1>2, <1>3, <1>4 DEF Leads, Belongs
<1>8. Leads(id, T("setup") ++ T("decoder"), K({}), O({}), K(d2), O(d2))
  BY <1>1, <1>2, LeadsOn
<1>9. Leads(id, (T("setup") ++ T("decoder")) ++ T("inits"), K({}), O({}), K(d3), O(d3))
  BY <1>3, <1>8, LeadsOn
<1>10. Leads(id, ((T("setup") ++ T("decoder")) ++ T("inits")) ++ T("trace"), K({}), O({}), K(names), O(names))
  BY <1>4, <1>9, LeadsOn
<1>11. Quiet(T("setup") ++ T("decoder")) /\ T("setup") ++ T("decoder") \in Work
  BY <1>1, <1>2, <1>7, QuietOn, WorkIsAdded
<1>12. /\ Quiet((T("setup") ++ T("decoder")) ++ T("inits"))
       /\ (T("setup") ++ T("decoder")) ++ T("inits") \in Work
  BY <1>3, <1>7, <1>11, QuietOn, WorkIsAdded
<1>13. Quiet(((T("setup") ++ T("decoder")) ++ T("inits")) ++ T("trace"))
  BY <1>4, <1>7, <1>12, QuietOn
<1> QED BY <1>5, <1>6, <1>10, <1>13 DEF K, O

\* The computation waits for a transfer of the request.
LEMMA EnsureOneLeads ==
  ASSUME NEW id \in Ids, NEW names, NEW name \in Names, NEW keeps, NEW open, NEW open2,
         \A p \in open : p \in open2 \/ (name \in names /\ p[2] = <<id, name>>)
  PROVE  Leads(id, EnsureOneTransferred(name, names, id), keeps, open, keeps, open2)
<1>1. CASE name \notin names
  BY <1>1, NothingLeads DEF EnsureOneTransferred
<1>2. CASE name \in names
  BY <1>2, TransferredLeads DEF EnsureOneTransferred
<1> QED BY <1>1, <1>2

\* The waits for the transfers of a request.
LEMMA EnsuresLead ==
  ASSUME NEW id \in Ids, NEW names, NEW keeps, NEW open, NEW open2
  PROVE  /\ (\A p \in open : p \in open2 \/ ("decoder" \in names /\ p[2] = <<id, "decoder">>))
              => Leads(id, EnsureDecoder(names, id), keeps, open, keeps, open2)
         /\ (\A p \in open : \/ p \in open2 \/ ("inits" \in names /\ p[2] = <<id, "inits">>)
                             \/ ("trace" \in names /\ p[2] = <<id, "trace">>))
              => Leads(id, EnsureData(names, id), keeps, open, keeps, open2)
<1>1. "decoder" \in Names /\ "inits" \in Names /\ "trace" \in Names
  BY DEF Names, Parts
<1>2. ASSUME \A p \in open : p \in open2 \/ ("decoder" \in names /\ p[2] = <<id, "decoder">>)
      PROVE  Leads(id, EnsureDecoder(names, id), keeps, open, keeps, open2)
  BY <1>1, <1>2, EnsureOneLeads DEF EnsureDecoder
<1>3. ASSUME \A p \in open : \/ p \in open2 \/ ("inits" \in names /\ p[2] = <<id, "inits">>)
                             \/ ("trace" \in names /\ p[2] = <<id, "trace">>)
      PROVE  Leads(id, EnsureData(names, id), keeps, open, keeps, open2)
  <2>1. PICK open1 : open1 = {p \in open : p \in open2 \/ ("trace" \in names /\ p[2] = <<id, "trace">>)}
    OBVIOUS
  <2>2. Leads(id, EnsureOneTransferred("inits", names, id), keeps, open, keeps, open1)
    <3>1. \A p \in open : p \in open1 \/ ("inits" \in names /\ p[2] = <<id, "inits">>)
      BY <1>3, <2>1
    <3> QED BY <1>1, <3>1, EnsureOneLeads
  <2>3. Leads(id, EnsureOneTransferred("trace", names, id), keeps, open1, keeps, open2)
    <3>1. \A p \in open1 : p \in open2 \/ ("trace" \in names /\ p[2] = <<id, "trace">>)
      BY <2>1
    <3> QED BY <1>1, <3>1, EnsureOneLeads
  <2> QED BY <2>2, <2>3, LeadsOn DEF EnsureData
<1> QED BY <1>2, <1>3

\* What other requests have in buffers that this one does not use.
Elsewhere(kept, device) ==
  kept \in SUBSET (Device \X Data) /\ \A p \in kept : \A n \in DOMAIN device : p[1] # device[n]

\* The data and the blocks of a job.
LEMMA JobData ==
  ASSUME NEW id \in Ids
  PROVE  /\ \A n \in Names : <<id, n>> \in Data
         /\ <<id, "setup caps">> \in Data /\ <<id, "memory">> \in Data /\ <<id, "extended">> \in Data
         /\ <<id, "witness">> \in Data /\ <<id, "stages">> \in Data /\ <<id, "result">> \in Data
         /\ HostCaps \in Blocks /\ HostCaps \notin Device /\ Device \subseteq Blocks
         /\ "setup" \in Names /\ "decoder" \in Names /\ "caps" \in Names
<1>1. \A name \in Names \cup {"setup caps", "memory", "extended", "witness", "stages", "result"} :
        <<id, name>> \in Data
  BY DEF Data
<1>2. HostCaps \in Blocks /\ HostCaps \notin Device /\ Device \subseteq Blocks
  BY DEF HostCaps, Blocks, Device
<1>3. "setup" \in Names /\ "decoder" \in Names /\ "caps" \in Names
  BY DEF Names, Parts
<1> QED BY <1>1, <1>2, <1>3

\* A commitment finds its inputs and leaves alone what others keep.
LEMMA CommitLeads ==
  ASSUME NEW r \in Requests, NEW device \in [r.parts -> Device],
         NEW held, NEW memory \in Device, memory = Alloc("Bottom", 1, held, even_odd_index = 0),
         NEW kept, Elsewhere(kept, device), \A p \in kept : p[1] # memory
  PROVE  /\ Leads(r.id, EnsureDecoder(r.parts, r.id) ++ Commit(r, device, held),
                  kept \cup Inputs(r.parts, r.id, device), kept \cup Inputs(r.parts, r.id, device), kept, kept)
         /\ Calls(EnsureDecoder(r.parts, r.id) ++ Commit(r, device, held), r.id)
         /\ Ends(EnsureDecoder(r.parts, r.id) ++ Commit(r, device, held), r.id)
<1>1. PICK id \in Ids, parts \in SUBSET Parts : id = r.id /\ parts = r.parts
  BY DEF Requests
<1>2. PICK inputs : inputs = Inputs(parts, id, device)
  OBVIOUS
<1>3. inputs \in SUBSET (Device \X Data)
  <2>1. SUFFICES ASSUME NEW n \in parts PROVE <<device[n], <<id, n>>>> \in Device \X Data
    BY <1>2 DEF Inputs
  <2> QED BY <1>1, <2>1, JobData, BufferedNames
<1>4. /\ kept \in SUBSET (Device \X Data) /\ \A p \in kept : p[1] \in Device /\ p[1] # memory
      /\ \A p \in kept : \A n \in parts : p[1] # device[n]
  BY <1>1 DEF Elsewhere
<1>5. \A p \in kept : \A q \in inputs : p[1] # q[1]
  <2>1. \A n \in parts : <<device[n], <<id, n>>>>[1] = device[n]
    OBVIOUS
  <2> QED BY <1>2, <1>4, <2>1 DEF Inputs
<1> DEFINE in == <<memory, <<id, "memory">>>>
           out == <<HostCaps, <<id, "result">>>>
           open1 == {p \in kept \cup inputs : p[2] # <<id, "decoder">> \/ p \in kept}
           w0 == EnsureDecoder(parts, id)
           w1 == EnsureData(parts, id)
           w2 == Kernel(inputs, <<id, "memory">>, memory)
           w3 == Kernel({in}, <<id, "result">>, HostCaps)
           w4 == Callback({out}, id)
           w5 == Record("exec", <<"job", "is_finished">>, id)
<1>6. Leads(id, w0, kept \cup inputs, kept \cup inputs, kept \cup inputs, open1)
  <2>1. \A p \in kept \cup inputs : p \in open1 \/ ("decoder" \in parts /\ p[2] = <<id, "decoder">>)
    <3>1. \A n \in parts : <<device[n], <<id, n>>>>[2] = <<id, "decoder">> => n = "decoder"
      OBVIOUS
    <3> QED BY <1>2, <3>1 DEF Inputs
  <2> HIDE DEF open1
  <2> QED BY <2>1, EnsuresLead
<1>7. Leads(id, w1, kept \cup inputs, open1, kept \cup inputs, kept)
  <2>1. \A p \in open1 : \/ p \in kept \/ ("inits" \in parts /\ p[2] = <<id, "inits">>)
                         \/ ("trace" \in parts /\ p[2] = <<id, "trace">>)
    <3>1. \A n \in parts : n \in {"decoder", "inits", "trace"} /\ <<device[n], <<id, n>>>>[2] = <<id, n>>
      BY DEF Parts
    <3> QED BY <1>2, <3>1 DEF Inputs
  <2> HIDE DEF open1
  <2> QED BY <2>1, EnsuresLead
<1> HIDE DEF open1
<1>8. Leads(id, w2, kept \cup inputs, kept, kept \cup {in}, kept)
  <2>1. \A p \in kept : p[1] # memory /\ \A q \in inputs : p[1] # q[1]
    BY <1>4, <1>5
  <2>2. PICK k, k2 : k = kept \cup inputs /\ k2 = kept \cup {in}
    OBVIOUS
  <2>3. \A p \in k2 : (p \in k /\ p[1] # memory) \/ p = <<memory, <<id, "memory">>>>
    BY <1>4, <2>2
  <2>4. <<id, "memory">> \in Data /\ memory \in Blocks /\ inputs \subseteq k
    BY <2>2, JobData
  <2> QED BY <1>3, <2>1, <2>2, <2>3, <2>4, KernelLeads
<1>9. Leads(id, w3, kept \cup {in}, kept, kept \cup {out}, kept)
  <2>1. \A p \in kept : p[1] # HostCaps /\ \A q \in {in} : p[1] # q[1]
    <3>1. in[1] = memory /\ \A q \in {in} : q = in
      OBVIOUS
    <3> HIDE DEF in
    <3> QED BY <1>4, <3>1, JobData
  <2>2. PICK k, k2 : k = kept \cup {in} /\ k2 = kept \cup {out}
    OBVIOUS
  <2>3. \A p \in k2 : (p \in k /\ p[1] # HostCaps) \/ p = <<HostCaps, <<id, "result">>>>
    BY <2>1, <2>2
  <2>4. <<id, "result">> \in Data /\ HostCaps \in Blocks /\ {in} \in SUBSET (Device \X Data) /\ {in} \subseteq k
    <3>1. in \in Device \X Data
      BY JobData
    <3> HIDE DEF in
    <3> QED BY <2>2, <3>1, JobData
  <2> QED BY <2>1, <2>2, <2>3, <2>4, KernelLeads
<1>10. Leads(id, w4, kept \cup {out}, kept, kept \cup {out}, kept) /\ Calls(w4, id)
  <2>1. \A p \in kept : p[1] # HostCaps
    BY <1>4, JobData
  <2>2. {out} \in SUBSET ({HostCaps} \X Data) /\ {out} \subseteq kept \cup {out}
    <3>1. out \in {HostCaps} \X Data
      BY JobData
    <3> HIDE DEF out
    <3> QED BY <3>1
  <2> QED BY <2>1, <2>2, CallbackLeads
<1>11. /\ Leads(id, w5, kept \cup {out}, kept, kept \cup {out}, kept)
       /\ Ends(w5, id)
  BY EventLeads, FinishedEnds
<1>12. Commit(r, device, held) = (((w1 ++ w2) ++ w3) ++ w4) ++ w5
  BY <1>1, <1>2 DEF Commit
<1> HIDE DEF in, out, w0, w1, w2, w3, w4, w5
<1>13. Leads(id, w1 ++ w2, kept \cup inputs, open1, kept \cup {in}, kept)
  BY <1>7, <1>8, LeadsOn
<1>14. Leads(id, (w1 ++ w2) ++ w3, kept \cup inputs, open1, kept \cup {out}, kept)
  BY <1>9, <1>13, LeadsOn
<1>15. Leads(id, ((w1 ++ w2) ++ w3) ++ w4, kept \cup inputs, open1, kept \cup {out}, kept)
  BY <1>10, <1>14, LeadsOn
<1>16. Leads(id, (((w1 ++ w2) ++ w3) ++ w4) ++ w5, kept \cup inputs, open1, kept \cup {out}, kept)
  BY <1>11, <1>15, LeadsOn
<1>17. Leads(id, w0 ++ ((((w1 ++ w2) ++ w3) ++ w4) ++ w5),
             kept \cup inputs, kept \cup inputs, kept \cup {out}, kept)
  BY <1>6, <1>16, LeadsOn
<1>18. Leads(id, w0 ++ ((((w1 ++ w2) ++ w3) ++ w4) ++ w5), kept \cup inputs, kept \cup inputs, kept, kept)
  BY <1>17, LeadsLess
<1>19. Calls(((w1 ++ w2) ++ w3) ++ w4, id)
  BY <1>10, <1>14, BelongsOn DEF Leads
<1>20. /\ Calls((((w1 ++ w2) ++ w3) ++ w4) ++ w5, id)
       /\ Ends((((w1 ++ w2) ++ w3) ++ w4) ++ w5, id)
  BY <1>11, <1>15, <1>19, ClosesOn DEF Leads
<1>21. /\ Calls(w0 ++ ((((w1 ++ w2) ++ w3) ++ w4) ++ w5), id)
       /\ Ends(w0 ++ ((((w1 ++ w2) ++ w3) ++ w4) ++ w5), id)
  BY <1>6, <1>16, <1>20, ClosesOn DEF Leads
<1> QED BY <1>1, <1>2, <1>12, <1>18, <1>21 DEF w0

\* A proof finds its inputs, even where buffers it has dropped are taken again,
\* and leaves alone what others keep.
LEMMA ProveLeads ==
  ASSUME NEW r \in Requests, r.proof, NEW device \in [Needed(r) -> Device], Apart(device),
         NEW held, NEW holder \in Device, holder = Alloc("Bottom", 1, held, even_odd_index = 0),
         NEW scratch \in Device, scratch # holder, scratch # device["setup"],
         \A n \in Needed(r) : device[n] # holder,
         NEW kept, Elsewhere(kept, device), \A p \in kept : p[1] # holder /\ p[1] # scratch
  PROVE  /\ Calls(EnsureDecoder(r.parts, r.id) ++ Prove(r, device, held, scratch), r.id)
         /\ Ends(EnsureDecoder(r.parts, r.id) ++ Prove(r, device, held, scratch), r.id)
         /\ Leads(r.id, EnsureDecoder(r.parts, r.id) ++ Prove(r, device, held, scratch),
               kept \cup Inputs(Needed(r), r.id, device), kept \cup Inputs(Needed(r), r.id, device), kept, kept)
<1>1. PICK id \in Ids, parts \in SUBSET Parts : id = r.id /\ parts = r.parts
  BY DEF Requests
<1>2. PICK names : names = Needed(r)
  OBVIOUS
<1>3. names = parts \cup {"setup"} /\ "setup" \notin parts
  BY <1>1, <1>2 DEF Needed, Parts
<1>4. PICK buffer \in Device : buffer = device["setup"]
  BY <1>2, <1>3
<1>5. PICK inputs, data : inputs = Inputs(names, id, device) /\ data = Inputs(parts, id, device)
  OBVIOUS
<1>6. data \in SUBSET (Device \X Data)
  <2>1. SUFFICES ASSUME NEW n \in parts PROVE <<device[n], <<id, n>>>> \in Device \X Data
    BY <1>5 DEF Inputs
  <2> QED BY <1>1, <1>2, <1>3, <2>1, JobData, BufferedNames
<1>7. \A n \in names : <<device[n], <<id, n>>>>[1] = device[n] /\ <<device[n], <<id, n>>>>[2] = <<id, n>>
  OBVIOUS
<1>8. \A q \in data : q[1] # buffer /\ q[1] # holder
  <2>1. \A n \in parts : device[n] # buffer /\ device[n] # holder
    BY <1>2, <1>3, <1>4 DEF Apart
  <2> QED BY <1>3, <1>5, <1>7, <2>1 DEF Inputs
<1>9. inputs = data \cup {<<buffer, <<id, "setup">>>>}
  BY <1>3, <1>4, <1>5 DEF Inputs
<1>10. /\ kept \in SUBSET (Device \X Data)
       /\ \A p \in kept : p[1] \in Device /\ p[1] # holder /\ p[1] # scratch /\ p[1] # buffer /\ p[1] # HostCaps
       /\ \A p \in kept : \A q \in data : p[1] # q[1]
  <2>1. kept \in SUBSET (Device \X Data) /\ \A p \in kept : p[1] \in Device /\ p[1] # HostCaps
    BY JobData DEF Elsewhere
  <2>2. \A p \in kept : \A n \in names : p[1] # device[n]
    BY <1>2 DEF Elsewhere
  <2>3. \A p \in kept : p[1] # buffer
    BY <1>3, <1>4, <2>2
  <2>4. \A p \in kept : \A q \in data : p[1] # q[1]
    BY <1>3, <1>5, <1>7, <2>2 DEF Inputs
  <2> QED BY <2>1, <2>3, <2>4
<1> DEFINE setup == <<buffer, <<id, "setup">>>>
           extended == <<buffer, <<id, "extended">>>>
           trace == <<holder, <<id, "witness">>>>
           stages == <<scratch, <<id, "stages">>>>
           out == <<HostCaps, <<id, "result">>>>
           open0 == kept \cup {p \in inputs : p[2] # <<id, "decoder">>}
           open1 == kept \cup {p \in data : p[2] # <<id, "decoder">>}
           w0 == EnsureDecoder(parts, id)
           w1 == EnsureTransferred("setup", id)
           w2 == Kernel({setup}, <<id, "extended">>, buffer)
           w3 == EnsureData(parts, id)
           w4 == Kernel(data \cup {extended}, <<id, "witness">>, holder)
           w5 == Kernel({extended, trace}, <<id, "stages">>, scratch)
           w6 == Kernel({extended, trace, stages}, <<id, "result">>, HostCaps)
           w7 == Callback({out}, id)
           w8 == Record("exec", <<"job", "spill">>, id)
           w9 == Wait("h2d", <<"job", "spill">>, id)
           w10 == Record("exec", <<"job", "is_finished">>, id)
<1>11. /\ setup \in Device \X Data /\ extended \in Device \X Data /\ trace \in Device \X Data
       /\ stages \in Device \X Data /\ out \in {HostCaps} \X Data
       /\ setup[1] = buffer /\ extended[1] = buffer /\ trace[1] = holder /\ stages[1] = scratch
       /\ setup[2] = <<id, "setup">>
  BY JobData
<1>12. Leads(id, w0, kept \cup inputs, kept \cup inputs, kept \cup inputs, open0)
  <2>1. \A p \in kept \cup inputs : p \in open0 \/ ("decoder" \in parts /\ p[2] = <<id, "decoder">>)
    <3>1. \A n \in names : <<device[n], <<id, n>>>>[2] = <<id, "decoder">> => n = "decoder"
      OBVIOUS
    <3>2. \A p \in inputs : p[2] = <<id, "decoder">> => "decoder" \in names
      BY <1>5, <3>1 DEF Inputs
    <3> QED BY <1>3, <3>2
  <2> HIDE DEF open0
  <2> QED BY <2>1, EnsuresLead
<1>13. Leads(id, w1, kept \cup inputs, open0, kept \cup inputs, open1)
  <2>1. \A p \in open0 : p[2] # <<id, "setup">> => p \in open1
    BY <1>9, <1>11
  <2> HIDE DEF open0, open1
  <2> QED BY <2>1, JobData, TransferredLeads
<1>14. Leads(id, w2, kept \cup inputs, open1, kept \cup data \cup {extended}, open1)
  <2>1. \A p \in open1 : p[1] # buffer /\ \A q \in {setup} : p[1] # q[1]
    <3>1. \A p \in open1 : p[1] # buffer
      BY <1>8, <1>10
    <3> QED BY <1>11, <3>1
  <2>2. PICK k, k2 : k = kept \cup inputs /\ k2 = kept \cup data \cup {extended}
    OBVIOUS
  <2>3. \A p \in k2 : (p \in k /\ p[1] # buffer) \/ p = <<buffer, <<id, "extended">>>>
    BY <1>8, <1>9, <1>10, <2>2
  <2>4. <<id, "extended">> \in Data /\ buffer \in Blocks /\ {setup} \in SUBSET (Device \X Data) /\ {setup} \subseteq k
    BY <1>9, <1>11, <2>2, JobData
  <2> HIDE DEF setup, open1
  <2>5. Leads(id, Kernel({setup}, <<id, "extended">>, buffer), k, open1, k2, open1)
    BY <2>1, <2>3, <2>4, KernelLeads
  <2> QED BY <2>2, <2>5
<1>15. Leads(id, w3, kept \cup data \cup {extended}, open1, kept \cup data \cup {extended}, kept)
  <2>1. \A p \in open1 : \/ p \in kept \/ ("inits" \in parts /\ p[2] = <<id, "inits">>)
                         \/ ("trace" \in parts /\ p[2] = <<id, "trace">>)
    <3>1. \A n \in parts : n \in {"decoder", "inits", "trace"} /\ <<device[n], <<id, n>>>>[2] = <<id, n>>
      BY DEF Parts
    <3> QED BY <1>5, <3>1 DEF Inputs
  <2> HIDE DEF open1
  <2> QED BY <2>1, EnsuresLead
<1> HIDE DEF open0, open1
<1>16. Leads(id, w4, kept \cup data \cup {extended}, kept, kept \cup {extended, trace}, kept)
  <2>1. \A p \in kept : p[1] # holder /\ \A q \in data \cup {extended} : p[1] # q[1]
    BY <1>10, <1>11
  <2>2. PICK k, k2, reads : /\ k = kept \cup data \cup {extended} /\ k2 = kept \cup {extended, trace}
                            /\ reads = data \cup {extended}
    OBVIOUS
  <2>3. buffer # holder
    BY <1>2, <1>3, <1>4
  <2>4. \A p \in k2 : (p \in k /\ p[1] # holder) \/ p = <<holder, <<id, "witness">>>>
    BY <1>10, <1>11, <2>2, <2>3
  <2>5. <<id, "witness">> \in Data /\ holder \in Blocks /\ reads \in SUBSET (Device \X Data) /\ reads \subseteq k
    BY <1>6, <1>11, <2>2, JobData
  <2>6. Leads(id, Kernel(reads, <<id, "witness">>, holder), k, kept, k2, kept)
    BY <2>1, <2>2, <2>4, <2>5, KernelLeads
  <2> QED BY <2>2, <2>6
<1>17. Leads(id, w5, kept \cup {extended, trace}, kept, kept \cup {extended, trace, stages}, kept)
  <2>1. \A p \in kept : p[1] # scratch /\ \A q \in {extended, trace} : p[1] # q[1]
    BY <1>10, <1>11
  <2>2. PICK k, k2, reads : /\ k = kept \cup {extended, trace} /\ k2 = kept \cup {extended, trace, stages}
                            /\ reads = {extended, trace}
    OBVIOUS
  <2>3. buffer # scratch /\ holder # scratch
    BY <1>4
  <2>4. \A p \in k2 : (p \in k /\ p[1] # scratch) \/ p = <<scratch, <<id, "stages">>>>
    BY <1>10, <1>11, <2>2, <2>3
  <2>5. <<id, "stages">> \in Data /\ scratch \in Blocks /\ reads \in SUBSET (Device \X Data) /\ reads \subseteq k
    BY <1>11, <2>2, JobData
  <2>6. Leads(id, Kernel(reads, <<id, "stages">>, scratch), k, kept, k2, kept)
    BY <2>1, <2>2, <2>4, <2>5, KernelLeads
  <2> QED BY <2>2, <2>6
<1>18. Leads(id, w6, kept \cup {extended, trace, stages}, kept, kept \cup {out}, kept)
  <2>1. \A p \in kept : p[1] # HostCaps /\ \A q \in {extended, trace, stages} : p[1] # q[1]
    BY <1>10, <1>11
  <2>2. PICK k, k2, reads : /\ k = kept \cup {extended, trace, stages} /\ k2 = kept \cup {out}
                            /\ reads = {extended, trace, stages}
    OBVIOUS
  <2>3. \A p \in k2 : (p \in k /\ p[1] # HostCaps) \/ p = <<HostCaps, <<id, "result">>>>
    BY <1>10, <2>2
  <2>4. <<id, "result">> \in Data /\ HostCaps \in Blocks /\ reads \in SUBSET (Device \X Data) /\ reads \subseteq k
    BY <1>11, <2>2, JobData
  <2>5. Leads(id, Kernel(reads, <<id, "result">>, HostCaps), k, kept, k2, kept)
    BY <2>1, <2>2, <2>3, <2>4, KernelLeads
  <2> QED BY <2>2, <2>5
<1>19. Leads(id, w7, kept \cup {out}, kept, kept \cup {out}, kept) /\ Calls(w7, id)
  <2>1. \A p \in kept : p[1] # HostCaps
    BY <1>10
  <2>2. PICK reads : reads = {out}
    OBVIOUS
  <2>3. reads \in SUBSET ({HostCaps} \X Data) /\ reads \subseteq kept \cup {out}
    BY <1>11, <2>2
  <2>4. /\ Leads(id, Callback(reads, id), kept \cup {out}, kept, kept \cup {out}, kept)
        /\ Calls(Callback(reads, id), id)
    BY <2>1, <2>3, CallbackLeads
  <2> QED BY <2>2, <2>4
<1>20. /\ Leads(id, w8, kept \cup {out}, kept, kept \cup {out}, kept)
       /\ Leads(id, w9, kept \cup {out}, kept, kept \cup {out}, kept)
       /\ Leads(id, w10, kept \cup {out}, kept, kept \cup {out}, kept)
       /\ Ends(w10, id)
  BY EventLeads, FinishedEnds
<1>21. Prove(r, device, held, scratch)
         = ((((((((w1 ++ w2) ++ w3) ++ w4) ++ w5) ++ w6) ++ w7) ++ w8) ++ w9) ++ w10
  BY <1>1, <1>4, <1>5 DEF Prove
<1> HIDE DEF setup, extended, trace, stages, out, w0, w1, w2, w3, w4, w5, w6, w7, w8, w9, w10
<1> DEFINE v3 == (w1 ++ w2) ++ w3
           v5 == (v3 ++ w4) ++ w5
           v7 == (v5 ++ w6) ++ w7
           v9 == (v7 ++ w8) ++ w9
<1>22. Leads(id, v3, kept \cup inputs, open0, kept \cup data \cup {extended}, kept)
  <2>1. Leads(id, w1 ++ w2, kept \cup inputs, open0, kept \cup data \cup {extended}, open1)
    BY <1>13, <1>14, LeadsOn
  <2> QED BY <1>15, <2>1, LeadsOn
<1> HIDE DEF v3
<1>23. Leads(id, v5, kept \cup inputs, open0, kept \cup {extended, trace, stages}, kept)
  <2>1. Leads(id, v3 ++ w4, kept \cup inputs, open0, kept \cup {extended, trace}, kept)
    BY <1>16, <1>22, LeadsOn
  <2> QED BY <1>17, <2>1, LeadsOn
<1> HIDE DEF v5
<1>24. Leads(id, v7, kept \cup inputs, open0, kept \cup {out}, kept) /\ Calls(v7, id)
  <2>1. Leads(id, v5 ++ w6, kept \cup inputs, open0, kept \cup {out}, kept)
    BY <1>18, <1>23, LeadsOn
  <2>2. Calls((v5 ++ w6) ++ w7, id)
    BY <1>19, <2>1, BelongsOn DEF Leads
  <2> QED BY <1>19, <2>1, <2>2, LeadsOn
<1> HIDE DEF v7
<1>25. Leads(id, v9, kept \cup inputs, open0, kept \cup {out}, kept) /\ Calls(v9, id)
  <2>1. Leads(id, v7 ++ w8, kept \cup inputs, open0, kept \cup {out}, kept)
    BY <1>20, <1>24, LeadsOn
  <2>2. Calls(v7 ++ w8, id)
    BY <1>20, <1>24, BelongsOn DEF Leads
  <2>3. Calls((v7 ++ w8) ++ w9, id)
    BY <1>20, <2>1, <2>2, BelongsOn DEF Leads
  <2> QED BY <1>20, <2>1, <2>3, LeadsOn
<1> HIDE DEF v9
<1>26. Leads(id, v9 ++ w10, kept \cup inputs, open0, kept \cup {out}, kept)
  BY <1>20, <1>25, LeadsOn
<1>27. Leads(id, w0 ++ (v9 ++ w10), kept \cup inputs, kept \cup inputs, kept \cup {out}, kept)
  BY <1>12, <1>26, LeadsOn
<1>28. Leads(id, w0 ++ (v9 ++ w10), kept \cup inputs, kept \cup inputs, kept, kept)
  BY <1>27, LeadsLess
<1>29. Calls(v9 ++ w10, id) /\ Ends(v9 ++ w10, id)
  BY <1>20, <1>25, ClosesOn DEF Leads
<1>30. Calls(w0 ++ (v9 ++ w10), id) /\ Ends(w0 ++ (v9 ++ w10), id)
  BY <1>12, <1>26, <1>29, ClosesOn DEF Leads
<1> QED BY <1>1, <1>2, <1>5, <1>21, <1>28, <1>30 DEF w0, v3, v5, v7, v9

\* The first setup of a circuit leaves alone what others keep.
LEMMA CapsLead ==
  ASSUME NEW id \in Ids, NEW block \in Device,
         NEW kept \in SUBSET (Device \X Data), \A p \in kept : p[1] # block
  PROVE  Leads(id, Transfer("caps", id, block) ++ EnsureTransferred("caps", id)
                 ++ Kernel({<<block, <<id, "caps">>>>}, <<id, "setup caps">>, HostCaps),
               kept, kept, kept, kept)
<1> DEFINE caps == <<block, <<id, "caps">>>>
           w1 == Transfer("caps", id, block)
           w2 == EnsureTransferred("caps", id)
           w3 == Kernel({caps}, <<id, "setup caps">>, HostCaps)
<1>1. caps \in Device \X Data /\ caps[1] = block /\ caps[2] = <<id, "caps">>
  BY JobData
<1>2. Leads(id, w1, kept, kept, kept \cup {caps}, kept \cup {caps})
  <2>1. PICK k : k = kept \cup {caps}
    OBVIOUS
  <2>2. \A p \in k : (p \in kept /\ p[1] # block) \/ p = <<block, <<id, "caps">>>>
    BY <2>1
  <2>3. kept \subseteq k /\ <<block, <<id, "caps">>>> \in k /\ "caps" \in Names
    BY <2>1, JobData
  <2>4. Leads(id, Transfer("caps", id, block), kept, kept, k, k)
    BY <2>2, <2>3, TransferLeads
  <2> QED BY <2>1, <2>4
<1>3. Leads(id, w2, kept \cup {caps}, kept \cup {caps}, kept \cup {caps}, kept)
  <2>1. \A p \in kept \cup {caps} : p[2] # <<id, "caps">> => p \in kept
    BY <1>1
  <2> HIDE DEF caps
  <2> QED BY <2>1, JobData, TransferredLeads
<1>4. Leads(id, w3, kept \cup {caps}, kept, kept, kept)
  <2>1. \A p \in kept : p[1] \in Device /\ p[1] # HostCaps
    BY JobData
  <2>2. \A p \in kept : p[1] # HostCaps /\ \A q \in {caps} : p[1] # q[1]
    BY <1>1, <2>1
  <2>3. PICK k, reads : k = kept \cup {caps} /\ reads = {caps}
    OBVIOUS
  <2>4. \A p \in kept : (p \in k /\ p[1] # HostCaps) \/ p = <<HostCaps, <<id, "setup caps">>>>
    BY <2>1, <2>3
  <2>5. <<id, "setup caps">> \in Data /\ HostCaps \in Blocks /\ reads \in SUBSET (Device \X Data) /\ reads \subseteq k
    BY <1>1, <2>3, JobData
  <2>6. Leads(id, Kernel(reads, <<id, "setup caps">>, HostCaps), k, kept, kept, kept)
    BY <2>2, <2>3, <2>4, <2>5, KernelLeads
  <2> QED BY <2>3, <2>6
<1> HIDE DEF w1, w2, w3, caps
<1>5. Leads(id, w1 ++ w2, kept, kept, kept \cup {caps}, kept)
  BY <1>2, <1>3, LeadsOn
<1>6. Leads(id, (w1 ++ w2) ++ w3, kept, kept, kept, kept)
  BY <1>4, <1>5, LeadsOn
<1> QED BY <1>6 DEF w1, w2, w3, caps

-----------------------------------------------------------------------------
(* The ends of jobs in the exec stream.                                    *)

\* Whatever waits for a copy has the end of its job behind it.
AllClosed(e) ==
  \A k \in 1..Len(e) :
    e[k].op = "wait" => \E m \in 1..Len(e) : k < m /\ IsRecord(e[m], Finished(e[k].event[2]))

\* The callback of a job comes before its end.
Promised(e, id) ==
  \E k, m \in 1..Len(e) : k < m /\ e[k].op = "callback" /\ e[k].id = id /\ IsRecord(e[m], Finished(id))

\* No copy is one of a request in `done`.
Spares(h, done) == \A j \in 1..Len(h) : h[j].op = "copy" => h[j].data[1] \notin done

\* The queue q1 gets q2 behind it and becomes q.
Appends(q1, q2, q) ==
  /\ Len(q1) \in Nat /\ Len(q2) \in Nat /\ Len(q) = Len(q1) + Len(q2)
  /\ \A k \in 1..Len(q1) : k \in 1..Len(q) /\ q[k] = q1[k]
  /\ \A k \in 1..Len(q) : \/ k \in 1..Len(q1) /\ q[k] = q1[k]
                          \/ \E i \in 1..Len(q2) : k = Len(q1) + i /\ q[k] = q2[i]
  /\ \A i \in 1..Len(q2) : \E k \in 1..Len(q) : k = Len(q1) + i /\ q[k] = q2[i]

\* Work is put behind the queue of each stream.
LEMMA WorkAppends ==
  ASSUME NEW w1 \in Work, NEW w2 \in Work, NEW s \in Streams, NEW w, w = w1 ++ w2
  PROVE  Appends(w1[s], w2[s], w[s])
<1>1. /\ Len(w1[s]) \in Nat /\ Len(w2[s]) \in Nat
      /\ Len((w1 ++ w2)[s]) = Len(w1[s]) + Len(w2[s])
      /\ \A k \in 1..Len(w1[s]) : k \in 1..Len((w1 ++ w2)[s]) /\ (w1 ++ w2)[s][k] = w1[s][k]
      /\ \A k \in 1..Len((w1 ++ w2)[s]) :
           \/ k \in 1..Len(w1[s]) /\ (w1 ++ w2)[s][k] = w1[s][k]
           \/ /\ Len(w1[s]) < k
              /\ \E i \in 1..Len(w2[s]) : k = Len(w1[s]) + i /\ (w1 ++ w2)[s][k] = w2[s][i]
      /\ \A i \in 1..Len(w2[s]) :
           \E k \in 1..Len((w1 ++ w2)[s]) : k = Len(w1[s]) + i /\ (w1 ++ w2)[s][k] = w2[s][i]
  BY WorkIndexed
<1>2. \A k \in 1..Len(w1[s]) : k \in 1..Len(w[s]) /\ w[s][k] = w1[s][k]
  BY <1>1
<1>3. \A k \in 1..Len(w[s]) : \/ k \in 1..Len(w1[s]) /\ w[s][k] = w1[s][k]
                              \/ \E i \in 1..Len(w2[s]) : k = Len(w1[s]) + i /\ w[s][k] = w2[s][i]
  BY <1>1
<1>4. \A i \in 1..Len(w2[s]) : \E k \in 1..Len(w[s]) : k = Len(w1[s]) + i /\ w[s][k] = w2[s][i]
  BY <1>1
<1>5. Len(w1[s]) \in Nat /\ Len(w2[s]) \in Nat /\ Len(w[s]) = Len(w1[s]) + Len(w2[s])
  BY <1>1
<1> QED BY <1>2, <1>3, <1>4, <1>5 DEF Appends

\* Whatever waits still has its end behind it: new work waits for nothing, or
\* ends.
LEMMA WorkCloses ==
  ASSUME NEW st \in Work, NEW w, NEW id, Belongs(w, id), AllClosed(st["exec"]), Quiet(w) \/ Ends(w, id)
  PROVE  AllClosed((st ++ w)["exec"])
<1>1. PICK e, x, r : e = st["exec"] /\ x = w["exec"] /\ r = (st ++ w)["exec"]
  OBVIOUS
<1>2. Appends(e, x, r)
  <2>1. w \in Work /\ "exec" \in Streams
    BY DEF Belongs, Streams
  <2>2. PICK sum : sum = st ++ w
    OBVIOUS
  <2> QED BY <1>1, <2>1, <2>2, WorkAppends
<1>3. /\ \A k \in 1..Len(x) : x[k].op = "wait" => x[k].event[2] = id
      /\ (\A k \in 1..Len(x) : x[k].op # "wait") \/ (Len(x) \in 1..Len(x) /\ IsRecord(x[Len(x)], Finished(id)))
  BY <1>1 DEF Belongs, Quiet, Ends
<1>4. SUFFICES ASSUME NEW k \in 1..Len(r), r[k].op = "wait"
               PROVE  \E m \in 1..Len(r) : k < m /\ IsRecord(r[m], Finished(r[k].event[2]))
  BY <1>1 DEF AllClosed
<1>5. CASE k \in 1..Len(e) /\ r[k] = e[k]
  <2>1. PICK m \in 1..Len(e) : k < m /\ IsRecord(e[m], Finished(e[k].event[2]))
    BY <1>1, <1>4, <1>5 DEF AllClosed
  <2>2. m \in 1..Len(r) /\ r[m] = e[m]
    BY <1>2 DEF Appends
  <2> QED BY <1>5, <2>1, <2>2
<1>6. ASSUME NEW i \in 1..Len(x), k = Len(e) + i, r[k] = x[i]
      PROVE  \E m \in 1..Len(r) : k < m /\ IsRecord(r[m], Finished(r[k].event[2]))
  <2>1. x[i].op = "wait" /\ x[i].event[2] = id
    BY <1>3, <1>4, <1>6
  <2>2. Len(x) \in 1..Len(x) /\ IsRecord(x[Len(x)], Finished(id))
    BY <1>3, <2>1
  <2>3. i # Len(x)
    BY <2>1, <2>2 DEF IsRecord
  <2>4. PICK n : n = Len(x)
    OBVIOUS
  <2>5. n \in 1..Len(x) /\ i < n
    BY <2>2, <2>3, <2>4
  <2>6. PICK m \in 1..Len(r) : m = Len(e) + n /\ r[m] = x[n]
    BY <1>2, <2>5 DEF Appends
  <2>7. k < m
    BY <1>2, <1>6, <2>5, <2>6 DEF Appends
  <2> QED BY <1>6, <2>1, <2>2, <2>4, <2>6, <2>7
<1> QED BY <1>2, <1>5, <1>6 DEF Appends

\* Callbacks keep their ends, and those of new work have them.
LEMMA WorkPromises ==
  ASSUME NEW st \in Work, NEW w \in Work
  PROVE  /\ \A id : Promised(st["exec"], id) => Promised((st ++ w)["exec"], id)
         /\ \A id : Calls(w, id) /\ Ends(w, id) => Promised((st ++ w)["exec"], id)
<1>1. PICK e, x, r : e = st["exec"] /\ x = w["exec"] /\ r = (st ++ w)["exec"]
  OBVIOUS
<1>2. Appends(e, x, r)
  <2>1. "exec" \in Streams
    BY DEF Streams
  <2>2. PICK sum : sum = st ++ w
    OBVIOUS
  <2> QED BY <1>1, <2>1, <2>2, WorkAppends
<1>3. ASSUME NEW id, Promised(e, id) PROVE Promised(r, id)
  BY <1>2, <1>3 DEF Promised, Appends
<1>4. ASSUME NEW id, Calls(w, id), Ends(w, id) PROVE Promised(r, id)
  <2>1. PICK i \in 1..Len(x) : x[i].op = "callback" /\ x[i].id = id
    BY <1>1, <1>4 DEF Calls
  <2>2. PICK n : n = Len(x)
    OBVIOUS
  <2>3. n \in 1..Len(x) /\ IsRecord(x[n], Finished(id))
    BY <1>1, <1>4, <2>2 DEF Ends
  <2>4. i < n
    BY <2>1, <2>2, <2>3 DEF IsRecord
  <2>5. PICK k \in 1..Len(r) : k = Len(e) + i /\ r[k] = x[i]
    BY <1>2 DEF Appends
  <2>6. PICK m \in 1..Len(r) : m = Len(e) + n /\ r[m] = x[n]
    BY <1>2, <2>3 DEF Appends
  <2>7. k < m
    BY <1>2, <2>3, <2>4, <2>5, <2>6 DEF Appends
  <2> QED BY <2>1, <2>3, <2>5, <2>6, <2>7 DEF Promised
<1> QED BY <1>1, <1>3, <1>4

\* New work copies nothing for the requests in `done`.
LEMMA WorkSpares ==
  ASSUME NEW st \in Work, NEW w, NEW id, Belongs(w, id), NEW done, Spares(st["h2d"], done), id \notin done
  PROVE  Spares((st ++ w)["h2d"], done)
<1>1. PICK h, x, r : h = st["h2d"] /\ x = w["h2d"] /\ r = (st ++ w)["h2d"]
  OBVIOUS
<1>2. Appends(h, x, r)
  <2>1. w \in Work /\ "h2d" \in Streams
    BY DEF Belongs, Streams
  <2>2. PICK sum : sum = st ++ w
    OBVIOUS
  <2> QED BY <1>1, <2>1, <2>2, WorkAppends
<1>3. \A j \in 1..Len(x) : x[j].op = "copy" => x[j].data[1] = id
  BY <1>1 DEF Belongs
<1>4. Spares(h, done)
  BY <1>1
<1>5. SUFFICES ASSUME NEW k \in 1..Len(r), r[k].op = "copy" PROVE r[k].data[1] \notin done
  BY <1>1 DEF Spares
<1>6. CASE k \in 1..Len(h) /\ r[k] = h[k]
  BY <1>4, <1>5, <1>6 DEF Spares
<1>7. CASE \E i \in 1..Len(x) : k = Len(h) + i /\ r[k] = x[i]
  BY <1>3, <1>5, <1>7
<1> QED BY <1>2, <1>6, <1>7 DEF Appends

\* Ends and copies when the head of a queue has gone.
LEMMA TailCloses ==
  ASSUME NEW e, NEW e2, Len(e) \in Nat, Len(e2) \in Nat, Dropped(e, e2)
  PROVE  /\ AllClosed(e) => AllClosed(e2)
         /\ \A id : Promised(e, id) /\ ~(e[1].op = "callback" /\ e[1].id = id) => Promised(e2, id)
         /\ \A done : Spares(e, done) => Spares(e2, done)
<1>1. ASSUME NEW k \in 1..Len(e), k # 1 PROVE \E k2 \in 1..Len(e2) : k = k2 + 1 /\ e2[k2] = e[k]
  <2>1. PICK k2 : k2 = k - 1
    OBVIOUS
  <2>2. k2 \in 1..Len(e2) /\ k = k2 + 1
    BY <1>1, <2>1 DEF Dropped
  <2> QED BY <2>2 DEF Dropped
<1>2. ASSUME NEW k2 \in 1..Len(e2) PROVE \E k \in 1..Len(e) : k = k2 + 1 /\ e2[k2] = e[k]
  <2>1. PICK k : k = k2 + 1
    OBVIOUS
  <2>2. k \in 1..Len(e)
    BY <2>1 DEF Dropped
  <2> QED BY <2>1, <2>2 DEF Dropped
<1>3. ASSUME AllClosed(e) PROVE AllClosed(e2)
  <2>1. SUFFICES ASSUME NEW k2 \in 1..Len(e2), e2[k2].op = "wait"
                 PROVE  \E m2 \in 1..Len(e2) : k2 < m2 /\ IsRecord(e2[m2], Finished(e2[k2].event[2]))
    BY DEF AllClosed
  <2>2. PICK k \in 1..Len(e) : k = k2 + 1 /\ e2[k2] = e[k]
    BY <1>2
  <2>3. PICK m \in 1..Len(e) : k < m /\ IsRecord(e[m], Finished(e[k].event[2]))
    BY <1>3, <2>1, <2>2 DEF AllClosed
  <2>4. m # 1
    BY <2>3
  <2>5. PICK m2 \in 1..Len(e2) : m = m2 + 1 /\ e2[m2] = e[m]
    BY <1>1, <2>4
  <2>6. k2 < m2
    BY <2>2, <2>3, <2>5
  <2> QED BY <2>2, <2>3, <2>5, <2>6
<1>4. ASSUME NEW id, Promised(e, id), ~(e[1].op = "callback" /\ e[1].id = id) PROVE Promised(e2, id)
  <2>1. PICK k \in 1..Len(e), m \in 1..Len(e) :
          k < m /\ e[k].op = "callback" /\ e[k].id = id /\ IsRecord(e[m], Finished(id))
    BY <1>4 DEF Promised
  <2>2. k # 1
    BY <1>4, <2>1
  <2>3. PICK k2 \in 1..Len(e2) : k = k2 + 1 /\ e2[k2] = e[k]
    BY <1>1, <2>2
  <2>4. m # 1
    BY <2>1
  <2>5. PICK m2 \in 1..Len(e2) : m = m2 + 1 /\ e2[m2] = e[m]
    BY <1>1, <2>4
  <2>6. k2 < m2
    BY <2>1, <2>3, <2>5
  <2> QED BY <2>1, <2>3, <2>5, <2>6 DEF Promised
<1>5. ASSUME NEW done, Spares(e, done) PROVE Spares(e2, done)
  BY <1>2, <1>5 DEF Spares
<1> QED BY <1>3, <1>4, <1>5

-----------------------------------------------------------------------------
(* The requests of the worker.                                             *)

RequestIds(r) == IF r = None THEN {} ELSE {r.id}
PhaseIds(phase) == IF phase = None THEN {} ELSE {phase.request.id}

IsRequest(r) == r \in Requests /\ r.parts = Circuits[r.id]
IsPhase(phase) ==
  /\ phase \in Phases /\ IsRequest(phase.request)
  /\ phase.device \in [Needed(phase.request) -> Device] /\ Apart(phase.device)

\* What the copies of a phase leave in its buffers.
Stakes(phase) ==
  IF phase = None THEN {} ELSE Inputs(Needed(phase.request), phase.request.id, phase.device)

\* The requests: answered, in the job to be answered, in phase two, on the way
\* from phase one to phase two, in phase one and just received.
Aged(answers, jobs, seconds, movings, firsts, news) ==
  /\ answers \cap (jobs \cup seconds \cup movings \cup firsts \cup news) = {}
  /\ jobs \cap (seconds \cup movings \cup firsts \cup news) = {}
  /\ seconds \cap (movings \cup firsts \cup news) = {}
  /\ movings \cap (firsts \cup news) = {}
  /\ firsts \cap news = {}

\* The parts of a request.
LEMMA RequestTypes ==
  ASSUME NEW r \in Requests
  PROVE  /\ r.id \in Ids /\ r.id \in Int /\ r.proof \in BOOLEAN /\ r.known \in BOOLEAN
         /\ r.parts \in SUBSET Parts /\ r # None
         /\ Needed(r) \in SUBSET Buffered /\ r.parts \subseteq Needed(r) /\ Needed(r) \in SUBSET Names
<1>1. r.id \in Ids /\ r.proof \in BOOLEAN /\ r.known \in BOOLEAN /\ r.parts \in SUBSET Parts
  BY DEF Requests
<1>2. r.id \in Int
  BY <1>1, CircuitsAssumption DEF Ids
<1>3. r # None
  BY NoneAssumption
<1>4. Needed(r) \in SUBSET Buffered /\ r.parts \subseteq Needed(r) /\ Needed(r) \in SUBSET Names
  BY <1>1 DEF Needed, Buffered, Parts, Names
<1> QED BY <1>1, <1>2, <1>3, <1>4

\* How many buffers a request needs.
LEMMA NeededCounts ==
  ASSUME NEW r, IsRequest(r)
  PROVE  /\ IsFiniteSet(Needed(r)) /\ Cardinality(Needed(r)) \in Nat
         /\ Cardinality(Circuits[r.id]) \in Nat
         /\ Cardinality(Needed(r)) <= Cardinality(Circuits[r.id]) + 1
<1>1. r \in Requests /\ r.parts = Circuits[r.id] /\ r.parts \in SUBSET Parts
  BY RequestTypes DEF IsRequest
<1>2. PICK parts : parts = r.parts
  OBVIOUS
<1>3. IsFiniteSet(parts) /\ Cardinality(parts) \in Nat
  <2>1. parts \in SUBSET Buffered
    BY <1>1, <1>2, RequestTypes
  <2> QED BY <2>1, NamesAreCounted, FS_CardinalityType
<1>4. /\ IsFiniteSet(parts \cup {"setup"})
      /\ Cardinality(parts \cup {"setup"}) = IF "setup" \in parts THEN Cardinality(parts) ELSE Cardinality(parts) + 1
  BY <1>3, FS_AddElement
<1>5. Needed(r) = parts \/ Needed(r) = parts \cup {"setup"}
  BY <1>2 DEF Needed
<1>6. IsFiniteSet(Needed(r)) /\ Cardinality(Needed(r)) \in Nat /\ Cardinality(Needed(r)) <= Cardinality(parts) + 1
  BY <1>3, <1>4, <1>5
<1> QED BY <1>1, <1>2, <1>3, <1>6

\* The buffers of a phase.
LEMMA PhaseFacts ==
  ASSUME NEW phase, IsPhase(phase)
  PROVE  /\ phase # None /\ phase.request \in Requests
         /\ Held(phase) = {phase.device[name] : name \in Needed(phase.request)}
         /\ Held(phase) \in SUBSET Device
         /\ Cardinality(Held(phase)) \in Nat
         /\ Cardinality(Held(phase)) <= Cardinality(Circuits[phase.request.id]) + 1
         /\ Stakes(phase) = Inputs(Needed(phase.request), phase.request.id, phase.device)
         /\ Stakes(phase) \in SUBSET (Device \X Data)
         /\ \A p \in Stakes(phase) : p[1] \in Held(phase) /\ p[2][1] = phase.request.id
<1>1. phase # None /\ phase.request \in Requests /\ IsRequest(phase.request)
  BY NoneAssumption DEF IsPhase, IsRequest
<1>2. PICK needed, device, id : needed = Needed(phase.request) /\ device = phase.device /\ id = phase.request.id
  OBVIOUS
<1>3. device \in [needed -> Device]
  BY <1>2 DEF IsPhase
<1>4. id \in Ids /\ needed \in SUBSET Names
  BY <1>1, <1>2, RequestTypes
<1>5. DOMAIN device = needed
  BY <1>3
<1>6. PICK held : held = {device[name] : name \in needed}
  OBVIOUS
<1>7. Held(phase) = held
  BY <1>1, <1>2, <1>5, <1>6 DEF Held
<1>8. held \in SUBSET Device
  BY <1>3, <1>6
<1>9. Cardinality(held) \in Nat /\ Cardinality(held) <= Cardinality(Circuits[id]) + 1
  <2>1. device \in Surjection(needed, held)
    BY <1>3, <1>6 DEF Surjection
  <2>2. /\ IsFiniteSet(needed) /\ Cardinality(needed) \in Nat /\ Cardinality(Circuits[id]) \in Nat
        /\ Cardinality(needed) <= Cardinality(Circuits[id]) + 1
    BY <1>1, <1>2, NeededCounts
  <2>3. IsFiniteSet(held) /\ Cardinality(held) <= Cardinality(needed)
    BY <2>1, <2>2, FS_Surjection
  <2>4. Cardinality(held) \in Nat
    BY <2>3, FS_CardinalityType
  <2> QED BY <2>2, <2>3, <2>4
<1>10. PICK stakes : stakes = {<<device[name], <<id, name>>>> : name \in needed}
  OBVIOUS
<1>11. Stakes(phase) = stakes
  BY <1>1, <1>2, <1>10 DEF Stakes, Inputs
<1>12. stakes \in SUBSET (Device \X Data) /\ \A p \in stakes : p[1] \in held /\ p[2][1] = id
  <2>1. \A name \in needed : <<id, name>> \in Data
    BY <1>4, JobData
  <2>2. \A name \in needed : <<device[name], <<id, name>>>> \in Device \X Data
    BY <1>3, <2>1
  <2>3. \A name \in needed : device[name] \in held
    BY <1>6
  <2> QED BY <1>10, <2>2, <2>3
<1>13. Stakes(phase) = Inputs(Needed(phase.request), phase.request.id, phase.device)
  BY <1>1 DEF Stakes
<1>14. Held(phase) = {phase.device[name] : name \in Needed(phase.request)}
  BY <1>2, <1>6, <1>7
<1>15. Cardinality(Held(phase)) \in Nat /\ Cardinality(Held(phase)) <= Cardinality(Circuits[phase.request.id]) + 1
  BY <1>2, <1>7, <1>9
<1>16. Held(phase) \in SUBSET Device
  BY <1>7, <1>8
<1>17. Stakes(phase) \in SUBSET (Device \X Data)
  BY <1>11, <1>12
<1>18. \A p \in Stakes(phase) : p[1] \in Held(phase) /\ p[2][1] = phase.request.id
  BY <1>2, <1>7, <1>11, <1>12
<1> QED BY ONLY <1>1, <1>13, <1>14, <1>15, <1>16, <1>17, <1>18

\* Nothing has no buffers.
LEMMA NoPhase == Held(None) = {} /\ Stakes(None) = {} /\ PhaseIds(None) = {} /\ RequestIds(None) = {}
BY DEF Held, Stakes, PhaseIds, RequestIds

\* There are buffers for a request, and for two in a row.
LEMMA Room ==
  /\ \A n \in Ids : Cardinality(Circuits[n]) + 2 <= DeviceBlocks
  /\ \A n \in Ids : n + 1 \in Ids => Cardinality(Circuits[n]) + Cardinality(Circuits[n + 1]) + 3 <= DeviceBlocks
<1>1. Len(Circuits) \in Nat /\ Ids = 1..Len(Circuits)
  BY CircuitsAssumption DEF Ids
<1>2. ASSUME NEW n \in Ids, n + 1 \in Ids PROVE n \in 1..(Len(Circuits) - 1)
  BY <1>1, <1>2
<1> QED BY <1>2, DeviceBlocksAssumption DEF Ids

-----------------------------------------------------------------------------
(* The inductive invariant.                                                *)

\* The requests on their way through a round: just received, from phase one to
\* phase two, and to be answered.
New == IF worker \in {"get_trees_and_caps", "synchronize", "phase_one"} THEN request ELSE None
Moving == IF worker = "phase_two" THEN request ELSE None
Job == IF worker = "phase_three" THEN request ELSE None

Kinds ==
  /\ worker \in {"receive", "get_trees_and_caps", "synchronize", "phase_one", "phase_two", "phase_three", "closed"}
  /\ worker \in {"receive", "closed"} => request = None
  /\ worker \in {"get_trees_and_caps", "synchronize"} => request # None
  /\ New # None => IsRequest(New)
  /\ Moving # None => IsPhase(Moving)
  /\ Job # None => Job \in Requests
  /\ phase_one # None => IsPhase(phase_one)
  /\ phase_two # None => phase_two \in Requests
  /\ Held(phase_one) \cap Held(Moving) = {}
  /\ even_odd_index \in {0, 1} /\ requested \in 0..Len(Circuits)
  /\ written \subseteq Ids /\ answered \subseteq Ids

\* Every request is in one place, and those of phase one are in a row.
Ages ==
  /\ Aged(answered, RequestIds(Job), RequestIds(phase_two), PhaseIds(Moving), PhaseIds(phase_one), RequestIds(New))
  /\ answered \cup RequestIds(Job) \cup RequestIds(phase_two) \cup PhaseIds(Moving) \cup PhaseIds(phase_one)
       \cup RequestIds(New) \subseteq 1..requested
  /\ RequestIds(New) \subseteq {requested}
  /\ PhaseIds(phase_one) \subseteq {IF New = None THEN requested ELSE requested - 1}
  /\ PhaseIds(Moving) \subseteq {IF phase_one = None THEN requested ELSE requested - 1}

\* The streams are sound: what the transfers of phase one copy will be in their
\* buffers for the computation, which only has to wait for them.
Stage == LET stakes == Stakes(phase_one) \cup Stakes(Moving) IN Scene(streams, contents, stakes, stakes)

\* Whatever the exec stream waits for has the end of its job behind it, except
\* for the setup that the thread itself waits for.
Waits == worker = "synchronize" \/ AllClosed(streams["exec"])

\* The result of a job is stored, or its callback comes before its end.
Due(id) == id \in written \/ Promised(streams["exec"], id)
Dues == \A id \in RequestIds(phase_two) \cup RequestIds(Job) : Due(id)

\* The copies of answered requests are done.
Spared == Spares(streams["h2d"], answered)

Inv == Kinds /\ Ages /\ Stage /\ Waits /\ Dues /\ Spared

\* Empty queues are sound.
LEMMA EmptyScene == ASSUME NEW c \in [Blocks -> Data \cup {None}], NEW st, st = [s \in Streams |-> <<>>]
                    PROVE  /\ Scene(st, c, {}, {}) /\ AllClosed(st["exec"]) /\ Spares(st["h2d"], {})
<1>1. st["exec"] = <<>> /\ st["h2d"] = <<>>
  BY DEF Streams
<1>2. Len(<<>>) = 0 /\ 1..Len(<<>>) = {}
  OBVIOUS
<1>3. <<>> \in Seq(ExecOps) /\ <<>> \in Seq(H2dOps)
  OBVIOUS
<1>4. Sound(<<>>, <<>>, c)
  BY <1>2, <1>3 DEF Sound, Announced, Ordered, Sourced
<1>5. st \in Work
  BY DEF Work
<1>6. Scene(st, c, {}, {})
  BY <1>1, <1>2, <1>4, <1>5 DEF Scene
<1>7. AllClosed(st["exec"]) /\ Spares(st["h2d"], {})
  BY <1>1, <1>2 DEF AllClosed, Spares
<1> QED BY <1>6, <1>7

\* The worker starts with empty queues and no requests.
LEMMA InitIsFine == Init => Inv
<1> SUFFICES ASSUME Init PROVE Inv
  OBVIOUS
<1>1. New = None /\ Moving = None /\ Job = None
  BY DEF Init, New, Moving, Job
<1>2. /\ Held(None) = {} /\ Stakes(None) = {} /\ PhaseIds(None) = {} /\ RequestIds(None) = {}
  BY NoPhase
<1>3. phase_one = None /\ phase_two = None /\ answered = {} /\ written = {} /\ requested = 0
  BY DEF Init
<1>4. Kinds
  BY <1>1, <1>2, <1>3, CircuitsAssumption DEF Init, Kinds
<1>5. Ages
  BY <1>1, <1>2, <1>3 DEF Ages, Aged
<1>6. contents \in [Blocks -> Data \cup {None}]
  BY DEF Init, Blocks
<1>7. Scene(streams, contents, {}, {}) /\ AllClosed(streams["exec"]) /\ Spares(streams["h2d"], {})
  BY <1>6, EmptyScene DEF Init
<1>8. Stage
  BY <1>1, <1>2, <1>3, <1>7 DEF Stage
<1>9. Waits /\ Dues /\ Spared
  BY <1>1, <1>2, <1>3, <1>7 DEF Waits, Dues, Spared
<1> QED BY <1>4, <1>5, <1>8, <1>9 DEF Inv

\* A message arrives.
LEMMA ReceiveKeeps == ASSUME Inv, Receive PROVE Inv'
<1>1. worker = "receive" /\ worker' \in {"get_trees_and_caps", "phase_one"}
  BY DEF Receive
<1>2. UNCHANGED <<streams, contents, phase_one, phase_two, even_odd_index, written, answered>>
  BY DEF Receive
<1>3. /\ New = None /\ Moving = None /\ Job = None
      /\ New' = request' /\ Moving' = None /\ Job' = None
  BY <1>1 DEF New, Moving, Job
<1>4. /\ Held(None) = {} /\ Stakes(None) = {} /\ PhaseIds(None) = {} /\ RequestIds(None) = {}
  BY NoPhase
<1>5. requested \in Nat /\ Len(Circuits) \in Nat /\ requested <= Len(Circuits)
  BY CircuitsAssumption DEF Inv, Kinds
<1>6. \/ /\ request' # None /\ IsRequest(request') /\ request'.id = requested'
         /\ requested' = requested + 1 /\ requested' \in 0..Len(Circuits)
      \/ request' = None /\ requested' = requested /\ worker' = "phase_one"
  <2>1. CASE request' # None
    <3>1. PICK proof \in BOOLEAN, known \in BOOLEAN :
             request' = [id |-> requested + 1, proof |-> proof, known |-> known, parts |-> Circuits[requested + 1]]
      BY <2>1 DEF Receive
    <3>2. requested < Len(Circuits) /\ requested' = requested + 1
      BY <2>1 DEF Receive
    <3>3. requested + 1 \in Ids /\ Circuits[requested + 1] \in SUBSET Parts
      BY <1>5, <3>2, CircuitsAssumption DEF Ids
    <3>4. request' \in Requests
      BY <3>1, <3>3 DEF Requests
    <3>5. request'.id = requested + 1 /\ request'.parts = Circuits[requested + 1]
      BY <3>1
    <3>6. IsRequest(request')
      BY <3>4, <3>5 DEF IsRequest
    <3> QED BY <1>5, <2>1, <3>2, <3>5, <3>6
  <2>2. CASE request' = None
    <3>1. requested' = requested
      <4>1. ASSUME NEW proof, NEW known,
                   request' = [id |-> requested + 1, proof |-> proof, known |-> known,
                               parts |-> Circuits[requested + 1]],
                   proof \in BOOLEAN, known \in BOOLEAN, requested < Len(Circuits)
            PROVE  FALSE
        <5>1. requested + 1 \in Ids /\ Circuits[requested + 1] \in SUBSET Parts
          BY <1>5, <4>1, CircuitsAssumption DEF Ids
        <5>2. request' \in Requests
          BY <4>1, <5>1 DEF Requests
        <5> QED BY <2>2, <5>2, NoneAssumption
      <4> QED BY <4>1 DEF Receive
    <3> QED BY <2>2, <3>1 DEF Receive
  <2> QED BY <2>1, <2>2
<1>7. Kinds'
  BY <1>1, <1>2, <1>3, <1>4, <1>6, <1>5 DEF Inv, Kinds
<1>8. Ages'
  <2>1. PICK A, S, F, n : A = answered /\ S = RequestIds(phase_two) /\ F = PhaseIds(phase_one) /\ n = requested
    OBVIOUS
  <2>2. Aged(A, {}, S, {}, F, {}) /\ A \cup S \cup F \subseteq 1..n /\ F \subseteq {n} /\ n \in Nat
    BY <1>3, <1>4, <1>5, <2>1 DEF Inv, Ages
  <2>3. A = answered' /\ S = RequestIds(phase_two)' /\ F = PhaseIds(phase_one)'
    BY <1>2, <2>1 DEF RequestIds, PhaseIds
  <2>4. CASE request' # None /\ request'.id = requested' /\ requested' = requested + 1
    <3>1. RequestIds(New)' = {n + 1} /\ requested' = n + 1
      BY <1>3, <2>1, <2>4 DEF RequestIds
    <3>2. Aged(A, {}, S, {}, F, {n + 1}) /\ A \cup S \cup F \cup {n + 1} \subseteq 1..(n + 1)
          /\ F \subseteq {(n + 1) - 1}
      BY <2>2 DEF Aged
    <3>3. RequestIds(Job)' = {} /\ PhaseIds(Moving)' = {} /\ New' # None
      BY <1>3, <1>4, <2>4 DEF RequestIds, PhaseIds
    <3> QED BY <2>3, <3>1, <3>2, <3>3 DEF Ages
  <2>5. CASE request' = None /\ requested' = requested
    <3>1. RequestIds(New)' = {} /\ RequestIds(Job)' = {} /\ PhaseIds(Moving)' = {} /\ New' = None
      BY <1>3, <1>4, <2>5 DEF RequestIds, PhaseIds
    <3> QED BY <2>1, <2>2, <2>3, <2>5, <3>1 DEF Ages
  <2> QED BY <1>6, <2>4, <2>5
<1>9. Stage'
  BY <1>2, <1>3, <1>4 DEF Inv, Stage, Stakes
<1>10. Waits' /\ Dues' /\ Spared'
  <2>1. AllClosed(streams["exec"])
    BY <1>1 DEF Inv, Waits
  <2>2. RequestIds(Job)' = {} /\ RequestIds(Job) = {} /\ RequestIds(phase_two)' = RequestIds(phase_two)
    BY <1>2, <1>3, <1>4 DEF RequestIds
  <2> QED BY <1>2, <2>1, <2>2 DEF Inv, Waits, Dues, Due, Spared
<1> QED BY <1>7, <1>8, <1>9, <1>10 DEF Inv

\* The thread goes on when the exec stream is empty.
LEMMA SynchronizeKeeps == ASSUME Inv, Synchronize PROVE Inv'
<1>1. worker = "synchronize" /\ worker' = "phase_one" /\ streams["exec"] = <<>>
  BY DEF Synchronize
<1>2. UNCHANGED <<streams, contents, request, phase_one, phase_two, even_odd_index, requested, written, answered>>
  BY DEF Synchronize
<1>3. New' = New /\ Moving' = Moving /\ Job' = Job
  BY <1>1, <1>2 DEF New, Moving, Job
<1>4. Kinds' /\ Ages' /\ Stage' /\ Dues' /\ Spared'
  <2>1. Kinds' BY <1>1, <1>2, <1>3 DEF Inv, Kinds, Held
  <2>2. Ages' BY <1>2, <1>3 DEF Inv, Ages, RequestIds, PhaseIds
  <2>3. Stage' BY <1>2, <1>3 DEF Inv, Stage, Stakes
  <2>4. Dues' BY <1>2, <1>3 DEF Inv, Dues, Due, RequestIds
  <2>5. Spared' BY <1>2 DEF Inv, Spared
  <2> QED BY <2>1, <2>2, <2>3, <2>4, <2>5
<1>5. Waits'
  <2>1. AllClosed(<<>>)
    BY DEF AllClosed
  <2> QED BY <1>1, <1>2, <2>1 DEF Waits
<1> QED BY <1>4, <1>5 DEF Inv

\* The manager drops the channel.
LEMMA CloseKeeps == ASSUME Inv, Close PROVE Inv'
<1>1. worker = "receive" /\ worker' = "closed"
  BY DEF Close
<1>2. UNCHANGED <<streams, contents, request, phase_one, phase_two, even_odd_index, requested, written, answered>>
  BY DEF Close
<1>3. New' = New /\ Moving' = Moving /\ Job' = Job
  BY <1>1, <1>2 DEF New, Moving, Job
<1>4. Kinds' BY <1>1, <1>2, <1>3 DEF Inv, Kinds, Held
<1>5. Ages' BY <1>2, <1>3 DEF Inv, Ages, RequestIds, PhaseIds
<1>6. Stage' BY <1>2, <1>3 DEF Inv, Stage, Stakes
<1>7. Dues' BY <1>2, <1>3 DEF Inv, Dues, Due, RequestIds
<1>8. Spared' /\ Waits' BY <1>1, <1>2 DEF Inv, Spared, Waits
<1> QED BY <1>4, <1>5, <1>6, <1>7, <1>8 DEF Inv

\* Nothing happens.
LEMMA StutterKeeps == ASSUME Inv, UNCHANGED vars PROVE Inv'
<1>1. /\ UNCHANGED <<streams, contents, worker, request, phase_one, phase_two>>
      /\ UNCHANGED <<even_odd_index, requested, written, answered>>
  BY DEF vars, hostVars
<1>2. New' = New /\ Moving' = Moving /\ Job' = Job
  BY <1>1 DEF New, Moving, Job
<1>3. Kinds' BY <1>1, <1>2 DEF Inv, Kinds, Held
<1>4. Ages' BY <1>1, <1>2 DEF Inv, Ages, RequestIds, PhaseIds
<1>5. Stage' BY <1>1, <1>2 DEF Inv, Stage, Stakes
<1>6. Dues' BY <1>1, <1>2 DEF Inv, Dues, Due, RequestIds
<1>7. Spared' /\ Waits' BY <1>1 DEF Inv, Spared, Waits
<1> QED BY <1>3, <1>4, <1>5, <1>6, <1>7 DEF Inv

\* A buffer is left while phase one holds its own.
LEMMA SpareBuffer ==
  ASSUME NEW phase, phase = None \/ IsPhase(phase), NEW n \in Ids, PhaseIds(phase) \subseteq {n - 1},
         Cardinality(Circuits[n]) \in Nat
  PROVE  /\ Held(phase) \in SUBSET Device
         /\ Cardinality(Device \ Held(phase)) >= Cardinality(Circuits[n]) + 2
<1>1. Len(Circuits) \in Nat /\ Ids = 1..Len(Circuits)
  BY CircuitsAssumption DEF Ids
<1>2. DeviceBlocks \in Nat
  BY DeviceBlocksAssumption
<1>3. CASE phase = None
  <2>1. Held(phase) = {} /\ Cardinality(Held(phase)) = 0
    BY <1>3, NoPhase, FS_EmptySet
  <2>2. Held(phase) \in SUBSET Device
    BY <2>1
  <2>3. Cardinality(Device \ Held(phase)) = DeviceBlocks
    BY <1>2, <2>1, <2>2, BuffersLeft
  <2>4. Cardinality(Circuits[n]) + 2 <= DeviceBlocks
    BY Room
  <2> QED BY <2>2, <2>3, <2>4
<1>4. CASE phase # None
  <2>1. IsPhase(phase)
    BY <1>4
  <2>2. PICK id : id = phase.request.id
    OBVIOUS
  <2>3. id \in Ids /\ IsRequest(phase.request)
    BY <2>1, <2>2, PhaseFacts, RequestTypes DEF IsPhase
  <2>4. id = n - 1
    BY <1>4, <2>2 DEF PhaseIds
  <2>5. n = id + 1
    BY <1>1, <2>3, <2>4
  <2>6. Cardinality(Circuits[id]) \in Nat
    BY <2>2, <2>3, NeededCounts
  <2>7. /\ Held(phase) \in SUBSET Device /\ Cardinality(Held(phase)) \in Nat
        /\ Cardinality(Held(phase)) <= Cardinality(Circuits[id]) + 1
    BY <2>1, <2>2, PhaseFacts
  <2>8. Cardinality(Circuits[id]) + Cardinality(Circuits[n]) + 3 <= DeviceBlocks
    BY <2>3, <2>5, Room
  <2>9. Cardinality(Device \ Held(phase)) = DeviceBlocks - Cardinality(Held(phase))
    BY <2>7, BuffersLeft
  <2> QED BY <1>2, <2>6, <2>7, <2>8, <2>9
<1> QED BY <1>3, <1>4

\* The first setup of a circuit.
LEMMA GetTreesAndCapsKeeps == ASSUME Inv, GetTreesAndCaps PROVE Inv'
<1>1. worker = "get_trees_and_caps" /\ worker' = "synchronize"
  BY DEF GetTreesAndCaps
<1>2. UNCHANGED <<contents, request, phase_one, phase_two, even_odd_index, requested, written, answered>>
  BY DEF GetTreesAndCaps
<1>3. /\ New = request /\ Moving = None /\ Job = None
      /\ New' = request /\ Moving' = None /\ Job' = None
  BY <1>1, <1>2 DEF New, Moving, Job
<1>4. /\ Held(None) = {} /\ Stakes(None) = {} /\ PhaseIds(None) = {} /\ RequestIds(None) = {}
  BY NoPhase
<1>5. PICK id, block : id = request.id /\ block = Alloc("Bottom", 1, Held(phase_one), even_odd_index = 1)
  OBVIOUS
<1>6. PICK w : w = Transfer("caps", id, block) ++ EnsureTransferred("caps", id)
                     ++ Kernel({<<block, <<id, "caps">>>>}, <<id, "setup caps">>, HostCaps)
  OBVIOUS
<1>7. streams' = streams ++ w
  BY <1>5, <1>6 DEF GetTreesAndCaps, Enqueue
<1>8. request # None /\ IsRequest(request)
  BY <1>1, <1>3 DEF Inv, Kinds
<1>9. id \in Ids /\ Cardinality(Circuits[id]) \in Nat
  BY <1>5, <1>8, RequestTypes, NeededCounts DEF IsRequest
<1>10. RequestIds(New) = {id} /\ id = requested /\ id \notin answered
  <2>1. RequestIds(New) = {id}
    BY <1>3, <1>5, <1>8 DEF RequestIds
  <2> QED BY <2>1 DEF Inv, Ages, Aged
<1>11. block \in Device \ Held(phase_one) /\ Held(phase_one) \in SUBSET Device
  <2>1. phase_one = None \/ IsPhase(phase_one)
    BY DEF Inv, Kinds
  <2>2. PhaseIds(phase_one) \subseteq {id - 1}
    BY <1>3, <1>8, <1>10 DEF Inv, Ages
  <2>3. Held(phase_one) \in SUBSET Device /\ Cardinality(Device \ Held(phase_one)) >= Cardinality(Circuits[id]) + 2
    BY <1>9, <2>1, <2>2, SpareBuffer
  <2>4. Cardinality(Device \ Held(phase_one)) # 0
    BY <1>9, <2>3
  <2>5. (even_odd_index = 1) \in BOOLEAN
    OBVIOUS
  <2> QED BY <1>5, <2>3, <2>4, <2>5, BufferIsFree
<1>12. PICK kept : kept = Stakes(phase_one)
  OBVIOUS
<1>13. kept \in SUBSET (Device \X Data) /\ \A p \in kept : p[1] # block
  <2>1. CASE phase_one = None
    BY <1>4, <1>12, <2>1
  <2>2. CASE phase_one # None
    <3>1. IsPhase(phase_one)
      BY <2>2 DEF Inv, Kinds
    <3> QED BY <1>11, <1>12, <3>1, PhaseFacts
  <2> QED BY <2>1, <2>2
<1>14. Leads(id, w, kept, kept, kept, kept)
  BY <1>6, <1>9, <1>11, <1>13, CapsLead
<1>15. Scene(streams, contents, kept, kept) /\ streams \in Work
  BY <1>3, <1>4, <1>12 DEF Inv, Stage, Scene
<1>16. Scene(streams', contents, kept, kept) /\ Belongs(w, id) /\ w \in Work
  BY <1>7, <1>14, <1>15 DEF Leads, Belongs
<1>17. Stage'
  <2>1. Stakes(phase_one)' = kept /\ Stakes(Moving)' = {}
    BY <1>2, <1>3, <1>4, <1>12 DEF Stakes
  <2> QED BY <1>2, <1>16, <2>1 DEF Stage
<1>18. Kinds' BY <1>1, <1>2, <1>3 DEF Inv, Kinds, Held
<1>19. Ages' BY <1>2, <1>3 DEF Inv, Ages, RequestIds, PhaseIds
<1>20. Waits' BY <1>1 DEF Waits
<1>21. Dues'
  <2>1. \A i : Promised(streams["exec"], i) => Promised(streams'["exec"], i)
    <3>1. PICK st \in Work : st = streams
      BY <1>15
    <3>2. \A i : Promised(st["exec"], i) => Promised((st ++ w)["exec"], i)
      BY <1>16, WorkPromises
    <3> QED BY <1>7, <3>1, <3>2
  <2> QED BY <1>2, <1>3, <2>1 DEF Inv, Dues, Due, RequestIds
<1>22. Spared'
  <2>1. Spares(streams["h2d"], answered)
    BY DEF Inv, Spared
  <2>2. Spares((streams ++ w)["h2d"], answered)
    <3>1. PICK st \in Work : st = streams
      BY <1>15
    <3>2. Spares((st ++ w)["h2d"], answered)
      BY <1>10, <1>16, <2>1, <3>1, WorkSpares
    <3> QED BY <3>1, <3>2
  <2> QED BY <1>2, <1>7, <2>2 DEF Spared
<1> QED BY <1>17, <1>18, <1>19, <1>20, <1>21, <1>22 DEF Inv

\* The transfers of a new request are scheduled into buffers that are free.
LEMMA PhaseOneKeeps == ASSUME Inv, PhaseOne PROVE Inv'
<1>1. worker = "phase_one" /\ worker' = "phase_two" /\ request' = phase_one
  BY DEF PhaseOne
<1>2. UNCHANGED <<contents, phase_two, even_odd_index, requested, written, answered>>
  BY DEF PhaseOne
<1>3. /\ New = request /\ Moving = None /\ Job = None
      /\ New' = None /\ Moving' = phase_one /\ Job' = None
  BY <1>1 DEF New, Moving, Job
<1>4. /\ Held(None) = {} /\ Stakes(None) = {} /\ PhaseIds(None) = {} /\ RequestIds(None) = {}
  BY NoPhase
<1>5. AllClosed(streams["exec"])
  BY <1>1 DEF Inv, Waits
<1>6. /\ Stakes(Moving)' = Stakes(phase_one) /\ PhaseIds(Moving)' = PhaseIds(phase_one)
      /\ Held(Moving)' = Held(phase_one)
  BY <1>3 DEF Stakes, PhaseIds, Held
<1>7. RequestIds(phase_two)' = RequestIds(phase_two) /\ RequestIds(Job)' = {} /\ RequestIds(New)' = {}
  BY <1>2, <1>3, <1>4 DEF RequestIds
<1>8. CASE request = None
  <2>1. phase_one' = None /\ streams' = streams
    BY <1>8 DEF PhaseOne
  <2>2. Kinds'
    <3>1. Held(phase_one)' = {}
      BY <2>1, <1>4 DEF Held
    <3> QED BY <1>1, <1>2, <1>3, <2>1, <3>1 DEF Inv, Kinds
  <2>3. Ages'
    <3>1. PICK A, S, F, n : A = answered /\ S = RequestIds(phase_two) /\ F = PhaseIds(phase_one) /\ n = requested
      OBVIOUS
    <3>2. Aged(A, {}, S, {}, F, {}) /\ A \cup S \cup F \subseteq 1..n /\ F \subseteq {n}
      BY <1>3, <1>4, <1>8, <3>1 DEF Inv, Ages
    <3>3. Aged(A, {}, S, F, {}, {})
      BY <3>2 DEF Aged
    <3>4. PhaseIds(phase_one)' = {}
      BY <2>1, <1>4 DEF PhaseIds
    <3> QED BY <1>2, <1>3, <1>6, <1>7, <2>1, <3>1, <3>2, <3>3, <3>4 DEF Ages
  <2>4. Stage'
    <3>1. Stakes(phase_one)' = {}
      BY <2>1, <1>4 DEF Stakes
    <3> QED BY <1>2, <1>3, <1>4, <1>6, <2>1, <3>1 DEF Inv, Stage
  <2>5. Waits' /\ Spared'
    BY <1>2, <1>5, <2>1 DEF Inv, Waits, Spared
  <2>6. Dues'
    BY <1>2, <1>3, <1>4, <1>7, <2>1 DEF Inv, Dues, Due
  <2> QED BY <2>2, <2>3, <2>4, <2>5, <2>6 DEF Inv
<1>9. CASE request # None
  <2>1. PICK r, id, needed, reversed : /\ r = request /\ id = request.id /\ needed = Needed(request)
                                       /\ reversed = (even_odd_index = 1)
    OBVIOUS
  <2>2. PICK device : device = Allocated(r, Held(phase_one), reversed)
    OBVIOUS
  <2>3. PICK w : w = Transfers(needed, id, device)
    OBVIOUS
  <2>4. phase_one' = [request |-> r, device |-> device] /\ streams' = streams ++ w
    BY <1>9, <2>1, <2>2, <2>3 DEF PhaseOne, Enqueue
  <2>5. IsRequest(r) /\ r \in Requests
    BY <1>3, <1>9, <2>1 DEF Inv, Kinds, IsRequest
  <2>6. id \in Ids /\ id \in Int /\ needed \in SUBSET Buffered /\ needed \in SUBSET Names /\ reversed \in BOOLEAN
    BY <2>1, <2>5, RequestTypes
  <2>7. /\ Cardinality(needed) \in Nat /\ Cardinality(Circuits[id]) \in Nat
        /\ Cardinality(needed) <= Cardinality(Circuits[id]) + 1
    BY <2>1, <2>5, NeededCounts
  <2>8. RequestIds(New) = {id} /\ id = requested /\ id \notin answered
    <3>1. RequestIds(New) = {id}
      BY <1>3, <1>9, <2>1 DEF RequestIds
    <3> QED BY <3>1 DEF Inv, Ages, Aged
  <2>9. PICK held : held = Held(phase_one)
    OBVIOUS
  <2>10. phase_one = None \/ IsPhase(phase_one)
    BY DEF Inv, Kinds
  <2>11. held \in SUBSET Device /\ Cardinality(Device \ held) >= Cardinality(Circuits[id]) + 2
    <3>1. PhaseIds(phase_one) \subseteq {id - 1}
      BY <1>3, <1>9, <2>8 DEF Inv, Ages
    <3> QED BY <2>6, <2>7, <2>9, <2>10, <3>1, SpareBuffer
  <2>12. Cardinality(needed) <= Cardinality(Device \ held)
    <3>1. Cardinality(Device \ held) \in Nat
      <4>1. Device \ held \in SUBSET Device
        OBVIOUS
      <4> QED BY <4>1, BelowCounts
    <3> QED BY <2>7, <2>11, <3>1
  <2>13. /\ \A name \in needed : Place(name, Rank(name, needed), held, reversed) \in Device \ held
         /\ \A m, n \in needed :
              m # n => Place(m, Rank(m, needed), held, reversed) # Place(n, Rank(n, needed), held, reversed)
    BY <2>6, <2>11, <2>12, BuffersAreFree
  <2>14. device = [name \in needed |-> Place(name, Rank(name, needed), held, reversed)]
    BY <2>1, <2>2, <2>9 DEF Allocated
  <2>15. device \in [needed -> Device \ held] /\ Apart(device) /\ device \in [needed -> Device]
    BY ONLY <2>13, <2>14 DEF Apart
  <2>16. PICK phase : phase = [request |-> r, device |-> device]
    OBVIOUS
  <2>17. phase.request = r /\ phase.device = device /\ phase_one' = phase
    BY <2>4, <2>16
  <2>18. IsPhase(phase)
    <3>1. device \in UNION {[names -> Device] : names \in SUBSET Names}
      BY <2>6, <2>15
    <3>2. phase \in Phases
      BY <2>5, <2>16, <3>1 DEF Phases
    <3> QED BY <2>1, <2>5, <2>15, <2>17, <3>2 DEF IsPhase
  <2>19. /\ phase # None /\ Held(phase) = {device[name] : name \in needed}
         /\ Stakes(phase) = Inputs(needed, id, device)
    BY <2>1, <2>17, <2>18, PhaseFacts
  <2>20. Held(phase) \cap held = {}
    BY <2>15, <2>19
  <2>21. PICK kept : kept = Stakes(phase_one)
    OBVIOUS
  <2>22. \A p \in kept : \A n \in needed : p[1] # device[n]
    <3>1. CASE phase_one = None
      BY <1>4, <2>21, <3>1
    <3>2. CASE phase_one # None
      <4>1. IsPhase(phase_one)
        BY <2>10, <3>2
      <4>2. \A p \in kept : p[1] \in held
        BY <2>9, <2>21, <4>1, PhaseFacts
      <4> QED BY <2>15, <4>2
    <3> QED BY <3>1, <3>2
  <2>23. /\ Leads(id, w, kept, kept, kept \cup Inputs(needed, id, device), kept \cup Inputs(needed, id, device))
         /\ Quiet(w)
    BY <2>3, <2>6, <2>15, <2>22, TransfersLead
  <2>24. Scene(streams, contents, kept, kept) /\ streams \in Work
    BY <1>3, <1>4, <2>21 DEF Inv, Stage, Scene
  <2>25. /\ Belongs(w, id)
         /\ Scene(streams', contents, kept \cup Stakes(phase), kept \cup Stakes(phase))
    BY <2>4, <2>19, <2>23, <2>24 DEF Leads
  <2>26. Stage'
    <3>1. Stakes(phase_one)' = Stakes(phase)
      BY <2>17 DEF Stakes
    <3> QED BY <1>2, <1>6, <2>21, <2>25, <3>1 DEF Stage
  <2>27. Kinds'
    <3>1. Held(phase_one)' = Held(phase)
      BY <2>17 DEF Held
    <3> QED BY <1>1, <1>2, <1>3, <1>6, <2>9, <2>10, <2>17, <2>18, <2>20, <3>1 DEF Inv, Kinds
  <2>28. Ages'
    <3>1. PICK A, S, F, n : A = answered /\ S = RequestIds(phase_two) /\ F = PhaseIds(phase_one) /\ n = requested
      OBVIOUS
    <3>2. Aged(A, {}, S, {}, F, {id}) /\ A \cup S \cup F \cup {id} \subseteq 1..n /\ F \subseteq {n - 1} /\ id = n
      BY <1>3, <1>4, <1>9, <2>8, <3>1 DEF Inv, Ages
    <3>3. Aged(A, {}, S, F, {id}, {})
      BY <3>2 DEF Aged
    <3>4. PhaseIds(phase_one)' = {id} /\ phase_one' # None
      BY <2>1, <2>17, <2>19 DEF PhaseIds
    <3> QED BY <1>2, <1>3, <1>6, <1>7, <3>1, <3>2, <3>3, <3>4 DEF Ages
  <2>29. PICK st \in Work : st = streams
    BY <2>24
  <2>30. Waits'
    <3>1. AllClosed((st ++ w)["exec"])
      BY <1>5, <2>23, <2>25, <2>29, WorkCloses
    <3> QED BY <2>4, <2>29, <3>1 DEF Waits
  <2>31. Dues'
    <3>1. \A i : Promised(st["exec"], i) => Promised((st ++ w)["exec"], i)
      BY <2>25, WorkPromises DEF Belongs
    <3> QED BY <1>2, <1>3, <1>4, <1>7, <2>4, <2>29, <3>1 DEF Inv, Dues, Due
  <2>32. Spared'
    <3>1. Spares(st["h2d"], answered)
      BY <2>29 DEF Inv, Spared
    <3>2. Spares((st ++ w)["h2d"], answered)
      BY <2>8, <2>25, <3>1, WorkSpares
    <3> QED BY <1>2, <2>4, <2>29, <3>2 DEF Spared
  <2> QED BY <2>26, <2>27, <2>28, <2>30, <2>31, <2>32 DEF Inv
<1> QED BY <1>8, <1>9

\* A buffer is left while two requests in a row hold theirs.
LEMMA SpareBufferOfTwo ==
  ASSUME NEW phase, IsPhase(phase), NEW next, next = None \/ IsPhase(next),
         PhaseIds(next) \subseteq {phase.request.id + 1}
  PROVE  /\ Held(next) \cup Held(phase) \in SUBSET Device
         /\ Cardinality(Device \ (Held(next) \cup Held(phase))) # 0
<1>1. PICK id, p, q : id = phase.request.id /\ p = Held(phase) /\ q = Held(next)
  OBVIOUS
<1>2. id \in Ids /\ id \in Int /\ Cardinality(Circuits[id]) \in Nat
  BY <1>1, PhaseFacts, RequestTypes, NeededCounts DEF IsPhase
<1>3. p \in SUBSET Device /\ Cardinality(p) \in Nat /\ Cardinality(p) <= Cardinality(Circuits[id]) + 1
  BY <1>1, PhaseFacts
<1>4. DeviceBlocks \in Nat
  BY DeviceBlocksAssumption
<1>5. q \in SUBSET Device /\ Cardinality(q) \in Nat /\ Cardinality(p) + Cardinality(q) < DeviceBlocks
  <2>1. CASE next = None
    <3>1. q = {} /\ Cardinality(q) = 0
      BY <1>1, <2>1, NoPhase, FS_EmptySet
    <3>2. Cardinality(Circuits[id]) + 2 <= DeviceBlocks
      BY <1>2, Room
    <3> QED BY <1>2, <1>3, <1>4, <3>1, <3>2
  <2>2. CASE next # None
    <3>1. IsPhase(next)
      BY <2>2
    <3>2. next.request.id = id + 1
      BY <1>1, <2>2 DEF PhaseIds
    <3>3. id + 1 \in Ids /\ Cardinality(Circuits[id + 1]) \in Nat
      BY <3>1, <3>2, PhaseFacts, RequestTypes, NeededCounts DEF IsPhase
    <3>4. Cardinality(Circuits[id]) + Cardinality(Circuits[id + 1]) + 3 <= DeviceBlocks
      BY <1>2, <3>3, Room
    <3>5. q \in SUBSET Device /\ Cardinality(q) \in Nat /\ Cardinality(q) <= Cardinality(Circuits[id + 1]) + 1
      BY <1>1, <3>1, <3>2, PhaseFacts
    <3> QED BY <1>2, <1>3, <1>4, <3>3, <3>4, <3>5
  <2> QED BY <2>1, <2>2
<1>6. q \cup p \in SUBSET Device
  BY <1>3, <1>5
<1>7. IsFiniteSet(p) /\ IsFiniteSet(q) /\ IsFiniteSet(q \cap p)
  BY <1>3, <1>5, BuffersLeft, FS_Intersection
<1>8. Cardinality(q \cup p) = Cardinality(q) + Cardinality(p) - Cardinality(q \cap p)
  BY <1>7, FS_Union
<1>9. Cardinality(q \cap p) \in Nat
  BY <1>7, FS_CardinalityType
<1>10. Cardinality(Device \ (q \cup p)) = DeviceBlocks - Cardinality(q \cup p)
  BY <1>6, BuffersLeft
<1>11. Cardinality(Device \ (q \cup p)) # 0
  BY <1>3, <1>4, <1>5, <1>8, <1>9, <1>10
<1> QED BY <1>1, <1>6, <1>11

\* What phase two enqueues for a request.
JobWork(r, device, held, w) ==
  \/ ~r.proof /\ w = EnsureDecoder(r.parts, r.id) ++ Commit(r, device, held)
  \/ /\ r.proof
     /\ \E scratch \in Device \ ((held \ {device[name] : name \in r.parts \cap Top})
                                   \cup {Alloc("Bottom", 1, held, even_odd_index = 0)}) :
          w = EnsureDecoder(r.parts, r.id) ++ Prove(r, device, held, scratch)

\* The job finds the inputs of its request and leaves alone those of the next.
LEMMA JobLeads ==
  ASSUME NEW phase, IsPhase(phase), NEW next, next = None \/ IsPhase(next),
         PhaseIds(next) \subseteq {phase.request.id + 1}, Held(next) \cap Held(phase) = {},
         NEW r, r = phase.request, NEW device, device = phase.device,
         NEW held, held = Held(next) \cup Held(phase),
         NEW w, JobWork(r, device, held, w)
  PROVE  /\ Leads(r.id, w, Stakes(next) \cup Stakes(phase), Stakes(next) \cup Stakes(phase), Stakes(next), Stakes(next))
         /\ Calls(w, r.id) /\ Ends(w, r.id)
<1>1. PICK holder : holder = Alloc("Bottom", 1, held, even_odd_index = 0)
  OBVIOUS
<1>2. held \in SUBSET Device /\ Cardinality(Device \ held) # 0
  BY SpareBufferOfTwo
<1>3. holder \in Device \ held
  <2>1. (even_odd_index = 0) \in BOOLEAN
    OBVIOUS
  <2> QED BY <1>1, <1>2, <2>1, BufferIsFree
<1>4. PICK needed, kept : needed = Needed(r) /\ kept = Stakes(next)
  OBVIOUS
<1>5. r \in Requests /\ device \in [needed -> Device] /\ Apart(device) /\ needed \in SUBSET Names
  BY <1>4, RequestTypes DEF IsPhase, IsRequest
<1>6. /\ Held(phase) = {device[name] : name \in needed}
      /\ Stakes(phase) = Inputs(needed, r.id, device)
  BY <1>4, PhaseFacts
<1>7. kept \in SUBSET (Device \X Data) /\ \A p \in kept : p[1] \in Held(next)
  <2>1. CASE next = None
    BY <1>4, <2>1, NoPhase
  <2>2. CASE next # None
    BY <1>4, <2>2, PhaseFacts
  <2> QED BY <2>1, <2>2
<1>8. \A n \in needed : device[n] \in Held(phase) /\ device[n] \in held /\ device[n] \notin Held(next)
  BY <1>6
<1>9. Elsewhere(kept, device)
  <2>1. DOMAIN device = needed
    BY <1>5
  <2> QED BY <1>7, <1>8, <2>1 DEF Elsewhere
<1>10. \A p \in kept : p[1] # holder /\ p[1] \in held
  BY <1>3, <1>7
<1>11. CASE ~r.proof /\ w = EnsureDecoder(r.parts, r.id) ++ Commit(r, device, held)
  <2>1. needed = r.parts
    BY <1>4, <1>11 DEF Needed
  <2>2. device \in [r.parts -> Device] /\ holder \in Device
    BY <1>3, <1>5, <2>1
  <2>3. PICK v : v = EnsureDecoder(r.parts, r.id) ++ Commit(r, device, held)
    OBVIOUS
  <2>4. /\ Leads(r.id, v, kept \cup Inputs(r.parts, r.id, device), kept \cup Inputs(r.parts, r.id, device), kept, kept)
        /\ Calls(v, r.id) /\ Ends(v, r.id)
    BY ONLY <1>1, <1>5, <1>9, <1>10, <2>2, <2>3, CommitLeads
  <2> QED BY <1>4, <1>6, <1>11, <2>1, <2>3, <2>4
<1>12. ASSUME r.proof,
              NEW scratch \in Device \ ((held \ {device[name] : name \in r.parts \cap Top})
                                          \cup {Alloc("Bottom", 1, held, even_odd_index = 0)}),
              w = EnsureDecoder(r.parts, r.id) ++ Prove(r, device, held, scratch)
       PROVE  /\ Leads(r.id, w, kept \cup Stakes(phase), kept \cup Stakes(phase), kept, kept)
              /\ Calls(w, r.id) /\ Ends(w, r.id)
  <2>1. scratch \in Device /\ scratch # holder
    BY <1>1, <1>12
  <2>2. "setup" \in needed /\ r.parts \subseteq needed
    BY <1>4, <1>12 DEF Needed
  <2>3. \A name \in r.parts \cap Top : device[name] # device["setup"] /\ device[name] \notin Held(next)
    <3>1. "setup" \notin Top
      BY DEF Top
    <3>2. \A name \in r.parts \cap Top : device[name] # device["setup"]
      BY <1>5, <2>2, <3>1 DEF Apart
    <3> QED BY <1>8, <2>2, <3>2
  <2>4. scratch # device["setup"]
    BY <1>8, <1>12, <2>2, <2>3
  <2>5. \A p \in kept : p[1] # scratch
    BY <1>7, <1>10, <1>12, <2>3
  <2>6. \A p \in kept : p[1] # holder /\ p[1] # scratch
    BY <1>10, <2>5
  <2>7. \A n \in Needed(r) : device[n] # holder
    BY <1>3, <1>4, <1>8
  <2>8. PICK v : v = EnsureDecoder(r.parts, r.id) ++ Prove(r, device, held, scratch)
    OBVIOUS
  <2>9. device \in [Needed(r) -> Device] /\ holder \in Device
    BY <1>3, <1>4, <1>5
  <2>10. r.proof
    BY <1>12
  <2>11. /\ Calls(v, r.id)
         /\ Ends(v, r.id)
         /\ Leads(r.id, v, kept \cup Inputs(Needed(r), r.id, device), kept \cup Inputs(Needed(r), r.id, device), kept, kept)
    BY ONLY <1>1, <1>5, <1>9, <2>1, <2>4, <2>6, <2>7, <2>8, <2>9, <2>10, ProveLeads
  <2> QED BY <1>4, <1>6, <1>12, <2>8, <2>11
<1> QED BY <1>4, <1>11, <1>12 DEF JobWork

\* The job of the request that moves on is enqueued, and takes the place of the
\* one to be answered.
LEMMA PhaseTwoKeeps == ASSUME Inv, PhaseTwo PROVE Inv'
<1>1. worker = "phase_two" /\ worker' = "phase_three" /\ request' = phase_two /\ even_odd_index' = 1 - even_odd_index
  BY DEF PhaseTwo
<1>2. UNCHANGED <<contents, phase_one, requested, written, answered>>
  BY DEF PhaseTwo
<1>3. /\ New = None /\ Moving = request /\ Job = None
      /\ New' = None /\ Moving' = None /\ Job' = phase_two
  BY <1>1 DEF New, Moving, Job
<1>4. /\ Held(None) = {} /\ Stakes(None) = {} /\ PhaseIds(None) = {} /\ RequestIds(None) = {}
  BY NoPhase
<1>5. AllClosed(streams["exec"])
  BY <1>1 DEF Inv, Waits
<1>6. /\ Stakes(Moving)' = {} /\ PhaseIds(Moving)' = {} /\ Held(Moving)' = {}
      /\ RequestIds(Job)' = RequestIds(phase_two) /\ RequestIds(New)' = {}
      /\ Stakes(phase_one)' = Stakes(phase_one) /\ PhaseIds(phase_one)' = PhaseIds(phase_one)
  BY <1>2, <1>3, <1>4 DEF Stakes, PhaseIds, Held, RequestIds
<1>7. phase_two' = None \/ phase_two' \in Requests => Kinds'
  <2>1. even_odd_index' \in {0, 1}
    BY <1>1 DEF Inv, Kinds
  <2> QED BY <1>1, <1>2, <1>3, <1>6, <2>1 DEF Inv, Kinds
<1>8. CASE request = None
  <2>1. phase_two' = None /\ streams' = streams
    BY <1>8 DEF PhaseTwo
  <2>2. Kinds'
    BY <1>7, <2>1
  <2>3. Ages'
    <3>1. PICK A, S, F, n : A = answered /\ S = RequestIds(phase_two) /\ F = PhaseIds(phase_one) /\ n = requested
      OBVIOUS
    <3>2. Aged(A, {}, S, {}, F, {}) /\ A \cup S \cup F \subseteq 1..n /\ F \subseteq {n}
      BY <1>3, <1>4, <1>8, <3>1 DEF Inv, Ages
    <3>3. Aged(A, S, {}, {}, F, {})
      BY <3>2 DEF Aged
    <3>4. RequestIds(phase_two)' = {}
      BY <2>1, <1>4 DEF RequestIds
    <3> QED BY <1>2, <1>3, <1>6, <3>1, <3>2, <3>3, <3>4 DEF Ages
  <2>4. Stage'
    BY <1>2, <1>3, <1>4, <1>6, <1>8, <2>1 DEF Inv, Stage
  <2>5. Waits' /\ Spared'
    BY <1>2, <1>5, <2>1 DEF Waits, Inv, Spared
  <2>6. Dues'
    <3>1. RequestIds(phase_two)' = {}
      BY <2>1, <1>4 DEF RequestIds
    <3> QED BY <1>2, <1>6, <2>1, <3>1 DEF Inv, Dues, Due
  <2> QED BY <2>2, <2>3, <2>4, <2>5, <2>6 DEF Inv
<1>9. CASE request # None
  <2>1. PICK r, device, held, id : /\ r = request.request /\ device = request.device
                                   /\ held = Held(phase_one) \cup Held(request) /\ id = r.id
    OBVIOUS
  <2>2. IsPhase(request) /\ r \in Requests /\ id \in Int /\ r # None
    <3>1. IsPhase(request)
      BY <1>3, <1>9 DEF Inv, Kinds
    <3> QED BY <2>1, <3>1, PhaseFacts, RequestTypes
  <2>3. phase_two' = r
    BY <1>9, <2>1 DEF PhaseTwo
  <2>4. PICK w : streams' = streams ++ w /\ JobWork(r, device, held, w)
    <3>1. CASE ~r.proof
      BY <1>9, <2>1, <3>1 DEF PhaseTwo, Enqueue, JobWork
    <3>2. CASE r.proof
      BY <1>9, <2>1, <3>2 DEF PhaseTwo, Enqueue, JobWork
    <3> QED BY <3>1, <3>2
  <2>5. PICK kept, stakes : kept = Stakes(phase_one) /\ stakes = Stakes(phase_one) \cup Stakes(request)
    OBVIOUS
  <2>6. PhaseIds(Moving) = {id} /\ id \notin answered /\ PhaseIds(phase_one) \subseteq {id + 1}
    <3>1. PhaseIds(Moving) = {id}
      BY <1>3, <1>9, <2>1 DEF PhaseIds
    <3>2. id \notin answered
      BY <3>1 DEF Inv, Ages, Aged
    <3>3. CASE phase_one = None
      BY <1>4, <3>1, <3>2, <3>3
    <3>4. CASE phase_one # None
      <4>1. PICK n : n = requested
        OBVIOUS
      <4>2. n \in Nat
        BY <4>1 DEF Inv, Kinds
      <4>3. PhaseIds(phase_one) \subseteq {n} /\ id = n - 1
        BY <1>3, <3>1, <3>4, <4>1 DEF Inv, Ages
      <4> QED BY <2>2, <3>1, <3>2, <4>2, <4>3
    <3> QED BY <3>3, <3>4
  <2>7. /\ Leads(id, w, stakes, stakes, kept, kept)
        /\ Calls(w, id) /\ Ends(w, id)
    <3>1. phase_one = None \/ IsPhase(phase_one)
      BY DEF Inv, Kinds
    <3>2. Held(phase_one) \cap Held(request) = {}
      BY <1>3 DEF Inv, Kinds
    <3>3. PICK next, phase : next = phase_one /\ phase = request
      OBVIOUS
    <3>4. /\ IsPhase(phase) /\ (next = None \/ IsPhase(next)) /\ PhaseIds(next) \subseteq {phase.request.id + 1}
          /\ Held(next) \cap Held(phase) = {} /\ r = phase.request /\ device = phase.device
          /\ held = Held(next) \cup Held(phase)
      BY <2>1, <2>2, <2>6, <3>1, <3>2, <3>3
    <3>5. /\ Leads(r.id, w, Stakes(next) \cup Stakes(phase), Stakes(next) \cup Stakes(phase), Stakes(next), Stakes(next))
          /\ Calls(w, r.id) /\ Ends(w, r.id)
      BY ONLY <2>4, <3>4, JobLeads
    <3> QED BY <2>1, <2>5, <3>3, <3>5
  <2>8. Scene(streams, contents, stakes, stakes) /\ streams \in Work
    BY <1>3, <2>5 DEF Inv, Stage, Scene
  <2>9. Belongs(w, id) /\ Scene(streams', contents, kept, kept)
    BY <2>4, <2>7, <2>8 DEF Leads
  <2>10. Stage'
    <3>1. (Stakes(phase_one) \cup Stakes(Moving))' = kept
      BY <1>6, <2>5
    <3> QED BY <1>2, <2>9, <3>1 DEF Stage
  <2>11. Kinds'
    BY <1>7, <2>2, <2>3
  <2>12. RequestIds(phase_two)' = {id}
    BY <2>1, <2>2, <2>3 DEF RequestIds
  <2>13. Ages'
    <3>1. PICK A, S, F, n : A = answered /\ S = RequestIds(phase_two) /\ F = PhaseIds(phase_one) /\ n = requested
      OBVIOUS
    <3>2. Aged(A, {}, S, {id}, F, {}) /\ A \cup S \cup F \cup {id} \subseteq 1..n /\ F \subseteq {n}
      BY <1>3, <1>4, <2>6, <3>1 DEF Inv, Ages
    <3>3. Aged(A, S, {id}, {}, F, {})
      BY <3>2 DEF Aged
    <3> QED BY <1>2, <1>3, <1>6, <2>12, <3>1, <3>2, <3>3 DEF Ages
  <2>14. PICK st \in Work : st = streams
    BY <2>8
  <2>15. Waits'
    <3>1. AllClosed((st ++ w)["exec"])
      BY <1>5, <2>7, <2>9, <2>14, WorkCloses
    <3> QED BY <2>4, <2>14, <3>1 DEF Waits
  <2>16. Dues'
    <3>1. /\ \A i : Promised(st["exec"], i) => Promised((st ++ w)["exec"], i)
          /\ \A i : Calls(w, i) /\ Ends(w, i) => Promised((st ++ w)["exec"], i)
      BY <2>9, WorkPromises DEF Belongs
    <3>2. PICK S : S = RequestIds(phase_two)
      OBVIOUS
    <3>3. \A i \in S : i \in written \/ Promised(st["exec"], i)
      BY <2>14, <3>2 DEF Inv, Dues, Due
    <3>4. \A i \in S \cup {id} : i \in written \/ Promised((st ++ w)["exec"], i)
      BY <2>7, <3>1, <3>3
    <3>5. RequestIds(Job)' = S
      BY <1>6, <3>2
    <3> QED BY <1>2, <2>4, <2>12, <2>14, <3>4, <3>5 DEF Dues, Due
  <2>17. Spared'
    <3>1. Spares(st["h2d"], answered)
      BY <2>14 DEF Inv, Spared
    <3>2. Spares((st ++ w)["h2d"], answered)
      BY <2>6, <2>9, <3>1, WorkSpares
    <3> QED BY <1>2, <2>4, <2>14, <3>2 DEF Spared
  <2> QED BY <2>10, <2>11, <2>13, <2>15, <2>16, <2>17 DEF Inv
<1> QED BY <1>8, <1>9

\* A record that is not pending is in no queue.
LEMMA NotPending ==
  ASSUME streams \in Work, NEW event, Recorded(event), NEW s \in Streams, NEW k \in 1..Len(streams[s])
  PROVE  ~IsRecord(streams[s][k], event)
<1>1. streams[s] \in Seq(AnyOps)
  BY DEF Work
<1>2. k \in DOMAIN streams[s]
  BY <1>1
<1>3. streams[s][k] \in Pending(s)
  BY <1>2 DEF Pending
<1> QED BY <1>3 DEF Recorded, IsRecord

\* The job is answered: its result is stored, and its copies are done.
LEMMA PhaseThreeKeeps == ASSUME Inv, PhaseThree PROVE Inv'
<1>1. worker = "phase_three" /\ request' = None
  BY DEF PhaseThree
<1>2. UNCHANGED <<streams, contents, phase_one, phase_two, even_odd_index, requested, written>>
  BY DEF PhaseThree
<1>3. New = None /\ Moving = None /\ Job = request
  BY <1>1 DEF New, Moving, Job
<1>4. /\ Held(None) = {} /\ Stakes(None) = {} /\ PhaseIds(None) = {} /\ RequestIds(None) = {}
  BY NoPhase
<1>5. AllClosed(streams["exec"])
  BY <1>1 DEF Inv, Waits
<1>6. /\ RequestIds(phase_two)' = RequestIds(phase_two) /\ PhaseIds(phase_one)' = PhaseIds(phase_one)
      /\ Stakes(phase_one)' = Stakes(phase_one) /\ Held(phase_one)' = Held(phase_one)
  BY <1>2 DEF RequestIds, PhaseIds, Stakes, Held
<1>7. PICK stakes : stakes = Stakes(phase_one)
  OBVIOUS
<1>8. Scene(streams, contents, stakes, stakes) /\ streams \in Work
  BY <1>3, <1>4, <1>7 DEF Inv, Stage, Scene
<1>9. /\ worker' = "receive" /\ answered' = answered \cup RequestIds(request) /\ answered' \subseteq Ids
      /\ Spares(streams["h2d"], answered')
  <2>1. answered \subseteq Ids /\ Spares(streams["h2d"], answered)
    BY DEF Inv, Kinds, Spared
  <2>2. CASE request = None
    <3>1. worker' = "receive" /\ answered' = answered /\ RequestIds(request) = {}
      BY <1>4, <2>2 DEF PhaseThree
    <3> QED BY <2>1, <3>1
  <2>3. CASE request # None
    <3>1. PICK id : id = request.id
      OBVIOUS
    <3>2. RequestIds(request) = {id} /\ request \in Requests /\ id \in Ids
      BY <1>3, <2>3, <3>1, RequestTypes DEF RequestIds, Inv, Kinds
    <3>3. Recorded(Finished(id))
      BY <2>3, <3>1 DEF PhaseThree, IsFinished, Finished
    <3>4. PICK e, h : e = streams["exec"] /\ h = streams["h2d"]
      OBVIOUS
    <3>5. \A k \in 1..Len(e) : ~IsRecord(e[k], Finished(id))
      <4>1. "exec" \in Streams
        BY DEF Streams
      <4> QED BY <1>8, <3>3, <3>4, <4>1, NotPending
    <3>6. id \in written
      <4>1. Due(id)
        BY <1>3, <3>2 DEF Inv, Dues
      <4>2. ~Promised(e, id)
        BY <3>5 DEF Promised
      <4> QED BY <3>4, <4>1, <4>2 DEF Due
    <3>7. worker' = "receive" /\ answered' = answered \cup {id}
      BY <2>3, <3>1, <3>6 DEF PhaseThree
    <3>8. ASSUME NEW j \in 1..Len(h), h[j].op = "copy" PROVE h[j].data[1] # id
      <4>1. Awaited(e, h, j) \/ <<h[j].block, h[j].data>> \in stakes
        BY <1>8, <3>4, <3>8 DEF Scene
      <4>2. CASE Awaited(e, h, j)
        <5>1. PICK k \in 1..Len(e) : IsWait(e[k], IsThere(h[j].data))
          BY <4>2 DEF Awaited, Before
        <5>2. e[k].op = "wait" /\ e[k].event[2] = h[j].data[1]
          BY <5>1 DEF IsWait, IsThere
        <5>3. \E m \in 1..Len(e) : IsRecord(e[m], Finished(e[k].event[2]))
          BY <1>5, <3>4, <5>2 DEF AllClosed
        <5> QED BY <3>5, <5>2, <5>3
      <4>3. CASE <<h[j].block, h[j].data>> \in stakes
        <5>1. IsPhase(phase_one)
          BY <1>4, <1>7, <4>3 DEF Inv, Kinds
        <5>2. \A p \in stakes : p[2][1] = phase_one.request.id
          BY <1>7, <5>1, PhaseFacts
        <5>3. h[j].data[1] = phase_one.request.id
          BY <4>3, <5>2
        <5>4. PhaseIds(phase_one) = {phase_one.request.id}
          BY <5>1, PhaseFacts DEF PhaseIds
        <5>5. {id} \cap PhaseIds(phase_one) = {}
          BY <1>3, <3>2 DEF Inv, Ages, Aged
        <5> QED BY <5>3, <5>4, <5>5
      <4> QED BY <4>1, <4>2, <4>3
    <3>9. Spares(h, answered \cup {id})
      BY <2>1, <3>4, <3>8 DEF Spares
    <3> QED BY <2>1, <3>2, <3>4, <3>7, <3>9
  <2> QED BY <2>2, <2>3
<1>10. New' = None /\ Moving' = None /\ Job' = None
  BY <1>1, <1>9 DEF New, Moving, Job
<1>11. Kinds'
  <2>1. Held(Moving)' = {}
    BY <1>4, <1>10 DEF Held
  <2> QED BY <1>1, <1>2, <1>6, <1>9, <1>10, <2>1 DEF Inv, Kinds
<1>12. Ages'
  <2>1. PICK A, J, S, F, n : /\ A = answered /\ J = RequestIds(Job) /\ S = RequestIds(phase_two)
                             /\ F = PhaseIds(phase_one) /\ n = requested
    OBVIOUS
  <2>2. Aged(A, J, S, {}, F, {}) /\ A \cup J \cup S \cup F \subseteq 1..n /\ F \subseteq {n}
    BY <1>3, <1>4, <2>1 DEF Inv, Ages
  <2>3. Aged(A \cup J, {}, S, {}, F, {})
    BY <2>2 DEF Aged
  <2>4. answered' = A \cup J
    BY <1>3, <1>9, <2>1
  <2>5. RequestIds(Job)' = {} /\ PhaseIds(Moving)' = {} /\ RequestIds(New)' = {}
    BY <1>4, <1>10 DEF RequestIds, PhaseIds
  <2> QED BY <1>2, <1>6, <1>10, <2>1, <2>2, <2>3, <2>4, <2>5 DEF Ages
<1>13. Stage'
  <2>1. Stakes(Moving)' = {}
    BY <1>4, <1>10 DEF Stakes
  <2> QED BY <1>2, <1>6, <1>7, <1>8, <2>1 DEF Stage
<1>14. Waits' /\ Spared'
  BY <1>2, <1>5, <1>9 DEF Waits, Spared
<1>15. Dues'
  <2>1. RequestIds(Job)' = {}
    BY <1>4, <1>10 DEF RequestIds
  <2> QED BY <1>2, <1>6, <2>1 DEF Inv, Dues, Due
<1> QED BY <1>11, <1>12, <1>13, <1>14, <1>15 DEF Inv

-----------------------------------------------------------------------------
(* A stream executes an operation.                                         *)

\* What it makes of the buffers.
Does(op, c, c2) == c2 = IF "block" \in DOMAIN op THEN [c EXCEPT ![op.block] = op.data] ELSE c

\* It leaves its data in the block it names, and nothing else.
LEMMA OperationEffects ==
  ASSUME NEW op \in AnyOps, NEW c \in [Blocks -> Data \cup {None}],
         NEW c2, Does(op, c, c2)
  PROVE  c2 \in [Blocks -> Data \cup {None}] /\ Effect(op, c, c2)
<1>1. CASE op \in CopyOps \/ op \in KernelOps
  <2>1. "block" \in DOMAIN op /\ op.op \in {"copy", "kernel"} /\ op.data \in Data /\ op.block \in Blocks
    BY <1>1 DEF CopyOps, KernelOps, Blocks
  <2>2. c2 = [c EXCEPT ![op.block] = op.data]
    BY <2>1 DEF Does
  <2> QED BY <2>1, <2>2 DEF Effect, Writes
<1>2. CASE op \in CallbackOps \/ op \in EventOps
  <2>1. "block" \notin DOMAIN op /\ op.op \in {"callback", "record", "wait"}
    BY <1>2 DEF CallbackOps, EventOps
  <2> QED BY <2>1 DEF Does, Effect, Writes
<1> QED BY <1>1, <1>2 DEF AnyOps, ExecOps, H2dOps

\* What the operation at the head of a queue that is ready waits for is over.
LEMMA ReadyIsOver ==
  ASSUME streams \in Work, NEW s \in Streams, Ready(s), NEW e, e = streams["exec"], NEW h, h = streams["h2d"]
  PROVE  streams[s] # <<>> /\ Over(Head(streams[s]), e, h)
<1>1. PICK op : op = Head(streams[s])
  OBVIOUS
<1>2. streams[s] # <<>> /\ (op.op = "wait" => Recorded(op.event))
  BY <1>1 DEF Ready
<1>3. ASSUME op.op = "wait"
      PROVE  (\A k \in 1..Len(e) : ~IsRecord(e[k], op.event)) /\ (\A m \in 1..Len(h) : ~IsRecord(h[m], op.event))
  <2>1. "exec" \in Streams /\ "h2d" \in Streams
    BY DEF Streams
  <2>2. Recorded(op.event)
    BY <1>2, <1>3
  <2> QED BY <2>1, <2>2, NotPending
<1> QED BY <1>1, <1>2, <1>3 DEF Over

\* The buffers of a stake are blocks.
LEMMA StakesAreBlocks ==
  ASSUME Kinds
  PROVE  Stakes(phase_one) \cup Stakes(Moving) \in SUBSET (Device \X Data)
<1>1. ASSUME NEW phase, phase = None \/ IsPhase(phase) PROVE Stakes(phase) \in SUBSET (Device \X Data)
  BY <1>1, NoPhase, PhaseFacts
<1> QED BY <1>1 DEF Kinds

\* The exec stream executes an operation; the one behind a callback that is due
\* stores the result while the worker holds the job.
LEMMA ExecuteExecKeeps == ASSUME Inv, Execute("exec") PROVE Inv'
<1>1. UNCHANGED hostVars
  BY DEF Execute
<1>2. UNCHANGED <<worker, request, phase_one, phase_two, even_odd_index, requested, answered>>
  BY <1>1 DEF hostVars
<1>3. New' = New /\ Moving' = Moving /\ Job' = Job
  BY <1>2 DEF New, Moving, Job
<1>4. PICK stakes : stakes = Stakes(phase_one) \cup Stakes(Moving)
  OBVIOUS
<1>5. Scene(streams, contents, stakes, stakes) /\ streams \in Work
  BY <1>4 DEF Inv, Stage, Scene
<1>6. PICK e, h, e2 : e = streams["exec"] /\ h = streams["h2d"] /\ e2 = Tail(e)
  OBVIOUS
<1>7. "exec" \in Streams /\ "h2d" \in Streams
  BY DEF Streams
<1>8. Sound(e, h, contents) /\ e \in Seq(ExecOps) /\ h \in Seq(H2dOps) /\ contents \in [Blocks -> Data \cup {None}]
  BY <1>5, <1>6 DEF Scene, Sound
<1>9. e # <<>> /\ Over(Head(e), e, h)
  <2>1. Ready("exec")
    BY DEF Execute
  <2> QED BY <1>5, <1>6, <1>7, <2>1, ReadyIsOver
<1>10. e2 \in Seq(ExecOps) /\ Dropped(e, e2) /\ Head(e) = e[1] /\ 1 \in 1..Len(e)
  BY <1>6, <1>8, <1>9, TailDrops
<1>11. PICK op \in ExecOps : op = e[1]
  BY <1>8, <1>10
<1>12. streams' = [streams EXCEPT !["exec"] = e2]
  BY <1>6 DEF Execute
<1>13. streams'["exec"] = e2 /\ streams'["h2d"] = h /\ streams' \in Work
  <2>1. e2 \in Seq(AnyOps)
    <3>1. ExecOps \subseteq AnyOps
      BY DEF AnyOps
    <3> QED BY <1>10, <3>1
  <2>2. streams \in [Streams -> Seq(AnyOps)]
    BY <1>5 DEF Work
  <2> QED BY <1>6, <1>7, <1>12, <2>1, <2>2 DEF Work
<1>14. contents' \in [Blocks -> Data \cup {None}] /\ Effect(op, contents, contents')
  <2>1. contents' = IF "block" \in DOMAIN op THEN [contents EXCEPT ![op.block] = op.data] ELSE contents
    BY <1>6, <1>10, <1>11 DEF Execute
  <2>2. op \in AnyOps
    BY <1>11 DEF AnyOps
  <2>3. PICK c, c2 : c = contents /\ c2 = contents'
    OBVIOUS
  <2>4. /\ op \in AnyOps /\ c \in [Blocks -> Data \cup {None}]
        /\ Does(op, c, c2)
    BY <1>8, <2>1, <2>2, <2>3 DEF Does
  <2>5. c2 \in [Blocks -> Data \cup {None}] /\ Effect(op, c, c2)
    BY ONLY <2>4, OperationEffects
  <2> QED BY <2>3, <2>5
<1>15. written' = IF op.op = "callback" /\ CallbacksHeld(op.id) THEN written \cup {op.id} ELSE written
  BY <1>6, <1>10, <1>11 DEF Execute
<1>16. /\ Sound(e2, h, contents')
       /\ \A b \in Blocks : \A d : Holds(e, h, contents, b, d) => Holds(e2, h, contents', b, d)
       /\ \A j \in 1..Len(h) : h[j].op = "copy" /\ Awaited(e, h, j) => Awaited(e2, h, j)
  <2>1. PICK c, c2 : c = contents /\ c2 = contents'
    OBVIOUS
  <2>2. /\ Sound(e, h, c) /\ e # <<>> /\ Over(e[1], e, h) /\ c2 \in [Blocks -> Data \cup {None}]
        /\ Effect(e[1], c, c2) /\ e2 = Tail(e)
    BY <1>6, <1>8, <1>9, <1>10, <1>11, <1>14, <2>1
  <2>3. /\ Sound(e2, h, c2)
        /\ \A b \in Blocks : \A d : Holds(e, h, c, b, d) => Holds(e2, h, c2, b, d)
        /\ \A j \in 1..Len(h) : h[j].op = "copy" /\ Awaited(e, h, j) => Awaited(e2, h, j)
    BY ONLY <2>2, ExecRuns
  <2> QED BY <2>1, <2>3
<1>17. Stage'
  <2>1. stakes \in SUBSET (Device \X Data)
    BY <1>4, StakesAreBlocks DEF Inv
  <2>2. \A p \in stakes : p[1] \in Blocks
    BY <2>1, JobData DEF Blocks
  <2>3. Scene(streams', contents', stakes, stakes)
    BY <1>5, <1>6, <1>13, <1>16, <2>2 DEF Scene
  <2>4. (Stakes(phase_one) \cup Stakes(Moving))' = stakes
    BY <1>2, <1>3, <1>4 DEF Stakes
  <2> QED BY <2>3, <2>4 DEF Stage
<1>18. Kinds'
  <2>1. written' \subseteq Ids
    <3>1. op.op = "callback" => op.id \in Ids
      BY <1>11 DEF ExecOps, KernelOps, CallbackOps, EventOps
    <3> QED BY <1>15, <3>1 DEF Inv, Kinds
  <2> QED BY <1>2, <1>3, <2>1 DEF Inv, Kinds, Held
<1>19. Ages'
  BY <1>2, <1>3 DEF Inv, Ages, RequestIds, PhaseIds
<1>20. /\ AllClosed(e) => AllClosed(e2)
       /\ \A id : Promised(e, id) /\ ~(e[1].op = "callback" /\ e[1].id = id) => Promised(e2, id)
       /\ \A done : Spares(e, done) => Spares(e2, done)
  <2>1. Len(e) \in Nat /\ Len(e2) \in Nat
    BY <1>8, <1>10
  <2> QED BY <1>10, <2>1, TailCloses
<1>21. Waits'
  BY <1>2, <1>6, <1>13, <1>20 DEF Inv, Waits
<1>22. Dues'
  <2>1. PICK ids : ids = RequestIds(phase_two) \cup RequestIds(Job)
    OBVIOUS
  <2>2. ids = (RequestIds(phase_two) \cup RequestIds(Job))'
    BY <1>2, <1>3, <2>1 DEF RequestIds
  <2>3. \A id \in ids : CallbacksHeld(id)
    BY <2>1 DEF RequestIds, CallbacksHeld, Job
  <2>4. ASSUME NEW id \in ids PROVE id \in written' \/ Promised(e2, id)
    <3>1. id \in written \/ Promised(e, id)
      BY <1>6, <2>1, <2>4 DEF Inv, Dues, Due
    <3> QED BY <1>11, <1>15, <1>20, <2>3, <3>1
  <2> QED BY <1>13, <2>2, <2>4 DEF Dues, Due
<1>23. Spared'
  BY <1>2, <1>6, <1>13 DEF Inv, Spared
<1> QED BY <1>17, <1>18, <1>19, <1>21, <1>22, <1>23 DEF Inv

\* The copying stream executes an operation.
LEMMA ExecuteH2dKeeps == ASSUME Inv, Execute("h2d") PROVE Inv'
<1>1. UNCHANGED hostVars
  BY DEF Execute
<1>2. UNCHANGED <<worker, request, phase_one, phase_two, even_odd_index, requested, answered>>
  BY <1>1 DEF hostVars
<1>3. New' = New /\ Moving' = Moving /\ Job' = Job
  BY <1>2 DEF New, Moving, Job
<1>4. PICK stakes : stakes = Stakes(phase_one) \cup Stakes(Moving)
  OBVIOUS
<1>5. Scene(streams, contents, stakes, stakes) /\ streams \in Work
  BY <1>4 DEF Inv, Stage, Scene
<1>6. PICK e, h, h2 : e = streams["exec"] /\ h = streams["h2d"] /\ h2 = Tail(h)
  OBVIOUS
<1>7. "exec" \in Streams /\ "h2d" \in Streams
  BY DEF Streams
<1>8. Sound(e, h, contents) /\ e \in Seq(ExecOps) /\ h \in Seq(H2dOps) /\ contents \in [Blocks -> Data \cup {None}]
  BY <1>5, <1>6 DEF Scene, Sound
<1>9. h # <<>> /\ Over(Head(h), e, h)
  <2>1. Ready("h2d")
    BY DEF Execute
  <2> QED BY <1>5, <1>6, <1>7, <2>1, ReadyIsOver
<1>10. h2 \in Seq(H2dOps) /\ Dropped(h, h2) /\ Head(h) = h[1] /\ 1 \in 1..Len(h)
  BY <1>6, <1>8, <1>9, TailDrops
<1>11. PICK op \in H2dOps : op = h[1]
  BY <1>8, <1>10
<1>12. streams' = [streams EXCEPT !["h2d"] = h2]
  BY <1>6 DEF Execute
<1>13. streams'["exec"] = e /\ streams'["h2d"] = h2 /\ streams' \in Work
  <2>1. h2 \in Seq(AnyOps)
    <3>1. H2dOps \subseteq AnyOps
      BY DEF AnyOps
    <3> QED BY <1>10, <3>1
  <2>2. streams \in [Streams -> Seq(AnyOps)]
    BY <1>5 DEF Work
  <2> QED BY <1>6, <1>7, <1>12, <2>1, <2>2 DEF Work
<1>14. contents' \in [Blocks -> Data \cup {None}] /\ Effect(op, contents, contents')
  <2>1. contents' = IF "block" \in DOMAIN op THEN [contents EXCEPT ![op.block] = op.data] ELSE contents
    BY <1>6, <1>10, <1>11 DEF Execute
  <2>2. op \in AnyOps
    BY <1>11 DEF AnyOps
  <2>3. PICK c, c2 : c = contents /\ c2 = contents'
    OBVIOUS
  <2>4. /\ op \in AnyOps /\ c \in [Blocks -> Data \cup {None}]
        /\ Does(op, c, c2)
    BY <1>8, <2>1, <2>2, <2>3 DEF Does
  <2>5. c2 \in [Blocks -> Data \cup {None}] /\ Effect(op, c, c2)
    BY ONLY <2>4, OperationEffects
  <2> QED BY <2>3, <2>5
<1>15. written' = written
  <2>1. op.op # "callback"
    BY <1>11, CopiesBlocks
  <2> QED BY <1>6, <1>10, <1>11, <2>1 DEF Execute
<1>16. /\ Sound(e, h2, contents')
       /\ \A b \in Blocks : \A d : Holds(e, h, contents, b, d) => Holds(e, h2, contents', b, d)
       /\ MovesOn(e, h, h2)
  <2>1. PICK c, c2 : c = contents /\ c2 = contents'
    OBVIOUS
  <2>2. /\ Sound(e, h, c) /\ h # <<>> /\ Over(h[1], e, h) /\ c2 \in [Blocks -> Data \cup {None}]
        /\ Effect(h[1], c, c2) /\ h2 = Tail(h)
    BY <1>6, <1>8, <1>9, <1>10, <1>11, <1>14, <2>1
  <2>3. /\ Sound(e, h2, c2)
        /\ \A b \in Blocks : \A d : Holds(e, h, c, b, d) => Holds(e, h2, c2, b, d)
        /\ MovesOn(e, h, h2)
    BY ONLY <2>2, H2dRuns
  <2> QED BY <2>1, <2>3
<1>17. Stage'
  <2>1. stakes \in SUBSET (Device \X Data)
    BY <1>4, StakesAreBlocks DEF Inv
  <2>2. \A p \in stakes : p[1] \in Blocks
    BY <2>1, JobData DEF Blocks
  <2>3. Scene(streams', contents', stakes, stakes)
    <3>1. \A p \in stakes : Holds(e, h, contents, p[1], p[2])
      BY <1>5, <1>6 DEF Scene
    <3>2. \A p \in stakes : Holds(e, h2, contents', p[1], p[2])
      BY <1>16, <2>2, <3>1
    <3>3. \A j \in 1..Len(h) : h[j].op = "copy" => Awaited(e, h, j) \/ <<h[j].block, h[j].data>> \in stakes
      BY <1>5, <1>6 DEF Scene
    <3>4. \A j \in 1..Len(h2) : h2[j].op = "copy" => Awaited(e, h2, j) \/ <<h2[j].block, h2[j].data>> \in stakes
      BY ONLY <1>16, <3>3 DEF MovesOn
    <3> QED BY <1>13, <1>16, <3>2, <3>4 DEF Scene
  <2>4. (Stakes(phase_one) \cup Stakes(Moving))' = stakes
    BY <1>2, <1>3, <1>4 DEF Stakes
  <2> QED BY <2>3, <2>4 DEF Stage
<1>18. Kinds'
  <2>1. Kinds
    BY DEF Inv
  <2>2. Held(phase_one)' = Held(phase_one) /\ Held(Moving)' = Held(Moving)
    BY <1>2, <1>3 DEF Held
  <2>3. (IsRequest(New) <=> IsRequest(New)') /\ (IsPhase(Moving) <=> IsPhase(Moving)') /\ (IsPhase(phase_one) <=> IsPhase(phase_one)')
    BY <1>2, <1>3
  <2> QED BY <1>2, <1>3, <1>15, <2>1, <2>2, <2>3 DEF Kinds
<1>19. Ages'
  BY <1>2, <1>3 DEF Inv, Ages, RequestIds, PhaseIds
<1>20. /\ AllClosed(h) => AllClosed(h2)
       /\ \A id : Promised(h, id) /\ ~(h[1].op = "callback" /\ h[1].id = id) => Promised(h2, id)
       /\ \A done : Spares(h, done) => Spares(h2, done)
  <2>1. Len(h) \in Nat /\ Len(h2) \in Nat
    BY <1>8, <1>10
  <2> QED BY <1>10, <2>1, TailCloses
<1>21. Waits'
  BY <1>2, <1>6, <1>13 DEF Inv, Waits
<1>22. Dues'
  BY <1>2, <1>3, <1>6, <1>13, <1>15 DEF Inv, Dues, Due, RequestIds
<1>23. Spared'
  BY <1>2, <1>6, <1>13, <1>20 DEF Inv, Spared
<1> QED BY <1>17, <1>18, <1>19, <1>21, <1>22, <1>23 DEF Inv

\* Every step keeps the invariant.
LEMMA NextKeeps == Inv /\ [Next]_vars => Inv'
<1> SUFFICES ASSUME Inv, [Next]_vars PROVE Inv'
  OBVIOUS
<1>1. CASE Receive BY <1>1, ReceiveKeeps
<1>2. CASE GetTreesAndCaps BY <1>2, GetTreesAndCapsKeeps
<1>3. CASE Synchronize BY <1>3, SynchronizeKeeps
<1>4. CASE PhaseOne BY <1>4, PhaseOneKeeps
<1>5. CASE PhaseTwo BY <1>5, PhaseTwoKeeps
<1>6. CASE PhaseThree BY <1>6, PhaseThreeKeeps
<1>7. CASE Close BY <1>7, CloseKeeps
<1>8. CASE \E s \in Streams : Execute(s)
  <2>1. Execute("exec") \/ Execute("h2d")
    BY <1>8 DEF Streams
  <2> QED BY <2>1, ExecuteExecKeeps, ExecuteH2dKeeps
<1>9. CASE Stopped \/ UNCHANGED vars
  BY <1>9, StutterKeeps DEF Stopped
<1> QED BY <1>1, <1>2, <1>3, <1>4, <1>5, <1>6, <1>7, <1>8, <1>9 DEF Next, Thread

\* In every reachable state the queues are sound, each request is in one place of
\* the pipeline with buffers of its own, and what is waited for will come.
THEOREM Invariance == Spec => []Inv
BY InitIsFine, NextKeeps, PTL DEF Spec

\* The queues and the buffers, by the invariant.
LEMMA QueueTypes ==
  ASSUME Inv
  PROVE  /\ streams \in Work /\ DOMAIN streams = Streams
         /\ streams["exec"] \in Seq(ExecOps) /\ streams["h2d"] \in Seq(H2dOps)
         /\ contents \in [Blocks -> Data \cup {None}]
         /\ Sound(streams["exec"], streams["h2d"], contents)
BY DEF Inv, Stage, Scene, Sound, Work

\* What is pending is an operation.
LEMMA PendingTypes ==
  ASSUME Inv
  PROVE  /\ \A op \in Pending("exec") : op \in ExecOps
         /\ \A op \in Pending("h2d") : op \in H2dOps
<1>1. \A i \in DOMAIN streams["exec"] : streams["exec"][i] \in ExecOps
  BY QueueTypes
<1>2. \A i \in DOMAIN streams["h2d"] : streams["h2d"][i] \in H2dOps
  BY QueueTypes
<1> QED BY <1>1, <1>2 DEF Pending

\* The state keeps its type; the buffers of the transfers of a request are
\* different ones, and all are buffers of the pool (ProverContext::alloc).
THEOREM TypeCorrect == Spec => []TypeOK
<1>1. ASSUME Inv PROVE TypeOK
  <2>1. \A s \in Streams : \A op \in Pending(s) : IsOperation(op)
    <3>1. ASSUME NEW op \in ExecOps PROVE IsOperation(op)
      BY DEF ExecOps, KernelOps, CallbackOps, EventOps, IsOperation
    <3>2. ASSUME NEW op \in H2dOps PROVE IsOperation(op)
      BY DEF H2dOps, CopyOps, EventOps, IsOperation
    <3> QED BY <1>1, <3>1, <3>2, PendingTypes DEF Streams
  <2>2. Kinds
    BY <1>1 DEF Inv
  <2>3. \A phase \in {phase_one} \cup (IF worker = "phase_two" THEN {request} ELSE {}) :
          phase # None => /\ phase \in Phases
                          /\ DOMAIN phase.device = Needed(phase.request)
                          /\ \A m, n \in DOMAIN phase.device : m # n => phase.device[m] # phase.device[n]
    <3>1. ASSUME NEW phase, IsPhase(phase)
          PROVE  /\ phase \in Phases
                 /\ DOMAIN phase.device = Needed(phase.request)
                 /\ \A m, n \in DOMAIN phase.device : m # n => phase.device[m] # phase.device[n]
      BY <3>1 DEF IsPhase, Apart
    <3>2. /\ phase_one # None => IsPhase(phase_one)
          /\ worker = "phase_two" /\ request # None => IsPhase(request)
      BY <2>2 DEF Kinds, Moving
    <3> QED BY <3>1, <3>2
  <2>4. DOMAIN streams = Streams /\ contents \in [Blocks -> Data \cup {None}]
    BY <1>1, QueueTypes
  <2>5. /\ worker \in {"receive", "get_trees_and_caps", "synchronize", "phase_one", "phase_two",
                       "phase_three", "closed", "panicked"}
        /\ phase_two \in Requests \cup {None}
        /\ even_odd_index \in {0, 1} /\ requested \in 0..Len(Circuits)
        /\ written \subseteq Ids /\ answered \subseteq Ids
    BY <2>2 DEF Kinds
  <2> QED BY <2>1, <2>3, <2>4, <2>5 DEF TypeOK
<1> QED BY <1>1, Invariance, PTL

\* No copy of the h2d stream and operation of the exec stream that may run at the
\* same time touch the same buffer, although buffers are dropped while the work
\* that uses them is pending (the events of Transfer order them).
THEOREM StreamsNeverRace == Spec => []StreamsDoNotRace
<1>1. ASSUME Inv PROVE StreamsDoNotRace
  <2>1. SUFFICES ASSUME Ready("exec"), Ready("h2d")
                 PROVE  ~Conflict(Head(streams["exec"]), Head(streams["h2d"]))
    BY DEF StreamsDoNotRace
  <2>2. PICK e, h, c : e = streams["exec"] /\ h = streams["h2d"] /\ c = contents
    OBVIOUS
  <2>3. Sound(e, h, c) /\ e \in Seq(ExecOps) /\ h \in Seq(H2dOps)
    BY <1>1, <2>2, QueueTypes
  <2>4. e # <<>> /\ h # <<>>
    BY <2>1, <2>2 DEF Ready
  <2>5. e[1] = Head(e) /\ h[1] = Head(h) /\ Head(e) \in ExecOps /\ Head(h) \in H2dOps
    BY <2>3, <2>4
  <2>6. PICK p \in ExecOps, q \in H2dOps : p = Head(e) /\ q = Head(h)
    BY <2>5
  <2>7. CASE q \in CopyOps
    <3>1. q.op = "copy" /\ BlocksWritten(q) = {q.block} /\ BlocksRead(q) = {}
      BY <2>7 DEF CopyOps, BlocksWritten, BlocksRead
    <3>2. ~Touches(p, q.block)
      BY <2>3, <2>4, <2>5, <2>6, <3>1, HeadsAreApart
    <3>3. q.block \notin BlocksRead(p) /\ q.block \notin BlocksWritten(p)
      <4>1. CASE p \in KernelOps
        <5>1. \A r \in p.reads : r = <<r[1], r[2]>>
          BY <4>1 DEF KernelOps
        <5>2. p.op = "kernel" /\ BlocksWritten(p) = {p.block} /\ BlocksRead(p) = {r[1] : r \in p.reads}
          BY <4>1 DEF KernelOps, BlocksWritten, BlocksRead
        <5>3. ASSUME NEW r \in p.reads, q.block = r[1] PROVE FALSE
          <6>1. <<q.block, r[2]>> \in p.reads
            BY <5>1, <5>3
          <6>2. p.op \in {"kernel", "callback"}
            BY <5>2
          <6>3. Reads(p, q.block, r[2])
            BY <6>1, <6>2 DEF Reads
          <6> QED BY <3>2, <6>3 DEF Touches
        <5>4. q.block # p.block
          BY <3>2, <5>2 DEF Touches, Writes
        <5> QED BY <5>2, <5>3, <5>4
      <4>2. CASE p \in CallbackOps
        <5>1. \A r \in p.reads : r = <<r[1], r[2]>>
          BY <4>2 DEF CallbackOps
        <5>2. p.op = "callback" /\ BlocksWritten(p) = {} /\ BlocksRead(p) = {r[1] : r \in p.reads}
          BY <4>2 DEF CallbackOps, BlocksWritten, BlocksRead
        <5>3. ASSUME NEW r \in p.reads, q.block = r[1] PROVE FALSE
          <6>1. <<q.block, r[2]>> \in p.reads
            BY <5>1, <5>3
          <6>2. p.op \in {"kernel", "callback"}
            BY <5>2
          <6>3. Reads(p, q.block, r[2])
            BY <6>1, <6>2 DEF Reads
          <6> QED BY <3>2, <6>3 DEF Touches
        <5> QED BY <5>2, <5>3
      <4>3. CASE p \in EventOps
        BY <4>3 DEF EventOps, BlocksWritten, BlocksRead
      <4> QED BY <4>1, <4>2, <4>3 DEF ExecOps
    <3> QED BY <2>2, <2>6, <3>1, <3>3 DEF Conflict
  <2>8. CASE q \in EventOps
    <3>1. BlocksWritten(q) = {} /\ BlocksRead(q) = {}
      BY <2>8 DEF EventOps, BlocksWritten, BlocksRead
    <3> QED BY <2>2, <2>6, <3>1 DEF Conflict
  <2> QED BY <2>7, <2>8 DEF H2dOps
<1> QED BY <1>1, Invariance, PTL

\* Every kernel and callback that may run finds what it should read: its own
\* transfers have arrived, no later owner of a buffer has written to it, and the
\* host block holds the result of its own job.
THEOREM KernelsFind == Spec => []KernelsFindTheirData
<1>1. ASSUME Inv PROVE KernelsFindTheirData
  <2>1. SUFFICES ASSUME NEW s \in Streams, Ready(s), "reads" \in DOMAIN Head(streams[s]),
                        NEW r \in Head(streams[s]).reads
                 PROVE  contents[r[1]] = r[2]
    BY DEF KernelsFindTheirData
  <2>2. PICK e, h, c : e = streams["exec"] /\ h = streams["h2d"] /\ c = contents
    OBVIOUS
  <2>3. Sound(e, h, c) /\ e \in Seq(ExecOps) /\ h \in Seq(H2dOps)
    BY <1>1, <2>2, QueueTypes
  <2>4. CASE s = "h2d"
    <3>1. Head(h) \in H2dOps
      BY <2>1, <2>2, <2>3, <2>4 DEF Ready
    <3>2. "reads" \notin DOMAIN Head(h)
      BY <3>1 DEF H2dOps, CopyOps, EventOps
    <3> QED BY <2>1, <2>2, <2>4, <3>2
  <2>5. CASE s = "exec"
    <3>1. e # <<>>
      BY <2>1, <2>2, <2>5 DEF Ready
    <3>2. Head(e) \in ExecOps /\ Head(e) = e[1]
      BY <2>3, <3>1
    <3>3. PICK p \in ExecOps : p = e[1]
      BY <3>2
    <3>4. "reads" \in DOMAIN p /\ r \in p.reads
      BY <2>1, <2>2, <2>5, <3>2, <3>3
    <3>5. p \in KernelOps \/ p \in CallbackOps
      BY <3>4 DEF ExecOps, EventOps
    <3>6. r = <<r[1], r[2]>> /\ p.op \in {"kernel", "callback"}
      BY <3>4, <3>5 DEF KernelOps, CallbackOps
    <3>7. PICK b, d : b = r[1] /\ d = r[2]
      OBVIOUS
    <3>8. Reads(e[1], b, d)
      BY <3>3, <3>4, <3>6, <3>7 DEF Reads
    <3>9. FindsAll(e, c)
      BY ONLY <2>3, <3>1, HeadFindsAll
    <3>10. c[b] = d
      BY ONLY <3>8, <3>9 DEF FindsAll
    <3> QED BY <2>2, <3>7, <3>10
  <2> QED BY <2>4, <2>5 DEF Streams
<1> QED BY <1>1, Invariance, PTL

\* The host memory of a copy that is pending is still held by its request: the
\* request is answered only when its job is finished, which comes after a wait
\* for each of its copies.
THEOREM SourcesStayHeld == Spec => []SourcesAreHeld
<1>1. ASSUME Inv PROVE SourcesAreHeld
  <2>1. streams["h2d"] \in Seq(H2dOps)
    BY <1>1, QueueTypes
  <2>2. Spares(streams["h2d"], answered)
    BY <1>1 DEF Inv, Spared
  <2> QED BY <2>1, <2>2 DEF SourcesAreHeld, Pending, Spares
<1> QED BY <1>1, Invariance, PTL

\* The result of a job is stored when the job is finished and the worker unwraps
\* it: its callback comes before its event, and lives until then.
THEOREM JobsGetResults == Spec => []JobsHaveResults
<1>1. ASSUME Inv PROVE JobsHaveResults
  BY <1>1 DEF Inv, Kinds, JobsHaveResults
<1> QED BY <1>1, Invariance, PTL

=============================================================================
