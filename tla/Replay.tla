------------------------------- MODULE Replay -------------------------------
(***************************************************************************)
(* One program run: the JIT-compiled simulator that records it, and the    *)
(* replayer that turns the record into witness rows.                       *)
(*                                                                         *)
(* The simulator executes on a memory image it borrows from a cache.  It   *)
(* keeps the last access timestamp of every word and register, and logs    *)
(* of every memory access only the old value and the old timestamp.  When  *)
(* a trace chunk is full, the machine state and the chunk become a         *)
(* snapshot.  A replayer starts from the state at the head of a snapshot   *)
(* and executes the same instructions with no memory at all: the log is    *)
(* read in order.  At the end the simulator collects and clears what the   *)
(* run touched, so that the image can be reused.                           *)
(*                                                                         *)
(* The instructions are one of each way the compiler treats an             *)
(* instruction.  Program counters count instructions, addresses words; x1, *)
(* x2 and x3 stand for the registers x10, x11 and x12 of the delegations,  *)
(* whose operands are one word each.                                       *)
(***************************************************************************)
EXTENDS Integers, SequencesExt

CONSTANTS
  Programs,       \* sequences of instructions, text_section
  Images,         \* contents of the ROM word, binary_image
  Bounds,         \* cycles_bound: numbers of cycles, or None
  MaxAddress,     \* words are 0..MaxAddress and so are values; word 0 is ROM
  TRACE_CHUNK_LEN,
  MAX_TRACE_CHUNK_LEN,
  Rounds,         \* cycles of the blake delegation
  ReducedRounds,  \* and with fewer rounds
  BoundModulus,   \* the bound is compared modulo 2^32: "add eax" clears the upper half of rax
  None

ASSUME ReplayAssumption ==
  /\ MaxAddress \in Nat \ {0} /\ MaxAddress % 2 = 1  \* a word has two parts
  /\ TRACE_CHUNK_LEN \in Nat \ {0}
  /\ MAX_TRACE_CHUNK_LEN \in Nat
  /\ MAX_TRACE_CHUNK_LEN >= TRACE_CHUNK_LEN + 3  \* the entries of the largest delegation
  /\ Rounds \in Nat \ {0} /\ ReducedRounds \in 1..Rounds
  /\ BoundModulus \in Nat \ {0}
  /\ Bounds \subseteq Nat \cup {None}
  /\ None \notin Nat

TIMESTAMP_STEP == 4
INITIAL_TIMESTAMP == 4

Words == 0..MaxAddress
Values == 0..MaxAddress
Rom == {0}
Registers == 0..3

InstructionType ==
  [op : {"add", "lui", "jal", "beq", "lw", "sw", "sb", "nd_read", "nd_write", "bigint", "blake"},
   rd : Registers, rs1 : Registers, rs2 : Registers, imm : Nat]

\* What decoding gives: a csrrw that writes to x0 is not an nd_read.
ASSUME ProgramsAssumption ==
  /\ \A code \in Programs :
       /\ code \in Seq(InstructionType)
       /\ \A n \in DOMAIN code : /\ code[n].op = "nd_read" => code[n].rd # 0
                                 /\ code[n].op = "lui" => code[n].imm \in Values
  /\ Images \subseteq Values

Wrap(n) == n % (MaxAddress + 1)

Families == {"AddSubLui", "BranchSlt", "ShiftBinaryCsr", "MemWord", "MemSubword"}
CounterType == Families \cup {"BlakeDelegation", "BigintDelegation"}

VARIABLES
  program, binary_image, cycles_bound,
  phase,        \* of the simulator task
  compiled,     \* instructions compiled: i of preprocess_bytecode
  labels,       \* initialized_jump_offsets: where compiled code begins
  hart,         \* MachineState
  memory,       \* of the memory holder
  timestamps,   \* of the memory holder
  trace,        \* the chunk being filled
  state,        \* of the runner: the machine state at the last snapshot
  is_aborted,   \* of the runner
  abort,        \* the flag shared by the tasks of a call
  snapshots,    \* sent and not yet taken by a replayer
  replay,       \* the replay in progress, or None
  balance       \* writes minus reads of all witness rows, where not zero

inputVars == <<program, binary_image, cycles_bound>>
holderVars == <<memory, timestamps>>
runnerVars == <<state, is_aborted, snapshots>>
simVars == <<phase, compiled, labels, hart, holderVars, trace, state, is_aborted>>
vars == <<inputVars, simVars, abort, snapshots, replay, balance>>

Instruction(pc) == program[pc + 1]

\* Instructions that only compute a result.
Pure(instruction) == instruction.op \in {"add", "lui", "lw"}

InitialMachine ==
  [pc |-> 0, timestamp |-> INITIAL_TIMESTAMP,
   registers |-> [r \in Registers |-> 0],
   register_timestamps |-> [r \in Registers |-> 0],
   counters |-> [c \in CounterType |-> 0]]

Init ==
  /\ program \in Programs
  /\ binary_image \in Images
  /\ cycles_bound \in Bounds
  /\ phase = "compile"
  /\ compiled = 0
  /\ labels = {}
  /\ hart = InitialMachine
  /\ \E stale \in Images \cup {0} : memory = [w \in Words |-> IF w \in Rom THEN stale ELSE 0]
  /\ timestamps = [w \in Words |-> 0]
  /\ trace = <<>>
  /\ state = InitialMachine
  /\ is_aborted = FALSE
  /\ abort = FALSE
  /\ snapshots = {}
  /\ replay = None
  /\ balance = <<>>

-----------------------------------------------------------------------------
(* Compiling the text section, and loading the image. *)

\* All cycles of a delegation follow each other, and no more of them.
CallsFollow(pc, calls) ==
  /\ \A n \in 1..(calls - 1) : pc + n < Len(program) /\ Instruction(pc + n) = Instruction(pc)
  /\ pc + calls < Len(program) /\ Instruction(pc + calls) # Instruction(pc)

\* The calls that the compiler counts, and asserts to be as many as either
\* variant has rounds.
CallCounts(pc) == {calls \in {ReducedRounds, Rounds} : CallsFollow(pc, calls)}
num_calls(pc) == CHOOSE calls \in CallCounts(pc) : TRUE

\* Entries of the text section an instruction takes.
Length(pc) == IF Instruction(pc).op = "blake" THEN num_calls(pc) ELSE 1

\* A pure instruction with the target x0 is passed over by a `continue` that
\* leaves i where it is.
Compile ==
  /\ phase = "compile"
  /\ compiled < Len(program)
  /\ LET instruction == Instruction(compiled)
     IN /\ instruction.op = "blake" => CallCounts(compiled) # {}
        /\ compiled' = IF Pure(instruction) /\ instruction.rd = 0
                       THEN compiled
                       ELSE compiled + Length(compiled)
  /\ labels' = labels \cup {compiled}
  /\ UNCHANGED <<inputVars, phase, hart, holderVars, trace, runnerVars, abort, replay, balance>>

\* Assembling the code fails when a jump leads to where nothing was compiled.
Load ==
  /\ phase = "compile"
  /\ compiled = Len(program)
  /\ \A pc \in labels : Instruction(pc).op \in {"jal", "beq"} => Instruction(pc).imm \in labels
  /\ phase' = "run"
  /\ memory' = [w \in Words |-> IF w \in Rom THEN binary_image ELSE memory[w]]
  /\ UNCHANGED <<inputVars, compiled, labels, hart, timestamps, trace, runnerVars, abort, replay, balance>>

-----------------------------------------------------------------------------
(* What the compiled code of an instruction is put together from. *)

bump_timestamp(h, d) == [h EXCEPT !.timestamp = @ + d]

Touch(h, r) == [h EXCEPT !.register_timestamps[r] = h.timestamp]

touch_register_and_bump_timestamp(h, r, d) == bump_timestamp(Touch(h, r), d)

pre_bump_timestamp_and_touch(h, d, r) == Touch(bump_timestamp(h, d), r)

record_circuit_type(h, type, by) == [h EXCEPT !.counters[type] = @ + by]

store_result(h, r, value) == [h EXCEPT !.registers[r] = value]

At(h, pc) == [h EXCEPT !.pc = pc]

\* A slip: the timestamp of a delegation is taken as it is.
Unaligned(t) == t

next_multiple_of_step(t) == ((t + TIMESTAMP_STEP - 1) \div TIMESTAMP_STEP) * TIMESTAMP_STEP

\* process_trace of the runner: a snapshot, or the end of snapshots.
process_trace(h, log) ==
  IF is_aborted
  THEN UNCHANGED runnerVars
  ELSE LET machine_state == [h EXCEPT !.timestamp = next_multiple_of_step(@)]
       IN /\ state' = machine_state
          /\ is_aborted' = abort
          /\ snapshots' = IF abort
                          THEN snapshots
                          ELSE snapshots \cup {[initial_state |-> state, trace |-> log,
                                                final_state |-> machine_state]}

\* A slip: a chunk is given up when it has more entries than it should.
check_too_late(h, log) ==
  IF Len(log) > TRACE_CHUNK_LEN
  THEN process_trace(h, log) /\ trace' = <<>>
  ELSE trace' = log /\ UNCHANGED runnerVars

check_to_save_trace(h, log) ==
  IF Len(log) >= TRACE_CHUNK_LEN
  THEN process_trace(h, log) /\ trace' = <<>>
  ELSE trace' = log /\ UNCHANGED runnerVars

\* A slip: the timestamp of this access is logged.
LoggedLate(address) == <<<<memory[address], hart.timestamp + 2>>>>

\* The old value and the old timestamp of a word.
Logged(address) == <<<<memory[address], timestamps[address]>>>>

ts_bound == (cycles_bound * TIMESTAMP_STEP + INITIAL_TIMESTAMP) % BoundModulus

\* A slip: one instruction too many.
PastBound == cycles_bound # None /\ hart.timestamp > ts_bound

\* emit_early_exit
Bounded == cycles_bound # None /\ hart.timestamp >= ts_bound

\* Past the last instruction the code ends with an error.
Executes(op) ==
  /\ phase = "run"
  /\ ~Bounded
  /\ hart.pc \in labels
  /\ Instruction(hart.pc).op = op

\* An instruction that neither touches memory nor logs anything.
Retire(h, pc) ==
  /\ hart' = At(h, pc)
  /\ UNCHANGED <<inputVars, phase, compiled, labels, holderVars, trace, runnerVars, abort, replay, balance>>

\* An instruction that logs some of the memory, or a value of the outside.
Record(h, log, pc) ==
  /\ hart' = At(h, pc)
  /\ check_to_save_trace(At(h, pc), log)
  /\ UNCHANGED <<inputVars, phase, compiled, labels, abort, replay, balance>>

Add ==
  /\ Executes("add")
  /\ LET i == Instruction(hart.pc)
         h1 == touch_register_and_bump_timestamp(hart, i.rs1, 1)
         h2 == touch_register_and_bump_timestamp(h1, i.rs2, 1)
         h3 == touch_register_and_bump_timestamp(record_circuit_type(h2, "AddSubLui", 1), i.rd, 2)
         sum == Wrap(hart.registers[i.rs1] + hart.registers[i.rs2])
     IN Retire(store_result(h3, i.rd, sum), hart.pc + 1)

Lui ==
  /\ Executes("lui")
  /\ LET i == Instruction(hart.pc)
         h1 == bump_timestamp(pre_bump_timestamp_and_touch(hart, 1, 0), 1)
         h2 == touch_register_and_bump_timestamp(record_circuit_type(h1, "AddSubLui", 1), i.rd, 2)
     IN Retire(store_result(h2, i.rd, i.imm), hart.pc + 1)

\* A jump to itself ends the program.
Jal ==
  /\ Executes("jal")
  /\ LET i == Instruction(hart.pc)
         linked == pre_bump_timestamp_and_touch(
                     store_result(pre_bump_timestamp_and_touch(hart, 1, 0), i.rd, Wrap(hart.pc + 1)),
                     1, i.rd)
         touched == IF i.rd # 0 THEN linked ELSE pre_bump_timestamp_and_touch(hart, 2, 0)
         h == record_circuit_type(bump_timestamp(touched, 2), "BranchSlt", 1)
     IN IF i.imm = hart.pc
        THEN /\ hart' = h
             /\ phase' = "quit"
             /\ UNCHANGED <<inputVars, compiled, labels, holderVars, trace, runnerVars, abort, replay, balance>>
        ELSE Retire(h, i.imm)

Beq ==
  /\ Executes("beq")
  /\ LET i == Instruction(hart.pc)
         h1 == touch_register_and_bump_timestamp(hart, i.rs1, 1)
         h2 == touch_register_and_bump_timestamp(h1, i.rs2, 1)
         h3 == touch_register_and_bump_timestamp(h2, 0, 2)
         taken == hart.registers[i.rs1] = hart.registers[i.rs2]
     IN Retire(record_circuit_type(h3, "BranchSlt", 1), IF taken THEN i.imm ELSE hart.pc + 1)

Lw ==
  /\ Executes("lw")
  /\ LET i == Instruction(hart.pc)
         address == hart.registers[i.rs1]
         h1 == touch_register_and_bump_timestamp(hart, i.rs1, 1)
         h2 == record_circuit_type(bump_timestamp(h1, 1), "MemWord", 1)
         h3 == touch_register_and_bump_timestamp(h2, i.rd, 2)
     IN /\ timestamps' = [timestamps EXCEPT ![address] = h1.timestamp]
        /\ UNCHANGED memory
        /\ Record(store_result(h3, i.rd, memory[address]), trace \o Logged(address), hart.pc + 1)

\* A slip: the bits of the value are not cut off.
MergeWide(old, value) == ((old \div 2) * 2) + value

\* The part of a word that a store of a subword replaces.
Merge(old, value) == ((old \div 2) * 2) + (value % 2)

\* The old word and its timestamp are logged, and the chunk is looked at after
\* the store.  Programs do not write to the ROM.
Store ==
  /\ Executes("sw") \/ Executes("sb")
  /\ LET i == Instruction(hart.pc)
         address == hart.registers[i.rs1]
         value == hart.registers[i.rs2]
         h1 == touch_register_and_bump_timestamp(hart, i.rs1, 1)
         h2 == touch_register_and_bump_timestamp(h1, i.rs2, 1)
         type == IF i.op = "sw" THEN "MemWord" ELSE "MemSubword"
     IN /\ address \notin Rom
        /\ memory' = [memory EXCEPT ![address] = IF i.op = "sw" THEN value ELSE Merge(@, value)]
        /\ timestamps' = [timestamps EXCEPT ![address] = h2.timestamp]
        /\ Record(record_circuit_type(bump_timestamp(h2, 2), type, 1),
                  trace \o Logged(address), hart.pc + 1)

ReadNonDeterminism ==
  /\ Executes("nd_read")
  /\ \E value \in Values :
       LET i == Instruction(hart.pc)
           h1 == store_result(pre_bump_timestamp_and_touch(hart, 1, 0), i.rd, value)
           h2 == bump_timestamp(pre_bump_timestamp_and_touch(h1, 1, i.rd), 2)
       IN Record(record_circuit_type(h2, "ShiftBinaryCsr", 1),
                 Append(trace, <<value, 0>>), hart.pc + 1)
  /\ UNCHANGED holderVars

WriteNonDeterminism ==
  /\ Executes("nd_write")
  /\ LET h1 == touch_register_and_bump_timestamp(hart, Instruction(hart.pc).rs1, 1)
         h2 == bump_timestamp(pre_bump_timestamp_and_touch(h1, 1, 0), 2)
     IN Retire(record_circuit_type(h2, "ShiftBinaryCsr", 1), hart.pc + 1)

-----------------------------------------------------------------------------
(* Delegations: a marker instruction for every cycle they take, and one    *)
(* call for all of them.                                                   *)

\* The assertions on the pointers hold, and the chunk has room.  An operand is a
\* word here: pointers that differ are operands that do not overlap, as the
\* alignment that bigint asserts makes sure.
DelegationPointers(h) ==
  /\ h.registers[1] \notin Rom
  /\ h.registers[2] \notin Rom
  /\ h.registers[1] # h.registers[2]

TouchAbi(h) ==
  [h EXCEPT !.register_timestamps = [r \in Registers |-> IF r = 0 THEN @[r] ELSE h.timestamp]]

\* A slip: the marker instructions count as one.
MarkedOnce(h, type, cycles) ==
  LET counted == record_circuit_type(record_circuit_type(h, type, cycles), "ShiftBinaryCsr", 1)
  IN bump_timestamp(pre_bump_timestamp_and_touch(counted, 2, 0), 1)

\* The state of the machine when the delegation is called: 3 mod 4.
Marked(h, type, cycles) ==
  LET counted == record_circuit_type(record_circuit_type(h, type, cycles),
                                     "ShiftBinaryCsr", cycles)
  IN bump_timestamp(pre_bump_timestamp_and_touch(counted, 2, 0), 1)

\* After the call the chunk is looked at, still at 3 mod 4.
Delegated(h, log, cycles) ==
  /\ hart' = bump_timestamp(At(h, hart.pc + cycles), 1)
  /\ check_to_save_trace(At(h, hart.pc + cycles), log)
  /\ UNCHANGED <<inputVars, phase, compiled, labels, abort, replay, balance>>

\* Sum and carry: what the bigint delegation stands for.
bigint_impl(a, b) == <<Wrap(a + b), (a + b) \div (MaxAddress + 1)>>

Bigint ==
  /\ Executes("bigint")
  /\ DelegationPointers(hart)
  /\ LET a_ptr == hart.registers[1]
         b_ptr == hart.registers[2]
         h1 == TouchAbi(Marked(hart, "BigintDelegation", 1))
         result == bigint_impl(memory[a_ptr], memory[b_ptr])
     IN /\ memory' = [memory EXCEPT ![a_ptr] = result[1]]
        /\ timestamps' = [timestamps EXCEPT ![a_ptr] = h1.timestamp, ![b_ptr] = h1.timestamp]
        /\ Delegated(store_result(h1, 3, result[2]),
                     Append(trace \o Logged(b_ptr) \o Logged(a_ptr), <<result[2], 0>>), 1)

\* One round of the hash.
Mix(word, input) == Wrap(word + input + 1)

\* The control words a call may start with: the first permutation, with all
\* rounds or with fewer.  The word moves on with every round, in opposite
\* directions to tell both variants apart.
ControlWords == {0, MaxAddress}
num_rounds(control) == IF control = 0 THEN Rounds ELSE ReducedRounds
Control(control, rounds) == IF control = 0 THEN Wrap(rounds) ELSE Wrap(control - rounds)

\* Programs ask for as many rounds as they make calls: the simulator counts
\* calls, takes the time of the rounds, and never compares the two.
Blake ==
  /\ Executes("blake")
  /\ DelegationPointers(hart)
  /\ hart.registers[3] \in ControlWords
  /\ num_calls(hart.pc) = num_rounds(hart.registers[3])
  /\ LET state_ptr == hart.registers[1]
         input_ptr == hart.registers[2]
         calls == num_calls(hart.pc)
         rounds == num_rounds(hart.registers[3])
         h1 == TouchAbi(bump_timestamp(Marked(hart, "BlakeDelegation", calls),
                                       (rounds - 1) * TIMESTAMP_STEP))
         h2 == [store_result(h1, 3, Control(hart.registers[3], rounds))
                EXCEPT !.register_timestamps[0] = h1.timestamp - 1]
         mixed[round \in 0..Rounds] ==
           IF round = 0 THEN memory[state_ptr] ELSE Mix(mixed[round - 1], memory[input_ptr])
     IN /\ memory' = [memory EXCEPT ![state_ptr] = mixed[rounds]]
        /\ timestamps' = [timestamps EXCEPT ![state_ptr] = h1.timestamp,
                                            ![input_ptr] = h1.timestamp]
        /\ Delegated(h2, trace \o Logged(state_ptr) \o Logged(input_ptr), calls)

-----------------------------------------------------------------------------
(* The end of a run. *)

\* The bound is looked at before every instruction.
EarlyExit ==
  /\ phase = "run"
  /\ Bounded
  /\ hart.pc \in labels
  /\ phase' = "quit"
  /\ UNCHANGED <<inputVars, compiled, labels, hart, holderVars, trace, runnerVars, abort, replay, balance>>

Quit ==
  /\ phase = "quit"
  /\ phase' = "done"
  /\ process_trace(hart, trace)
  /\ trace' = <<>>
  /\ UNCHANGED <<inputVars, compiled, labels, hart, holderVars, abort, replay, balance>>

\* What a balance says of an entry, and what it says after some rows.
Held(b, entry) == IF entry \in DOMAIN b THEN b[entry] ELSE 0

Total(b, rows, entry) ==
  Held(b, entry) + Cardinality({n \in DOMAIN rows : rows[n][2] = entry})
                 - Cardinality({n \in DOMAIN rows : rows[n][1] = entry})

Settle(b, rows) ==
  LET entries == DOMAIN b \cup {rows[n][1] : n \in DOMAIN rows} \cup {rows[n][2] : n \in DOMAIN rows}
  IN [entry \in {e \in entries : Total(b, rows, e) # 0} |-> Total(b, rows, entry)]

\* A word or register comes into being as zero at timestamp zero.
Initial(space, address) == <<space, address, 0, 0>>

\* A slip: nothing is collected from the ROM.
TouchedRam == {w \in Words \ Rom : timestamps[w] # 0}

Touched == {w \in Words : timestamps[w] # 0}

\* The words that were touched are torn down and cleared; what the ROM holds is
\* taken for zero.  The registers are torn down with the last snapshot's values.
CollectInitsAndTeardowns ==
  /\ phase = "done"
  /\ ~abort
  /\ phase' = "cached"
  /\ LET places == ({"ram"} \X Touched) \cup ({"reg"} \X Registers)
         teardown_value(w) == IF w \in Rom THEN 0 ELSE memory[w]
         Teardown(p) ==
           IF p[1] = "ram"
           THEN <<"ram", p[2], teardown_value(p[2]), timestamps[p[2]]>>
           ELSE <<"reg", p[2], state.registers[p[2]], state.register_timestamps[p[2]]>>
     IN balance' = Settle(balance, [p \in places |-> <<Teardown(p), Initial(p[1], p[2])>>])
  /\ memory' = [w \in Words |-> IF w \in Touched THEN 0 ELSE memory[w]]
  /\ timestamps' = [w \in Words |-> IF w \in Touched THEN 0 ELSE timestamps[w]]
  /\ UNCHANGED <<inputVars, compiled, labels, hart, trace, runnerVars, abort, replay>>

Reset ==
  /\ phase = "done"
  /\ abort
  /\ phase' = "cached"
  /\ memory' = [w \in Words |-> 0]
  /\ timestamps' = [w \in Words |-> 0]
  /\ UNCHANGED <<inputVars, compiled, labels, hart, trace, runnerVars, abort, replay, balance>>

Abort ==
  /\ phase # "cached"
  /\ abort' = TRUE
  /\ UNCHANGED <<inputVars, simVars, snapshots, replay, balance>>

-----------------------------------------------------------------------------
(* The replayer: the state of its machine, the rest of the log, and the    *)
(* rows of the instruction it executed last.                               *)

Cycles(snapshot) ==
  (snapshot.final_state.timestamp - snapshot.initial_state.timestamp) \div TIMESTAMP_STEP

TakeSnapshot(snapshot) ==
  LET s == snapshot.initial_state
  IN [pc |-> s.pc, timestamp |-> s.timestamp, registers |-> s.registers,
      register_timestamps |-> s.register_timestamps, log |-> snapshot.trace,
      intact |-> TRUE, stopped |-> FALSE, rows |-> <<>>,
      counted |-> [c \in CounterType |-> 0], snapshot |-> snapshot]

\* A replayer that sees the abort flag gives the chunk back unread.
BeginReplay ==
  /\ replay = None
  /\ \E snapshot \in snapshots :
       /\ snapshots' = snapshots \ {snapshot}
       /\ replay' = IF abort THEN None ELSE TakeSnapshot(snapshot)
  /\ UNCHANGED <<inputVars, simVars, abort, balance>>

Row(vm, read, written) == [vm EXCEPT !.rows = Append(@, <<read, written>>)]

\* An access of a register, at an offset into the cycle.
write_register_with_ts(vm, offset, r, value) ==
  LET written == IF r = 0 THEN 0 ELSE value
  IN [Row(vm, <<"reg", r, vm.registers[r], vm.register_timestamps[r]>>,
              <<"reg", r, written, vm.timestamp + offset>>)
      EXCEPT !.registers[r] = written, !.register_timestamps[r] = vm.timestamp + offset]

read_register_with_ts(vm, offset, r) ==
  write_register_with_ts(vm, offset, r, vm.registers[r])

\* The next entry of the log; past its end the replayer would read anything.
Entry(vm) == IF vm.log = <<>> THEN <<0, 0>> ELSE Head(vm.log)

Popped(vm) ==
  IF vm.log = <<>> THEN [vm EXCEPT !.intact = FALSE] ELSE [vm EXCEPT !.log = Tail(@)]

\* An assertion of the code.
Asserted(vm, condition) == [vm EXCEPT !.intact = @ /\ condition]

\* A slip: the word is read as it is.
unmasked_read(address, value) == value

\* In the witness a word of the ROM is read as zero.
mask_read_for_witness(address, value) == IF address \in Rom THEN 0 ELSE value

read_word(vm, offset, address) ==
  LET value == mask_read_for_witness(address, Entry(vm)[1])
  IN Row(Popped(vm), <<"ram", address, value, Entry(vm)[2]>>,
         <<"ram", address, value, vm.timestamp + offset>>)

write_word(vm, offset, address, value) ==
  Row(Popped(vm), <<"ram", address, Entry(vm)[1], Entry(vm)[2]>>,
      <<"ram", address, value, vm.timestamp + offset>>)

BoundReached == replay.timestamp >= replay.snapshot.initial_state.timestamp
                                      + TIMESTAMP_STEP * Cycles(replay.snapshot)

Finished == replay.stopped \/ BoundReached

Replays(op) ==
  /\ replay # None
  /\ ~Finished
  /\ Instruction(replay.pc).op = op

\* After an instruction: a step of the timestamp, and the end at a jump to itself.
Advance(vm, pc, type) ==
  /\ replay' = [vm EXCEPT !.pc = pc,
                          !.timestamp = @ + TIMESTAMP_STEP,
                          !.stopped = (pc = replay.pc),
                          !.counted[type] = @ + 1]
  /\ balance' = Settle(balance, vm.rows)
  /\ UNCHANGED <<inputVars, simVars, abort, snapshots>>

Fresh == [replay EXCEPT !.rows = <<>>]

ReplayAdd ==
  /\ Replays("add")
  /\ LET i == Instruction(replay.pc)
         v1 == read_register_with_ts(Fresh, 0, i.rs1)
         v2 == read_register_with_ts(v1, 1, i.rs2)
         sum == Wrap(replay.registers[i.rs1] + replay.registers[i.rs2])
     IN Advance(write_register_with_ts(v2, 2, i.rd, sum), replay.pc + 1, "AddSubLui")

touch_x0_twice(vm) == read_register_with_ts(read_register_with_ts(vm, 0, 0), 1, 0)

ReplayLui ==
  /\ Replays("lui")
  /\ LET i == Instruction(replay.pc)
     IN Advance(write_register_with_ts(touch_x0_twice(Fresh), 2, i.rd, i.imm),
                replay.pc + 1, "AddSubLui")

ReplayJal ==
  /\ Replays("jal")
  /\ LET i == Instruction(replay.pc)
     IN Advance(write_register_with_ts(touch_x0_twice(Fresh), 2, i.rd, Wrap(replay.pc + 1)),
                i.imm, "BranchSlt")

ReplayBeq ==
  /\ Replays("beq")
  /\ LET i == Instruction(replay.pc)
         v1 == read_register_with_ts(Fresh, 0, i.rs1)
         v2 == read_register_with_ts(v1, 1, i.rs2)
         taken == replay.registers[i.rs1] = replay.registers[i.rs2]
     IN Advance(write_register_with_ts(v2, 2, 0, 0),
                IF taken THEN i.imm ELSE replay.pc + 1, "BranchSlt")

ReplayLw ==
  /\ Replays("lw")
  /\ LET i == Instruction(replay.pc)
         v1 == read_register_with_ts(Fresh, 0, i.rs1)
         v2 == read_word(v1, 1, replay.registers[i.rs1])
     IN Advance(write_register_with_ts(v2, 2, i.rd, Entry(v1)[1]), replay.pc + 1, "MemWord")

\* A store of a subword takes the rest of the word from the log.
ReplayStore ==
  /\ Replays("sw") \/ Replays("sb")
  /\ LET i == Instruction(replay.pc)
         v1 == read_register_with_ts(Fresh, 0, i.rs1)
         v2 == read_register_with_ts(v1, 1, i.rs2)
         value == replay.registers[i.rs2]
         new_value == IF i.op = "sw" THEN value ELSE Merge(Entry(v2)[1], value)
     IN Advance(write_word(v2, 2, replay.registers[i.rs1], new_value), replay.pc + 1,
                IF i.op = "sw" THEN "MemWord" ELSE "MemSubword")

\* The value comes from the log; its timestamp has to be zero.
ReplayReadNonDeterminism ==
  /\ Replays("nd_read")
  /\ LET i == Instruction(replay.pc)
         v1 == Asserted(touch_x0_twice(Fresh), Entry(replay)[2] = 0)
         v2 == Popped(v1)
     IN Advance(write_register_with_ts(v2, 2, i.rd, Entry(replay)[1]),
                replay.pc + 1, "ShiftBinaryCsr")

ReplayWriteNonDeterminism ==
  /\ Replays("nd_write")
  /\ LET v1 == read_register_with_ts(Fresh, 0, Instruction(replay.pc).rs1)
         v2 == read_register_with_ts(v1, 1, 0)
     IN Advance(read_register_with_ts(v2, 2, 0), replay.pc + 1, "ShiftBinaryCsr")

\* The row of a marker instruction.
Marker(vm) == read_register_with_ts(touch_x0_twice(vm), 2, 0)

\* The result is computed again and has to agree with the carry in the log.
ReplayBigint ==
  /\ Replays("bigint")
  /\ LET a_ptr == replay.registers[1]
         b_ptr == replay.registers[2]
         v1 == read_register_with_ts(read_register_with_ts(Marker(Fresh), 3, 1), 3, 2)
         v2 == read_word(v1, 3, b_ptr)
         result == bigint_impl(Entry(v2)[1], Entry(v1)[1])
         v3 == write_word(v2, 3, a_ptr, result[1])
         v4 == Popped(Asserted(v3, Entry(v3) = <<result[2], 0>>))
     IN Advance([write_register_with_ts(v4, 3, 3, result[2])
                 EXCEPT !.counted["BigintDelegation"] = @ + 1],
                replay.pc + 1, "ShiftBinaryCsr")

\* A row for every round.  The first round reads what the log says, the others
\* what the round before them wrote.
ReplayBlake ==
  /\ Replays("blake")
  /\ LET state_ptr == replay.registers[1]
         input_ptr == replay.registers[2]
         control == replay.registers[3]
         word == Entry(replay)
         input == Entry(Popped(replay))
         mixed[n \in 0..Rounds] == IF n = 0 THEN word[1] ELSE Mix(mixed[n - 1], input[1])
         Next_ts(vm) == [vm EXCEPT !.timestamp = @ + TIMESTAMP_STEP]
         Access(vm, address, old, old_ts, new) ==
           Row(vm, <<"ram", address, old, old_ts>>, <<"ram", address, new, vm.timestamp + 3>>)
         Round(vm, n) ==
           LET v1 == read_register_with_ts(read_register_with_ts(Marker(vm), 3, 1), 3, 2)
               v2 == write_register_with_ts(v1, 3, 3, Control(control, n))
               before == vm.timestamp - TIMESTAMP_STEP + 3
               v3 == Access(v2, state_ptr, mixed[n - 1],
                            IF n = 1 THEN word[2] ELSE before, mixed[n])
           IN Access(v3, input_ptr, input[1], IF n = 1 THEN input[2] ELSE before, input[1])
         begun == Asserted(Popped(Popped(Fresh)), control \in ControlWords)
         rounds[n \in 1..Rounds] == IF n = 1 THEN Round(begun, 1)
                                             ELSE Round(Next_ts(rounds[n - 1]), n)
         count == num_rounds(control)
     IN Advance([rounds[count] EXCEPT !.counted["BlakeDelegation"] = @ + count,
                                      !.counted["ShiftBinaryCsr"] = @ + count - 1],
                replay.pc + count, "ShiftBinaryCsr")

\* The assertions at the end of a replay are ReplayReachesRecorded.
EndReplay ==
  /\ replay # None
  /\ Finished
  /\ replay' = None
  /\ UNCHANGED <<inputVars, simVars, abort, snapshots, balance>>

Simulate ==
  \/ Compile \/ Load
  \/ Add \/ Lui \/ Jal \/ Beq \/ Lw \/ Store \/ ReadNonDeterminism \/ WriteNonDeterminism
  \/ Bigint \/ Blake
  \/ EarlyExit \/ Quit \/ CollectInitsAndTeardowns \/ Reset

Replayer ==
  \/ BeginReplay \/ EndReplay
  \/ ReplayAdd \/ ReplayLui \/ ReplayJal \/ ReplayBeq \/ ReplayLw \/ ReplayStore
  \/ ReplayReadNonDeterminism \/ ReplayWriteNonDeterminism \/ ReplayBigint \/ ReplayBlake

Next == Simulate \/ Replayer \/ Abort

Spec == Init /\ [][Next]_vars

FairSpec == Spec /\ WF_vars(Simulate) /\ WF_vars(Replayer)

-----------------------------------------------------------------------------
(* Properties. *)

\* The holder, the chunk and the machine states have the shapes of the code.
TypeOK ==
  /\ phase \in {"compile", "run", "quit", "done", "cached"}
  /\ compiled \in 0..Len(program)
  /\ memory \in [Words -> Values]
  /\ timestamps \in [Words -> Nat]
  /\ hart.registers \in [Registers -> Values]
  /\ hart.counters \in [CounterType -> Nat]
  /\ hart.registers[0] = 0
  /\ trace \in Seq(Values \X Nat)
  /\ is_aborted \in BOOLEAN /\ abort \in BOOLEAN

\* The assertions of run_replayer and of the replayed instructions: executing a
\* snapshot from the log alone, a replay fails no assertion on an entry and ends
\* at the recorded pc, timestamp and registers, with the log used up to its last
\* entry and never beyond.
ReplayReachesRecorded ==
  replay # None =>
    /\ replay.intact
    /\ Finished =>
         LET final == replay.snapshot.final_state
         IN /\ replay.pc = final.pc
            /\ replay.timestamp = final.timestamp
            /\ replay.registers = final.registers
            /\ replay.register_timestamps = final.register_timestamps
            /\ replay.log = <<>>

\* The tracing data of a snapshot has room for exactly the rows its replay writes:
\* the differences of the counters, by which process_snapshot lays out the
\* buffers, are the numbers of rows of every type, and they add up to the cycles.
RowsMatchCounters ==
  /\ replay # None /\ Finished =>
       LET s == replay.snapshot
       IN replay.counted = [c \in CounterType |->
                              s.final_state.counters[c] - s.initial_state.counters[c]]
  /\ \A s \in snapshots :
       Cycles(s) = SumFunction([c \in Families |->
                                s.final_state.counters[c] - s.initial_state.counters[c]])

\* Every access reads what an earlier access wrote: its timestamp is smaller.
AccessesGoForward ==
  replay # None =>
    \A n \in DOMAIN replay.rows :
      LET row == replay.rows[n] IN row[1][4] < row[2][4]

\* The memory argument the proofs rest on: over all rows, the inits and the
\* teardowns of a run, what is read is what is written, entry by entry, whatever
\* the order of the replays.
MemoryArgumentBalances ==
  (phase = "cached" /\ ~abort /\ snapshots = {} /\ replay = None) => balance = <<>>

\* A holder in the cache serves the next run as a new one would: no word outside
\* the ROM, which the next run overwrites, and no timestamp is left of this run.
CachedHolderIsClean ==
  phase = "cached" =>
    /\ \A w \in Words \ Rom : memory[w] = 0
    /\ \A w \in Words : timestamps[w] = 0

\* A chunk is given up as soon as it has TRACE_CHUNK_LEN entries, so there is
\* room for those of one more instruction: the assertions on len before and
\* after a delegation, and that of the receiver, hold.
ChunkWithinCapacity ==
  /\ phase = "run" => Len(trace) < TRACE_CHUNK_LEN
  /\ \A s \in snapshots : Len(s.trace) < MAX_TRACE_CHUNK_LEN

\* A bound on the cycles is passed by less than the longest delegation.
BoundIsKept ==
  cycles_bound # None /\ phase # "compile" =>
    hart.timestamp < INITIAL_TIMESTAMP + TIMESTAMP_STEP * (cycles_bound + Rounds)

\* Compiling comes to an end: "Instructions that just compute a result are NOPs
\* if they write to x0".
CompilationEnds == <>(phase # "compile")
=============================================================================
