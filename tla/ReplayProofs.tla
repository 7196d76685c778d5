---------------------------- MODULE ReplayProofs ----------------------------
(***************************************************************************)
(* What the simulator leaves in the memory holder, how far it runs past    *)
(* its bound, and that a replay of what it recorded ends where it ended,   *)
(* for every program, image and size of memory.                            *)
(*                                                                         *)
(* The last is shown with the relation Turn: what an instruction makes of  *)
(* a machine and of a log.  The log of a chunk is that of a path of turns  *)
(* from the last snapshot to where the simulator is, and the replay of a   *)
(* snapshot walks along the path of the snapshot.                          *)
(*                                                                         *)
(* The paths also carry the account of the memory argument: what the       *)
(* replays will still add to the balance of an entry, with what is in it   *)
(* and the zeros it starts from, is what stands in the registers and in    *)
(* memory.                                                                 *)
(***************************************************************************)
EXTENDS Replay, SumTheorems, SequenceTheorems, TLAPS

-----------------------------------------------------------------------------
(* The machine state, and what every part of an instruction adds to its    *)
(* timestamp.                                                              *)

Machine(h, t) ==
  /\ DOMAIN h = {"pc", "timestamp", "registers", "register_timestamps", "counters"}
  /\ h.timestamp = t

LEMMA BumpTakes ==
  ASSUME NEW h, NEW t \in Nat, Machine(h, t), NEW d \in Nat
  PROVE  Machine(bump_timestamp(h, d), t + d)
BY DEF Machine, bump_timestamp

LEMMA TouchTakesNothing ==
  ASSUME NEW h, NEW t \in Nat, Machine(h, t), NEW r
  PROVE  Machine(Touch(h, r), t)
BY DEF Machine, Touch

LEMMA RecordTakesNothing ==
  ASSUME NEW h, NEW t \in Nat, Machine(h, t), NEW type, NEW by
  PROVE  Machine(record_circuit_type(h, type, by), t)
BY DEF Machine, record_circuit_type

LEMMA StoreTakesNothing ==
  ASSUME NEW h, NEW t \in Nat, Machine(h, t), NEW r, NEW value
  PROVE  Machine(store_result(h, r, value), t)
BY DEF Machine, store_result

LEMMA JumpTakesNothing ==
  ASSUME NEW h, NEW t \in Nat, Machine(h, t), NEW pc
  PROVE  Machine(At(h, pc), t)
BY DEF Machine, At

LEMMA TouchAndBumpTakes ==
  ASSUME NEW h, NEW t \in Nat, Machine(h, t), NEW r, NEW d \in Nat
  PROVE  Machine(touch_register_and_bump_timestamp(h, r, d), t + d)
BY TouchTakesNothing, BumpTakes DEF touch_register_and_bump_timestamp

LEMMA BumpAndTouchTakes ==
  ASSUME NEW h, NEW t \in Nat, Machine(h, t), NEW d \in Nat, NEW r
  PROVE  Machine(pre_bump_timestamp_and_touch(h, d, r), t + d)
<1>1. Machine(bump_timestamp(h, d), t + d) /\ t + d \in Nat
  BY BumpTakes
<1> QED BY <1>1, TouchTakesNothing DEF pre_bump_timestamp_and_touch

LEMMA MarkedTakes ==
  ASSUME NEW h, NEW t \in Nat, Machine(h, t), NEW type, NEW cycles
  PROVE  Machine(Marked(h, type, cycles), t + 3)
<1> DEFINE counted == record_circuit_type(record_circuit_type(h, type, cycles),
                                          "ShiftBinaryCsr", cycles)
<1>1. Machine(counted, t)
  <2>1. Machine(record_circuit_type(h, type, cycles), t)
    BY RecordTakesNothing
  <2> QED BY <2>1, RecordTakesNothing
<1> HIDE DEF counted
<1>2. Machine(pre_bump_timestamp_and_touch(counted, 2, 0), t + 2) /\ t + 2 \in Nat
  BY <1>1, BumpAndTouchTakes
<1>3. Machine(bump_timestamp(pre_bump_timestamp_and_touch(counted, 2, 0), 1), (t + 2) + 1)
  BY <1>2, BumpTakes
<1> QED BY <1>3 DEF Marked, counted

LEMMA TouchAbiTakesNothing ==
  ASSUME NEW h, NEW t \in Nat, Machine(h, t)
  PROVE  Machine(TouchAbi(h), t)
BY DEF Machine, TouchAbi

-----------------------------------------------------------------------------
(* The invariant: a word that was never accessed is still zero, and the    *)
(* machine has not gone further than its bound and one delegation.         *)

Untouched(m, ts) ==
  /\ DOMAIN m = Words /\ DOMAIN ts = Words
  /\ \A w \in Words : w \notin Rom /\ ts[w] = 0 => m[w] = 0

Clean(m, ts) ==
  /\ \A w \in Words \ Rom : m[w] = 0
  /\ \A w \in Words : ts[w] = 0

Limit == INITIAL_TIMESTAMP + TIMESTAMP_STEP * (cycles_bound + Rounds)

HolderInv ==
  /\ phase \in {"compile", "run", "quit", "done", "cached"}
  /\ cycles_bound \in Bounds
  /\ hart.timestamp \in Nat \ {0}
  /\ Machine(hart, hart.timestamp)
  /\ Untouched(memory, timestamps)
  /\ phase = "cached" => Clean(memory, timestamps)
  /\ cycles_bound # None => hart.timestamp < Limit

\* A step of one instruction, of some cycles.
InstructionTakes(cycles) ==
  /\ Machine(hart', hart.timestamp + TIMESTAMP_STEP * cycles)
  /\ cycles_bound' = cycles_bound
  /\ phase' \in {"run", "quit"}

\* The bound that is compared is never above the real one.
LEMMA BoundIsLow ==
  ASSUME NEW x \in Nat, NEW m \in Nat \ {0}
  PROVE  x % m \in Nat /\ x % m <= x
OBVIOUS

\* Instructions run below the bound, so they end below the limit.
LEMMA InstructionKeepsLimit ==
  ASSUME HolderInv, ~Bounded, NEW cycles \in 1..Rounds, InstructionTakes(cycles)
  PROVE  /\ hart'.timestamp \in Nat \ {0}
         /\ Machine(hart', hart'.timestamp)
         /\ cycles_bound' \in Bounds
         /\ (cycles_bound # None => hart.timestamp < Limit)'
<1>1. hart'.timestamp = hart.timestamp + 4 * cycles /\ Machine(hart', hart'.timestamp)
  BY DEF InstructionTakes, Machine, TIMESTAMP_STEP
<1>2. hart.timestamp \in Nat \ {0} /\ cycles \in Nat \ {0} /\ cycles <= Rounds /\ Rounds \in Nat
  BY ReplayAssumption DEF HolderInv
<1>3. ASSUME cycles_bound # None
      PROVE  hart'.timestamp < 4 + 4 * (cycles_bound + Rounds)
  <2>1. cycles_bound \in Nat
    BY <1>3, ReplayAssumption DEF HolderInv
  <2> DEFINE bound == cycles_bound * 4 + 4
  <2>2. bound \in Nat
    BY <2>1
  <2>3. ts_bound = bound % BoundModulus
    BY DEF ts_bound, TIMESTAMP_STEP, INITIAL_TIMESTAMP
  <2> HIDE DEF bound
  <2>4. ts_bound \in Nat /\ ts_bound <= bound
    BY <2>2, <2>3, BoundIsLow, ReplayAssumption
  <2>5. hart.timestamp < ts_bound
    BY <1>2, <1>3, <2>4 DEF Bounded
  <2> QED BY <1>1, <1>2, <2>1, <2>2, <2>4, <2>5 DEF bound
<1> QED BY <1>1, <1>2, <1>3 DEF InstructionTakes, HolderInv, Limit, TIMESTAMP_STEP, INITIAL_TIMESTAMP

\* Every call of the hash takes some of the rounds.
LEMMA RoundsTaken ==
  ASSUME NEW control
  PROVE  num_rounds(control) \in 1..Rounds /\ num_rounds(control) \in Nat \ {0}
BY ReplayAssumption DEF num_rounds

LEMMA InitHolder == Init => HolderInv
<1> SUFFICES ASSUME Init PROVE HolderInv
  OBVIOUS
<1>1. Machine(hart, 4) /\ hart.timestamp = 4
  BY DEF Init, InitialMachine, Machine, INITIAL_TIMESTAMP
<1>2. Untouched(memory, timestamps)
  BY DEF Init, Untouched
<1>3. ASSUME cycles_bound # None PROVE hart.timestamp < Limit
  <2>1. cycles_bound \in Nat /\ Rounds \in Nat \ {0}
    BY <1>3, ReplayAssumption DEF Init
  <2> QED BY <1>1, <2>1 DEF Limit, INITIAL_TIMESTAMP, TIMESTAMP_STEP
<1> QED BY <1>1, <1>2, <1>3 DEF Init, HolderInv

\* An instruction that leaves the holder alone.
LEMMA PlainInstruction ==
  ASSUME HolderInv, ~Bounded, phase = "run", NEW cycles \in 1..Rounds, InstructionTakes(cycles),
         memory' = memory, timestamps' = timestamps
  PROVE  HolderInv'
<1>1. phase' \in {"run", "quit"}
  BY DEF InstructionTakes
<1>2. Untouched(memory, timestamps)'
  BY DEF HolderInv
<1> QED BY <1>1, <1>2, InstructionKeepsLimit DEF HolderInv

\* An instruction that accesses the memory.
LEMMA MemoryInstruction ==
  ASSUME HolderInv, ~Bounded, phase = "run", NEW cycles \in 1..Rounds, InstructionTakes(cycles),
         Untouched(memory', timestamps')
  PROVE  HolderInv'
<1>1. phase' \in {"run", "quit"}
  BY DEF InstructionTakes
<1> QED BY <1>1, InstructionKeepsLimit DEF HolderInv

\* A word may change when its timestamp is set.
LEMMA AccessedWord ==
  ASSUME NEW m, NEW ts, Untouched(m, ts), NEW address, NEW value, NEW t \in Nat \ {0}
  PROVE  Untouched([m EXCEPT ![address] = value], [ts EXCEPT ![address] = t])
BY DEF Untouched

LEMMA ReadWord ==
  ASSUME NEW m, NEW ts, Untouched(m, ts), NEW address, NEW t \in Nat \ {0}
  PROVE  Untouched(m, [ts EXCEPT ![address] = t])
BY DEF Untouched

-----------------------------------------------------------------------------
(* The instructions. *)

\* The machine of an instruction, when the invariant holds.
LEMMA BeforeInstruction ==
  ASSUME HolderInv
  PROVE  /\ hart.timestamp \in Nat \ {0} /\ Machine(hart, hart.timestamp)
         /\ 1 \in 1..Rounds
         /\ Untouched(memory, timestamps)
BY ReplayAssumption DEF HolderInv

LEMMA AddKeepsHolder == HolderInv /\ Add => HolderInv'
<1> SUFFICES ASSUME HolderInv, Add PROVE HolderInv'
  OBVIOUS
<1> DEFINE t == hart.timestamp
           i == Instruction(hart.pc)
           h1 == touch_register_and_bump_timestamp(hart, i.rs1, 1)
           h2 == touch_register_and_bump_timestamp(h1, i.rs2, 1)
           hr == record_circuit_type(h2, "AddSubLui", 1)
           h3 == touch_register_and_bump_timestamp(hr, i.rd, 2)
           hs == store_result(h3, i.rd, Wrap(hart.registers[i.rs1] + hart.registers[i.rs2]))
<1>1. phase = "run" /\ ~Bounded
  BY DEF Add, Executes
<1>2. t \in Nat /\ Machine(hart, t) /\ 1 \in 1..Rounds
  BY BeforeInstruction
<1> HIDE DEF t
<1>3. hart' = At(hs, hart.pc + 1)
  BY DEF Add, Retire
<1> HIDE DEF i
<1>4. Machine(h1, t + 1) /\ t + 1 \in Nat
  BY <1>2, TouchAndBumpTakes
<1> HIDE DEF h1
<1>5. Machine(h2, (t + 1) + 1) /\ (t + 1) + 1 \in Nat
  BY <1>4, TouchAndBumpTakes
<1> HIDE DEF h2
<1>6. Machine(hr, (t + 1) + 1)
  BY <1>5, RecordTakesNothing
<1> HIDE DEF hr
<1>7. Machine(h3, ((t + 1) + 1) + 2) /\ ((t + 1) + 1) + 2 = t + 4 /\ t + 4 \in Nat
  BY <1>2, <1>5, <1>6, TouchAndBumpTakes
<1> HIDE DEF h3
<1>8. Machine(hs, t + 4)
  BY <1>7, StoreTakesNothing
<1> HIDE DEF hs
<1>9. Machine(hart', t + 4)
  BY <1>3, <1>7, <1>8, JumpTakesNothing
<1>10. InstructionTakes(1) /\ memory' = memory /\ timestamps' = timestamps
  BY <1>1, <1>9 DEF Add, Retire, inputVars, holderVars, InstructionTakes, TIMESTAMP_STEP, t
<1> QED BY <1>1, <1>2, <1>10, PlainInstruction

LEMMA LuiKeepsHolder == HolderInv /\ Lui => HolderInv'
<1> SUFFICES ASSUME HolderInv, Lui PROVE HolderInv'
  OBVIOUS
<1> DEFINE t == hart.timestamp
           i == Instruction(hart.pc)
           h0 == pre_bump_timestamp_and_touch(hart, 1, 0)
           h1 == bump_timestamp(h0, 1)
           hr == record_circuit_type(h1, "AddSubLui", 1)
           h2 == touch_register_and_bump_timestamp(hr, i.rd, 2)
           hs == store_result(h2, i.rd, i.imm)
<1>1. phase = "run" /\ ~Bounded
  BY DEF Lui, Executes
<1>2. t \in Nat /\ Machine(hart, t) /\ 1 \in 1..Rounds
  BY BeforeInstruction
<1> HIDE DEF t
<1>3. hart' = At(hs, hart.pc + 1)
  BY DEF Lui, Retire
<1> HIDE DEF i
<1>4. Machine(h0, t + 1) /\ t + 1 \in Nat
  BY <1>2, BumpAndTouchTakes
<1> HIDE DEF h0
<1>5. Machine(h1, (t + 1) + 1) /\ (t + 1) + 1 \in Nat
  BY <1>2, <1>4, BumpTakes
<1> HIDE DEF h1
<1>6. Machine(hr, (t + 1) + 1)
  BY <1>5, RecordTakesNothing
<1> HIDE DEF hr
<1>7. Machine(h2, ((t + 1) + 1) + 2) /\ ((t + 1) + 1) + 2 = t + 4 /\ t + 4 \in Nat
  BY <1>2, <1>5, <1>6, TouchAndBumpTakes
<1> HIDE DEF h2
<1>8. Machine(hs, t + 4)
  BY <1>7, StoreTakesNothing
<1> HIDE DEF hs
<1>9. Machine(hart', t + 4)
  BY <1>3, <1>7, <1>8, JumpTakesNothing
<1>10. InstructionTakes(1) /\ memory' = memory /\ timestamps' = timestamps
  BY <1>1, <1>9 DEF Lui, Retire, inputVars, holderVars, InstructionTakes, TIMESTAMP_STEP, t
<1> QED BY <1>1, <1>2, <1>10, PlainInstruction

LEMMA JalKeepsHolder == HolderInv /\ Jal => HolderInv'
<1> SUFFICES ASSUME HolderInv, Jal PROVE HolderInv'
  OBVIOUS
<1> DEFINE t == hart.timestamp
           i == Instruction(hart.pc)
           h0 == pre_bump_timestamp_and_touch(hart, 1, 0)
           hs == store_result(h0, i.rd, Wrap(hart.pc + 1))
           linked == pre_bump_timestamp_and_touch(hs, 1, i.rd)
           bare == pre_bump_timestamp_and_touch(hart, 2, 0)
           touched == IF i.rd # 0 THEN linked ELSE bare
           hb == bump_timestamp(touched, 2)
           h == record_circuit_type(hb, "BranchSlt", 1)
<1>1. phase = "run" /\ ~Bounded
  BY DEF Jal, Executes
<1>2. t \in Nat /\ Machine(hart, t) /\ 1 \in 1..Rounds
  BY BeforeInstruction
<1> HIDE DEF t
<1>3. /\ hart' = h \/ hart' = At(h, i.imm)
      /\ phase' = "quit" \/ phase' = phase
      /\ cycles_bound' = cycles_bound /\ memory' = memory /\ timestamps' = timestamps
  BY DEF Jal, Retire, inputVars, holderVars
<1> HIDE DEF i
<1>4. Machine(h0, t + 1) /\ t + 1 \in Nat
  BY <1>2, BumpAndTouchTakes
<1> HIDE DEF h0
<1>5. Machine(hs, t + 1)
  BY <1>4, StoreTakesNothing
<1> HIDE DEF hs
<1>6. Machine(linked, (t + 1) + 1) /\ (t + 1) + 1 = t + 2
  BY <1>2, <1>4, <1>5, BumpAndTouchTakes
<1>7. Machine(bare, t + 2) /\ t + 2 \in Nat
  BY <1>2, BumpAndTouchTakes
<1> HIDE DEF linked, bare
<1>8. Machine(touched, t + 2)
  BY <1>6, <1>7
<1> HIDE DEF touched
<1>9. Machine(hb, (t + 2) + 2) /\ (t + 2) + 2 = t + 4 /\ t + 4 \in Nat
  BY <1>2, <1>7, <1>8, BumpTakes
<1> HIDE DEF hb
<1>10. Machine(h, t + 4)
  BY <1>9, RecordTakesNothing
<1> HIDE DEF h
<1>11. Machine(hart', t + 4)
  BY <1>3, <1>9, <1>10, JumpTakesNothing
<1>12. InstructionTakes(1)
  BY <1>1, <1>3, <1>11 DEF InstructionTakes, TIMESTAMP_STEP, t
<1> QED BY <1>1, <1>2, <1>3, <1>12, PlainInstruction

LEMMA BeqKeepsHolder == HolderInv /\ Beq => HolderInv'
<1> SUFFICES ASSUME HolderInv, Beq PROVE HolderInv'
  OBVIOUS
<1> DEFINE t == hart.timestamp
           i == Instruction(hart.pc)
           h1 == touch_register_and_bump_timestamp(hart, i.rs1, 1)
           h2 == touch_register_and_bump_timestamp(h1, i.rs2, 1)
           h3 == touch_register_and_bump_timestamp(h2, 0, 2)
           hr == record_circuit_type(h3, "BranchSlt", 1)
           target == IF hart.registers[i.rs1] = hart.registers[i.rs2] THEN i.imm ELSE hart.pc + 1
<1>1. phase = "run" /\ ~Bounded
  BY DEF Beq, Executes
<1>2. t \in Nat /\ Machine(hart, t) /\ 1 \in 1..Rounds
  BY BeforeInstruction
<1> HIDE DEF t
<1>3. hart' = At(hr, target)
  BY DEF Beq, Retire
<1> HIDE DEF i, target
<1>4. Machine(h1, t + 1) /\ t + 1 \in Nat
  BY <1>2, TouchAndBumpTakes
<1> HIDE DEF h1
<1>5. Machine(h2, (t + 1) + 1) /\ (t + 1) + 1 \in Nat
  BY <1>4, TouchAndBumpTakes
<1> HIDE DEF h2
<1>6. Machine(h3, ((t + 1) + 1) + 2) /\ ((t + 1) + 1) + 2 = t + 4 /\ t + 4 \in Nat
  BY <1>2, <1>5, TouchAndBumpTakes
<1> HIDE DEF h3
<1>7. Machine(hr, t + 4)
  BY <1>6, RecordTakesNothing
<1> HIDE DEF hr
<1>8. Machine(hart', t + 4)
  BY <1>3, <1>6, <1>7, JumpTakesNothing
<1>9. InstructionTakes(1) /\ memory' = memory /\ timestamps' = timestamps
  BY <1>1, <1>8 DEF Beq, Retire, inputVars, holderVars, InstructionTakes, TIMESTAMP_STEP, t
<1> QED BY <1>1, <1>2, <1>9, PlainInstruction

\* A load sets the timestamp of the word and leaves its value.
LEMMA LwKeepsHolder == HolderInv /\ Lw => HolderInv'
<1> SUFFICES ASSUME HolderInv, Lw PROVE HolderInv'
  OBVIOUS
<1> DEFINE t == hart.timestamp
           i == Instruction(hart.pc)
           address == hart.registers[i.rs1]
           h1 == touch_register_and_bump_timestamp(hart, i.rs1, 1)
           hb == bump_timestamp(h1, 1)
           h2 == record_circuit_type(hb, "MemWord", 1)
           h3 == touch_register_and_bump_timestamp(h2, i.rd, 2)
           hs == store_result(h3, i.rd, memory[address])
<1>1. phase = "run" /\ ~Bounded
  BY DEF Lw, Executes
<1>2. t \in Nat /\ Machine(hart, t) /\ 1 \in 1..Rounds /\ Untouched(memory, timestamps)
  BY BeforeInstruction
<1> HIDE DEF t
<1>3. /\ hart' = At(hs, hart.pc + 1)
      /\ memory' = memory /\ timestamps' = [timestamps EXCEPT ![address] = h1.timestamp]
      /\ phase' = phase /\ cycles_bound' = cycles_bound
  BY DEF Lw, Record, inputVars
<1> HIDE DEF i, address
<1>4. Machine(h1, t + 1) /\ t + 1 \in Nat \ {0} /\ h1.timestamp = t + 1
  BY <1>2, TouchAndBumpTakes DEF Machine
<1> HIDE DEF h1
<1>5. Machine(hb, (t + 1) + 1) /\ (t + 1) + 1 \in Nat
  BY <1>2, <1>4, BumpTakes
<1> HIDE DEF hb
<1>6. Machine(h2, (t + 1) + 1)
  BY <1>5, RecordTakesNothing
<1> HIDE DEF h2
<1>7. Machine(h3, ((t + 1) + 1) + 2) /\ ((t + 1) + 1) + 2 = t + 4 /\ t + 4 \in Nat
  BY <1>2, <1>5, <1>6, TouchAndBumpTakes
<1> HIDE DEF h3
<1>8. Machine(hs, t + 4)
  BY <1>7, StoreTakesNothing
<1> HIDE DEF hs
<1>9. Machine(hart', t + 4)
  BY <1>3, <1>7, <1>8, JumpTakesNothing
<1>10. InstructionTakes(1)
  BY <1>1, <1>3, <1>9 DEF InstructionTakes, TIMESTAMP_STEP, t
<1>11. Untouched(memory', timestamps')
  BY <1>2, <1>3, <1>4, ReadWord
<1> QED BY <1>1, <1>2, <1>10, <1>11, MemoryInstruction

\* A store sets both.
LEMMA StoreKeepsHolder == HolderInv /\ Store => HolderInv'
<1> SUFFICES ASSUME HolderInv, Store PROVE HolderInv'
  OBVIOUS
<1> DEFINE t == hart.timestamp
           i == Instruction(hart.pc)
           address == hart.registers[i.rs1]
           value == hart.registers[i.rs2]
           stored == IF i.op = "sw" THEN value ELSE Merge(memory[address], value)
           h1 == touch_register_and_bump_timestamp(hart, i.rs1, 1)
           h2 == touch_register_and_bump_timestamp(h1, i.rs2, 1)
           h3 == bump_timestamp(h2, 2)
           type == IF i.op = "sw" THEN "MemWord" ELSE "MemSubword"
           hr == record_circuit_type(h3, type, 1)
<1>1. phase = "run" /\ ~Bounded
  BY DEF Store, Executes
<1>2. t \in Nat /\ Machine(hart, t) /\ 1 \in 1..Rounds /\ Untouched(memory, timestamps)
  BY BeforeInstruction
<1> HIDE DEF t
<1>3. /\ hart' = At(hr, hart.pc + 1)
      /\ memory' = [memory EXCEPT ![address] = stored]
      /\ timestamps' = [timestamps EXCEPT ![address] = h2.timestamp]
      /\ phase' = phase /\ cycles_bound' = cycles_bound
  BY DEF Store, Record, inputVars
<1> HIDE DEF i, address, value, stored, type
<1>4. Machine(h1, t + 1) /\ t + 1 \in Nat
  BY <1>2, TouchAndBumpTakes
<1> HIDE DEF h1
<1>5. Machine(h2, (t + 1) + 1) /\ (t + 1) + 1 \in Nat \ {0} /\ h2.timestamp = (t + 1) + 1
  BY <1>2, <1>4, TouchAndBumpTakes DEF Machine
<1> HIDE DEF h2
<1>6. Machine(h3, ((t + 1) + 1) + 2) /\ ((t + 1) + 1) + 2 = t + 4 /\ t + 4 \in Nat
  BY <1>2, <1>5, BumpTakes
<1> HIDE DEF h3
<1>7. Machine(hr, t + 4)
  BY <1>6, RecordTakesNothing
<1> HIDE DEF hr
<1>8. Machine(hart', t + 4)
  BY <1>3, <1>6, <1>7, JumpTakesNothing
<1>9. InstructionTakes(1)
  BY <1>1, <1>3, <1>8 DEF InstructionTakes, TIMESTAMP_STEP, t
<1>10. Untouched(memory', timestamps')
  BY <1>2, <1>3, <1>5, AccessedWord
<1> QED BY <1>1, <1>2, <1>9, <1>10, MemoryInstruction

LEMMA ReadNonDeterminismKeepsHolder == HolderInv /\ ReadNonDeterminism => HolderInv'
<1> SUFFICES ASSUME HolderInv, ReadNonDeterminism PROVE HolderInv'
  OBVIOUS
<1> DEFINE t == hart.timestamp
           i == Instruction(hart.pc)
           h0 == pre_bump_timestamp_and_touch(hart, 1, 0)
           h1(value) == store_result(h0, i.rd, value)
           h2(value) == pre_bump_timestamp_and_touch(h1(value), 1, i.rd)
           h3(value) == bump_timestamp(h2(value), 2)
           hr(value) == record_circuit_type(h3(value), "ShiftBinaryCsr", 1)
<1>1. phase = "run" /\ ~Bounded
  BY DEF ReadNonDeterminism, Executes
<1>2. t \in Nat /\ Machine(hart, t) /\ 1 \in 1..Rounds
  BY BeforeInstruction
<1> HIDE DEF t
<1>3. PICK value \in Values : hart' = At(hr(value), hart.pc + 1)
  BY DEF ReadNonDeterminism, Record
<1>4. /\ memory' = memory /\ timestamps' = timestamps
      /\ phase' = phase /\ cycles_bound' = cycles_bound
  BY DEF ReadNonDeterminism, Record, inputVars, holderVars
<1> HIDE DEF i
<1>5. Machine(h0, t + 1) /\ t + 1 \in Nat
  BY <1>2, BumpAndTouchTakes
<1> HIDE DEF h0
<1>6. Machine(h1(value), t + 1)
  BY <1>5, StoreTakesNothing
<1> HIDE DEF h1
<1>7. Machine(h2(value), (t + 1) + 1) /\ (t + 1) + 1 \in Nat
  BY <1>5, <1>6, BumpAndTouchTakes
<1> HIDE DEF h2
<1>8. Machine(h3(value), ((t + 1) + 1) + 2) /\ ((t + 1) + 1) + 2 = t + 4 /\ t + 4 \in Nat
  BY <1>2, <1>7, BumpTakes
<1> HIDE DEF h3
<1>9. Machine(hr(value), t + 4)
  BY <1>8, RecordTakesNothing
<1> HIDE DEF hr
<1>10. Machine(hart', t + 4)
  BY <1>3, <1>8, <1>9, JumpTakesNothing
<1>11. InstructionTakes(1)
  BY <1>1, <1>4, <1>10 DEF InstructionTakes, TIMESTAMP_STEP, t
<1> QED BY <1>1, <1>2, <1>4, <1>11, PlainInstruction

LEMMA WriteNonDeterminismKeepsHolder == HolderInv /\ WriteNonDeterminism => HolderInv'
<1> SUFFICES ASSUME HolderInv, WriteNonDeterminism PROVE HolderInv'
  OBVIOUS
<1> DEFINE t == hart.timestamp
           h1 == touch_register_and_bump_timestamp(hart, Instruction(hart.pc).rs1, 1)
           h2 == pre_bump_timestamp_and_touch(h1, 1, 0)
           h3 == bump_timestamp(h2, 2)
           hr == record_circuit_type(h3, "ShiftBinaryCsr", 1)
<1>1. phase = "run" /\ ~Bounded
  BY DEF WriteNonDeterminism, Executes
<1>2. t \in Nat /\ Machine(hart, t) /\ 1 \in 1..Rounds
  BY BeforeInstruction
<1> HIDE DEF t
<1>3. hart' = At(hr, hart.pc + 1)
  BY DEF WriteNonDeterminism, Retire
<1>4. Machine(h1, t + 1) /\ t + 1 \in Nat
  BY <1>2, TouchAndBumpTakes
<1> HIDE DEF h1
<1>5. Machine(h2, (t + 1) + 1) /\ (t + 1) + 1 \in Nat
  BY <1>4, BumpAndTouchTakes
<1> HIDE DEF h2
<1>6. Machine(h3, ((t + 1) + 1) + 2) /\ ((t + 1) + 1) + 2 = t + 4 /\ t + 4 \in Nat
  BY <1>2, <1>5, BumpTakes
<1> HIDE DEF h3
<1>7. Machine(hr, t + 4)
  BY <1>6, RecordTakesNothing
<1> HIDE DEF hr
<1>8. Machine(hart', t + 4)
  BY <1>3, <1>6, <1>7, JumpTakesNothing
<1>9. InstructionTakes(1) /\ memory' = memory /\ timestamps' = timestamps
  BY <1>1, <1>8 DEF WriteNonDeterminism, Retire, inputVars, holderVars, InstructionTakes, TIMESTAMP_STEP, t
<1> QED BY <1>1, <1>2, <1>9, PlainInstruction

\* Both operands get the timestamp of the delegation.
LEMMA BigintKeepsHolder == HolderInv /\ Bigint => HolderInv'
<1> SUFFICES ASSUME HolderInv, Bigint PROVE HolderInv'
  OBVIOUS
<1> DEFINE t == hart.timestamp
           a_ptr == hart.registers[1]
           b_ptr == hart.registers[2]
           h0 == Marked(hart, "BigintDelegation", 1)
           h1 == TouchAbi(h0)
           result == bigint_impl(memory[a_ptr], memory[b_ptr])
           hs == store_result(h1, 3, result[2])
           ha == At(hs, hart.pc + 1)
<1>1. phase = "run" /\ ~Bounded
  BY DEF Bigint, Executes
<1>2. t \in Nat /\ Machine(hart, t) /\ 1 \in 1..Rounds /\ Untouched(memory, timestamps)
  BY BeforeInstruction
<1> HIDE DEF t
<1>3. /\ hart' = bump_timestamp(ha, 1)
      /\ memory' = [memory EXCEPT ![a_ptr] = result[1]]
      /\ timestamps' = [timestamps EXCEPT ![a_ptr] = h1.timestamp, ![b_ptr] = h1.timestamp]
      /\ phase' = phase /\ cycles_bound' = cycles_bound
  BY DEF Bigint, Delegated, inputVars
<1> HIDE DEF a_ptr, b_ptr, result
<1>4. Machine(h0, t + 3) /\ t + 3 \in Nat \ {0}
  BY <1>2, MarkedTakes
<1> HIDE DEF h0
<1>5. Machine(h1, t + 3) /\ h1.timestamp = t + 3
  BY <1>4, TouchAbiTakesNothing DEF Machine
<1> HIDE DEF h1
<1>6. Machine(hs, t + 3)
  BY <1>4, <1>5, StoreTakesNothing
<1> HIDE DEF hs
<1>7. Machine(ha, t + 3)
  BY <1>4, <1>6, JumpTakesNothing
<1> HIDE DEF ha
<1>8. Machine(hart', (t + 3) + 1) /\ (t + 3) + 1 = t + 4
  BY <1>2, <1>3, <1>4, <1>7, BumpTakes
<1>9. InstructionTakes(1)
  BY <1>1, <1>3, <1>8 DEF InstructionTakes, TIMESTAMP_STEP, t
<1>10. Untouched(memory', timestamps')
  <2> DEFINE ts == [timestamps EXCEPT ![a_ptr] = h1.timestamp]
  <2>1. Untouched(memory', ts)
    BY <1>2, <1>3, <1>4, <1>5, AccessedWord
  <2>2. timestamps' = [ts EXCEPT ![b_ptr] = h1.timestamp]
    BY <1>3
  <2> HIDE DEF ts
  <2> QED BY <1>4, <1>5, <2>1, <2>2, ReadWord
<1> QED BY <1>1, <1>2, <1>9, <1>10, MemoryInstruction

\* All rounds are one step, of as many cycles.
LEMMA BlakeKeepsHolder == HolderInv /\ Blake => HolderInv'
<1> SUFFICES ASSUME HolderInv, Blake PROVE HolderInv'
  OBVIOUS
<1>0. PICK count \in Nat \ {0} : count = num_rounds(hart.registers[3]) /\ count \in 1..Rounds
  BY RoundsTaken
<1> DEFINE t == hart.timestamp
           state_ptr == hart.registers[1]
           input_ptr == hart.registers[2]
           more == (count - 1) * TIMESTAMP_STEP
           hm == Marked(hart, "BlakeDelegation", count)
           hb == bump_timestamp(hm, more)
           h1 == TouchAbi(hb)
           hs == store_result(h1, 3, Control(hart.registers[3], count))
           h2 == [hs EXCEPT !.register_timestamps[0] = h1.timestamp - 1]
           ha == At(h2, hart.pc + count)
           mixed[round \in 0..Rounds] ==
             IF round = 0 THEN memory[state_ptr] ELSE Mix(mixed[round - 1], memory[input_ptr])
           value == mixed[count]
<1>1. phase = "run" /\ ~Bounded
  BY DEF Blake, Executes
<1>2. t \in Nat /\ Machine(hart, t) /\ Untouched(memory, timestamps)
  BY BeforeInstruction
<1> HIDE DEF t
<1>3. count \in Nat \ {0} /\ count \in 1..Rounds
  BY <1>0
<1>4. /\ hart' = bump_timestamp(ha, 1)
      /\ memory' = [memory EXCEPT ![state_ptr] = value]
      /\ timestamps' = [timestamps EXCEPT ![state_ptr] = h1.timestamp, ![input_ptr] = h1.timestamp]
      /\ phase' = phase /\ cycles_bound' = cycles_bound
  BY <1>0 DEF Blake, Delegated, inputVars
<1> HIDE DEF state_ptr, input_ptr, mixed, value
<1>5. more \in Nat /\ more = 4 * count - 4
  BY <1>3 DEF TIMESTAMP_STEP
<1> HIDE DEF more
<1>6. Machine(hm, t + 3) /\ t + 3 \in Nat
  BY <1>2, MarkedTakes
<1> HIDE DEF hm
<1>7. Machine(hb, (t + 3) + more) /\ (t + 3) + more \in Nat \ {0}
  <2>1. more \in Nat
    BY <1>5
  <2>2. Machine(hb, (t + 3) + more)
    BY <1>6, <2>1, BumpTakes
  <2> QED BY <1>2, <2>1, <2>2
<1> HIDE DEF hb
<1> DEFINE u == (t + 3) + more
<1>8. Machine(h1, u) /\ h1.timestamp = u /\ u \in Nat \ {0}
  BY <1>7, TouchAbiTakesNothing DEF Machine
<1> HIDE DEF h1, u
<1>9. Machine(hs, u)
  BY <1>8, StoreTakesNothing
<1> HIDE DEF hs
<1>10. Machine(h2, u)
  BY <1>9 DEF Machine
<1> HIDE DEF h2
<1>11. Machine(ha, u)
  BY <1>8, <1>10, JumpTakesNothing
<1> HIDE DEF ha
<1>12. Machine(hart', u + 1) /\ u + 1 = t + 4 * count
  BY <1>2, <1>3, <1>4, <1>5, <1>8, <1>11, BumpTakes DEF u
<1>13. InstructionTakes(count)
  BY <1>1, <1>4, <1>12 DEF InstructionTakes, TIMESTAMP_STEP, t
<1>14. Untouched(memory', timestamps')
  <2> DEFINE ts == [timestamps EXCEPT ![state_ptr] = h1.timestamp]
  <2>1. Untouched(memory', ts)
    BY <1>2, <1>4, <1>8, AccessedWord
  <2>2. timestamps' = [ts EXCEPT ![input_ptr] = h1.timestamp]
    BY <1>4
  <2> HIDE DEF ts
  <2> QED BY <1>8, <2>1, <2>2, ReadWord
<1> QED BY <1>1, <1>3, <1>13, <1>14, MemoryInstruction

-----------------------------------------------------------------------------
(* The other steps. *)

\* The image is loaded into the ROM only.
LEMMA LoadKeepsHolder == HolderInv /\ Load => HolderInv'
BY DEF HolderInv, Load, Machine, Untouched, Limit, inputVars

\* What was touched is cleared, and what was not touched is zero.
LEMMA CollectKeepsHolder == HolderInv /\ CollectInitsAndTeardowns => HolderInv'
<1> SUFFICES ASSUME HolderInv, CollectInitsAndTeardowns PROVE HolderInv'
  OBVIOUS
<1>1. /\ memory' = [w \in Words |-> IF w \in Touched THEN 0 ELSE memory[w]]
      /\ timestamps' = [w \in Words |-> IF w \in Touched THEN 0 ELSE timestamps[w]]
      /\ phase' = "cached" /\ hart' = hart /\ cycles_bound' = cycles_bound
  BY DEF CollectInitsAndTeardowns, inputVars
<1>2. \A w \in Words : w \in Touched <=> timestamps[w] # 0
  BY DEF Touched
<1>3. Untouched(memory', timestamps') /\ Clean(memory', timestamps')
  BY <1>1, <1>2 DEF HolderInv, Untouched, Clean
<1> QED BY <1>1, <1>3 DEF HolderInv, Limit

LEMMA ResetKeepsHolder == HolderInv /\ Reset => HolderInv'
BY DEF HolderInv, Reset, Machine, Untouched, Clean, Limit, inputVars

\* No other step touches the machine or the holder.
LEMMA OtherKeepsHolder ==
  ASSUME HolderInv, UNCHANGED <<cycles_bound, hart, memory, timestamps>>,
         phase' \in {"compile", "run", "quit", "done", "cached"},
         phase' = "cached" => phase = "cached"
  PROVE  HolderInv'
BY DEF HolderInv, Limit

LEMMA AdvanceIsOther ==
  ASSUME NEW vm, NEW pc, NEW type, Advance(vm, pc, type)
  PROVE  UNCHANGED <<cycles_bound, hart, memory, timestamps, phase>>
BY DEF Advance, inputVars, simVars, holderVars

LEMMA ReplayerIsOther ==
  Replayer => UNCHANGED <<cycles_bound, hart, memory, timestamps, phase>>
<1> SUFFICES ASSUME Replayer PROVE UNCHANGED <<cycles_bound, hart, memory, timestamps, phase>>
  OBVIOUS
<1>1. CASE BeginReplay \/ EndReplay
  BY <1>1 DEF BeginReplay, EndReplay, inputVars, simVars, holderVars
<1>2. CASE ReplayAdd
  BY <1>2, AdvanceIsOther DEF ReplayAdd
<1>3. CASE ReplayLui
  BY <1>3, AdvanceIsOther DEF ReplayLui
<1>4. CASE ReplayJal
  BY <1>4, AdvanceIsOther DEF ReplayJal
<1>5. CASE ReplayBeq
  BY <1>5, AdvanceIsOther DEF ReplayBeq
<1>6. CASE ReplayLw
  BY <1>6, AdvanceIsOther DEF ReplayLw
<1>7. CASE ReplayStore
  BY <1>7, AdvanceIsOther DEF ReplayStore
<1>8. CASE ReplayReadNonDeterminism
  BY <1>8, AdvanceIsOther DEF ReplayReadNonDeterminism
<1>9. CASE ReplayWriteNonDeterminism
  BY <1>9, AdvanceIsOther DEF ReplayWriteNonDeterminism
<1>10. CASE ReplayBigint
  BY <1>10, AdvanceIsOther DEF ReplayBigint
<1>11. CASE ReplayBlake
  BY <1>11, AdvanceIsOther DEF ReplayBlake
<1> QED BY <1>1, <1>2, <1>3, <1>4, <1>5, <1>6, <1>7, <1>8, <1>9, <1>10, <1>11 DEF Replayer

LEMMA SpecKeepsHolder == Spec => []HolderInv
<1>1. Init => HolderInv
  BY InitHolder
<1>2. HolderInv /\ [Next]_vars => HolderInv'
  <2> SUFFICES ASSUME HolderInv, [Next]_vars PROVE HolderInv'
    OBVIOUS
  <2>1. CASE Add \/ Lui \/ Jal \/ Beq \/ Lw
    BY <2>1, AddKeepsHolder, LuiKeepsHolder, JalKeepsHolder, BeqKeepsHolder, LwKeepsHolder
  <2>2. CASE Store \/ ReadNonDeterminism \/ WriteNonDeterminism \/ Bigint \/ Blake
    BY <2>2, StoreKeepsHolder, ReadNonDeterminismKeepsHolder, WriteNonDeterminismKeepsHolder,
       BigintKeepsHolder, BlakeKeepsHolder
  <2>3. CASE Load \/ CollectInitsAndTeardowns \/ Reset
    BY <2>3, LoadKeepsHolder, CollectKeepsHolder, ResetKeepsHolder
  <2>4. CASE Compile
    BY <2>4, OtherKeepsHolder DEF Compile, inputVars, holderVars
  <2>5. CASE EarlyExit
    BY <2>5, OtherKeepsHolder DEF EarlyExit, inputVars, holderVars
  <2>6. CASE Quit
    BY <2>6, OtherKeepsHolder DEF Quit, inputVars, holderVars
  <2>7. CASE Abort
    BY <2>7, OtherKeepsHolder DEF Abort, HolderInv, inputVars, simVars, holderVars
  <2>8. CASE Replayer
    BY <2>8, ReplayerIsOther, OtherKeepsHolder DEF HolderInv
  <2>9. CASE UNCHANGED vars
    BY <2>9, OtherKeepsHolder DEF HolderInv, vars, inputVars, simVars, holderVars
  <2> QED BY <2>1, <2>2, <2>3, <2>4, <2>5, <2>6, <2>7, <2>8, <2>9 DEF Next, Simulate
<1> QED BY <1>1, <1>2, PTL DEF Spec

\* A holder returns to the cache with every word outside the ROM zero and no
\* timestamp left, whatever the run did and however it ended.
THEOREM CachedHolderStaysClean == Spec => []CachedHolderIsClean
<1>1. HolderInv => CachedHolderIsClean
  BY DEF HolderInv, Clean, CachedHolderIsClean
<1> QED BY <1>1, SpecKeepsHolder, PTL

\* No program runs past its bound by a whole delegation: the bound is looked at
\* before every instruction, and truncating it can only lower it.
THEOREM BoundStaysKept == Spec => []BoundIsKept
<1>1. HolderInv => BoundIsKept
  BY DEF HolderInv, Limit, BoundIsKept
<1> QED BY <1>1, SpecKeepsHolder, PTL

-----------------------------------------------------------------------------
(* The chunk that is being filled.                                         *)

IsLog(log) == \E S : log \in Seq(S)

LogInv ==
  /\ IsLog(trace) /\ Len(trace) < TRACE_CHUNK_LEN
  /\ \A s \in snapshots : Len(s.trace) < MAX_TRACE_CHUNK_LEN

LEMMA LogGrows ==
  ASSUME NEW log, IsLog(log), NEW entry
  PROVE  /\ IsLog(Append(log, entry)) /\ Len(Append(log, entry)) = Len(log) + 1
         /\ IsLog(log \o <<entry>>) /\ Len(log \o <<entry>>) = Len(log) + 1
         /\ Len(log) \in Nat
<1>1. PICK S : log \in Seq(S)
  BY DEF IsLog
<1>2. PICK T : T = S \cup {entry}
  OBVIOUS
<1>3. log \in Seq(T) /\ entry \in T
  BY <1>1, <1>2
<1>4. Append(log, entry) \in Seq(T) /\ log \o <<entry>> \in Seq(T)
  BY <1>3
<1> QED BY <1>3, <1>4 DEF IsLog

LEMMA EmptyLog == IsLog(<<>>) /\ Len(<<>>) = 0
<1>1. <<>> \in Seq({})
  OBVIOUS
<1> QED BY <1>1 DEF IsLog

\* A snapshot takes a chunk that has not run over.
LEMMA SnapshotKeepsLogs ==
  ASSUME LogInv, NEW h, NEW log, Len(log) < MAX_TRACE_CHUNK_LEN, process_trace(h, log)
  PROVE  \A s \in snapshots' : Len(s.trace) < MAX_TRACE_CHUNK_LEN
<1> DEFINE last == [h EXCEPT !.timestamp = next_multiple_of_step(@)]
           new == [initial_state |-> state, trace |-> log, final_state |-> last]
<1>1. snapshots' \subseteq snapshots \cup {new}
  BY DEF process_trace, runnerVars
<1>2. new.trace = log
  OBVIOUS
<1> HIDE DEF new
<1> QED BY <1>1, <1>2 DEF LogInv

\* Up to three entries more than a chunk that is not full.
LEMMA CheckKeepsLogs ==
  ASSUME LogInv, NEW h, NEW log, IsLog(log), Len(log) \in Nat, Len(log) < TRACE_CHUNK_LEN + 3,
         check_to_save_trace(h, log)
  PROVE  LogInv'
<1>1. Len(log) < MAX_TRACE_CHUNK_LEN /\ 0 < TRACE_CHUNK_LEN
  BY ReplayAssumption
<1>2. CASE Len(log) >= TRACE_CHUNK_LEN
  <2>1. process_trace(h, log) /\ trace' = <<>>
    BY <1>2 DEF check_to_save_trace
  <2> QED BY <1>1, <2>1, EmptyLog, SnapshotKeepsLogs DEF LogInv
<1>3. CASE ~ (Len(log) >= TRACE_CHUNK_LEN)
  <2>1. trace' = log /\ snapshots' = snapshots
    BY <1>3 DEF check_to_save_trace, runnerVars
  <2>2. Len(log) < TRACE_CHUNK_LEN
    BY <1>3, ReplayAssumption
  <2> QED BY <2>1, <2>2 DEF LogInv
<1> QED BY <1>2, <1>3

LEMMA InstructionKeepsLogs ==
  ASSUME LogInv,
         \/ Add \/ Lui \/ Jal \/ Beq \/ Lw \/ Store \/ ReadNonDeterminism
         \/ WriteNonDeterminism \/ Bigint \/ Blake
  PROVE  LogInv'
<1>0. IsLog(trace) /\ Len(trace) \in Nat /\ Len(trace) < TRACE_CHUNK_LEN
  BY LogGrows DEF LogInv
<1>1. CASE UNCHANGED <<trace, snapshots>>
  BY <1>1 DEF LogInv
<1>2. CASE Add \/ Lui \/ Jal \/ Beq \/ WriteNonDeterminism
  BY <1>1, <1>2 DEF Add, Lui, Jal, Beq, WriteNonDeterminism, Retire, runnerVars
<1>3. ASSUME NEW h, NEW pc, NEW e, Record(h, trace \o <<e>>, pc) \/ Record(h, Append(trace, e), pc)
      PROVE  LogInv'
  <2>1. PICK log : /\ log = trace \o <<e>> \/ log = Append(trace, e)
                   /\ check_to_save_trace(At(h, pc), log)
    BY <1>3 DEF Record
  <2>2. IsLog(log) /\ Len(log) = Len(trace) + 1
    BY <1>0, <2>1, LogGrows
  <2> QED BY <1>0, <2>1, <2>2, CheckKeepsLogs, ReplayAssumption
<1>4. CASE Lw \/ Store \/ ReadNonDeterminism
  BY <1>3, <1>4 DEF Lw, Store, ReadNonDeterminism, Logged
<1>5. CASE Bigint
  <2>1. PICK h, c, a, b, carry :
          Delegated(h, Append(trace \o <<b>> \o <<a>>, carry), c)
    BY <1>5 DEF Bigint, Logged
  <2> DEFINE log1 == trace \o <<b>>
             log2 == log1 \o <<a>>
             log3 == Append(log2, carry)
  <2>2. IsLog(log1) /\ Len(log1) = Len(trace) + 1
    BY <1>0, LogGrows
  <2> HIDE DEF log1
  <2>3. IsLog(log2) /\ Len(log2) = Len(log1) + 1
    BY <2>2, LogGrows
  <2> HIDE DEF log2
  <2>4. IsLog(log3) /\ Len(log3) = Len(log2) + 1
    BY <2>3, LogGrows
  <2>5. check_to_save_trace(At(h, hart.pc + c), log3)
    BY <2>1 DEF Delegated, log1, log2
  <2> HIDE DEF log3
  <2>6. Len(log3) \in Nat /\ Len(log3) < TRACE_CHUNK_LEN + 3
    BY <1>0, <2>2, <2>3, <2>4, ReplayAssumption
  <2> QED BY <2>4, <2>5, <2>6, CheckKeepsLogs
<1>6. CASE Blake
  <2>1. PICK h, c, a, b : Delegated(h, trace \o <<a>> \o <<b>>, c)
    BY <1>6 DEF Blake, Logged
  <2> DEFINE log1 == trace \o <<a>>
             log2 == log1 \o <<b>>
  <2>2. IsLog(log1) /\ Len(log1) = Len(trace) + 1
    BY <1>0, LogGrows
  <2> HIDE DEF log1
  <2>3. IsLog(log2) /\ Len(log2) = Len(log1) + 1
    BY <2>2, LogGrows
  <2>4. check_to_save_trace(At(h, hart.pc + c), log2)
    BY <2>1 DEF Delegated, log1
  <2> HIDE DEF log2
  <2>5. Len(log2) \in Nat /\ Len(log2) < TRACE_CHUNK_LEN + 3
    BY <1>0, <2>2, <2>3, ReplayAssumption
  <2> QED BY <2>3, <2>4, <2>5, CheckKeepsLogs
<1> QED BY <1>2, <1>4, <1>5, <1>6

LEMMA SpecKeepsLogs == Spec => []LogInv
<1>1. Init => LogInv
  BY EmptyLog, ReplayAssumption DEF Init, LogInv
<1>2. LogInv /\ [Next]_vars => LogInv'
  <2> SUFFICES ASSUME LogInv, [Next]_vars PROVE LogInv'
    OBVIOUS
  <2>1. ASSUME UNCHANGED trace, snapshots' \subseteq snapshots
        PROVE  LogInv'
    BY <2>1 DEF LogInv
  <2>2. CASE Compile \/ Load \/ EarlyExit \/ CollectInitsAndTeardowns \/ Reset
    BY <2>1, <2>2 DEF Compile, Load, EarlyExit, CollectInitsAndTeardowns, Reset, runnerVars
  <2>3. CASE Quit
    <3>1. process_trace(hart, trace) /\ trace' = <<>>
      BY <2>3 DEF Quit
    <3>2. Len(trace) < MAX_TRACE_CHUNK_LEN /\ 0 < TRACE_CHUNK_LEN
      BY ReplayAssumption, LogGrows DEF LogInv
    <3> QED BY <3>1, <3>2, EmptyLog, SnapshotKeepsLogs DEF LogInv
  <2>4. CASE Abort \/ UNCHANGED vars
    BY <2>1, <2>4 DEF Abort, vars, simVars
  <2>5. CASE Replayer
    <3>1. CASE BeginReplay \/ EndReplay
      BY <2>1, <3>1 DEF BeginReplay, EndReplay, simVars
    <3>2. ASSUME NEW vm, NEW pc, NEW type, Advance(vm, pc, type)
          PROVE  UNCHANGED <<trace, snapshots>>
      BY <3>2 DEF Advance, simVars
    <3>3. CASE ReplayAdd \/ ReplayLui \/ ReplayJal \/ ReplayBeq \/ ReplayLw
      BY <2>1, <3>2, <3>3 DEF ReplayAdd, ReplayLui, ReplayJal, ReplayBeq, ReplayLw
    <3>4. CASE ReplayStore
      BY <2>1, <3>2, <3>4 DEF ReplayStore
    <3>5. CASE ReplayReadNonDeterminism \/ ReplayWriteNonDeterminism
      BY <2>1, <3>2, <3>5 DEF ReplayReadNonDeterminism, ReplayWriteNonDeterminism
    <3>6. CASE ReplayBigint
      BY <2>1, <3>2, <3>6 DEF ReplayBigint
    <3>7. CASE ReplayBlake
      BY <2>1, <3>2, <3>7 DEF ReplayBlake
    <3> QED BY <2>5, <3>1, <3>3, <3>4, <3>5, <3>6, <3>7 DEF Replayer
  <2> QED BY <2>2, <2>3, <2>4, <2>5, InstructionKeepsLogs DEF Next, Simulate
<1> QED BY <1>1, <1>2, PTL DEF Spec

\* No instruction and no delegation writes past the end of a trace chunk, for
\* every length of a chunk that leaves room for the largest delegation.
THEOREM ChunksStayWithinCapacity == Spec => []ChunkWithinCapacity
<1>1. LogInv => ChunkWithinCapacity
  BY DEF LogInv, ChunkWithinCapacity
<1> QED BY <1>1, SpecKeepsLogs, PTL

-----------------------------------------------------------------------------
(* The machine between two instructions, field by field, and what the      *)
(* parts of an instruction do to it.                                       *)

MachineFields == {"pc", "timestamp", "registers", "register_timestamps", "counters"}

Is(m, pc, t, registers, stamps, counters) ==
  /\ m = [x \in MachineFields |-> m[x]]
  /\ m.pc = pc /\ m.timestamp = t /\ m.registers = registers
  /\ m.register_timestamps = stamps /\ m.counters = counters

Put(registers, r, value) == [registers EXCEPT ![r] = value]
Stamp(stamps, r, t) == [stamps EXCEPT ![r] = t]
Plus(counters, type, n) == [counters EXCEPT ![type] = @ + n]

LEMMA SameMachine ==
  ASSUME NEW pc, NEW t, NEW registers, NEW stamps, NEW counters,
         NEW a, Is(a, pc, t, registers, stamps, counters),
         NEW b, Is(b, pc, t, registers, stamps, counters)
  PROVE  a = b
BY DEF Is, MachineFields

LEMMA BumpM ==
  ASSUME NEW m, NEW pc, NEW t, NEW registers, NEW stamps, NEW counters,
         Is(m, pc, t, registers, stamps, counters), NEW d
  PROVE  Is(bump_timestamp(m, d), pc, t + d, registers, stamps, counters)
BY DEF Is, MachineFields, bump_timestamp

LEMMA TouchM ==
  ASSUME NEW m, NEW pc, NEW t, NEW registers, NEW stamps, NEW counters,
         Is(m, pc, t, registers, stamps, counters), NEW r
  PROVE  Is(Touch(m, r), pc, t, registers, Stamp(stamps, r, t), counters)
BY DEF Is, MachineFields, Touch, Stamp

LEMMA TouchBumpM ==
  ASSUME NEW m, NEW pc, NEW t, NEW registers, NEW stamps, NEW counters,
         Is(m, pc, t, registers, stamps, counters), NEW r, NEW d
  PROVE  Is(touch_register_and_bump_timestamp(m, r, d), pc, t + d, registers,
            Stamp(stamps, r, t), counters)
BY TouchM, BumpM DEF touch_register_and_bump_timestamp

LEMMA BumpTouchM ==
  ASSUME NEW m, NEW pc, NEW t, NEW registers, NEW stamps, NEW counters,
         Is(m, pc, t, registers, stamps, counters), NEW r, NEW d
  PROVE  Is(pre_bump_timestamp_and_touch(m, d, r), pc, t + d, registers,
            Stamp(stamps, r, t + d), counters)
BY TouchM, BumpM DEF pre_bump_timestamp_and_touch

LEMMA CountM ==
  ASSUME NEW m, NEW pc, NEW t, NEW registers, NEW stamps, NEW counters,
         Is(m, pc, t, registers, stamps, counters), NEW type, NEW n
  PROVE  Is(record_circuit_type(m, type, n), pc, t, registers, stamps, Plus(counters, type, n))
BY DEF Is, MachineFields, record_circuit_type, Plus

LEMMA StoreM ==
  ASSUME NEW m, NEW pc, NEW t, NEW registers, NEW stamps, NEW counters,
         Is(m, pc, t, registers, stamps, counters), NEW r, NEW value
  PROVE  Is(store_result(m, r, value), pc, t, Put(registers, r, value), stamps, counters)
BY DEF Is, MachineFields, store_result, Put

LEMMA AtM ==
  ASSUME NEW m, NEW pc, NEW t, NEW registers, NEW stamps, NEW counters,
         Is(m, pc, t, registers, stamps, counters), NEW target
  PROVE  Is(At(m, target), target, t, registers, stamps, counters)
BY DEF Is, MachineFields, At

LEMMA MarkedM ==
  ASSUME NEW m, NEW pc, NEW t \in Nat, NEW registers, NEW stamps, NEW counters,
         Is(m, pc, t, registers, stamps, counters), NEW type, NEW n
  PROVE  Is(Marked(m, type, n), pc, t + 3, registers, Stamp(stamps, 0, t + 2),
            Plus(Plus(counters, type, n), "ShiftBinaryCsr", n))
<1> DEFINE c1 == Plus(counters, type, n)
           c2 == Plus(c1, "ShiftBinaryCsr", n)
           m1 == record_circuit_type(m, type, n)
           m2 == record_circuit_type(m1, "ShiftBinaryCsr", n)
           m3 == pre_bump_timestamp_and_touch(m2, 2, 0)
<1>1. Is(m1, pc, t, registers, stamps, c1)
  BY CountM
<1> HIDE DEF m1, c1
<1>2. Is(m2, pc, t, registers, stamps, c2)
  BY <1>1, CountM
<1> HIDE DEF m2, c2
<1>3. Is(m3, pc, t + 2, registers, Stamp(stamps, 0, t + 2), c2)
  BY <1>2, BumpTouchM
<1> HIDE DEF m3
<1>4. Is(bump_timestamp(m3, 1), pc, (t + 2) + 1, registers, Stamp(stamps, 0, t + 2), c2)
  BY <1>3, BumpM
<1>5. (t + 2) + 1 = t + 3
  OBVIOUS
<1> QED BY <1>4, <1>5 DEF Marked, m3, m2, m1, c2, c1

\* The registers of the call, and x0.
AbiStamps(stamps, t) == [r \in Registers |-> IF r = 0 THEN stamps[r] ELSE t]

LEMMA TouchAbiM ==
  ASSUME NEW m, NEW pc, NEW t, NEW registers, NEW stamps, NEW counters,
         Is(m, pc, t, registers, stamps, counters)
  PROVE  Is(TouchAbi(m), pc, t, registers, AbiStamps(stamps, t), counters)
BY DEF Is, MachineFields, TouchAbi, AbiStamps

-----------------------------------------------------------------------------
(* Counters.                                                               *)

\* The cycles that the counters of the families add up to.
CountedCycles(counters) == SumFunction([c \in Families |-> counters[c]])

LEMMA FamiliesAreFinite == IsFiniteSet(Families)
<1>1. PICK S : S = {"AddSubLui", "BranchSlt", "ShiftBinaryCsr", "MemWord", "MemSubword"}
  OBVIOUS
<1>2. IsFiniteSet({}) 
  BY FS_EmptySet
<1>3. IsFiniteSet({} \cup {"AddSubLui"})
  BY <1>2, FS_AddElement
<1>4. IsFiniteSet(({} \cup {"AddSubLui"}) \cup {"BranchSlt"})
  BY <1>3, FS_AddElement
<1>5. IsFiniteSet((({} \cup {"AddSubLui"}) \cup {"BranchSlt"}) \cup {"ShiftBinaryCsr"})
  BY <1>4, FS_AddElement
<1>6. IsFiniteSet(((({} \cup {"AddSubLui"}) \cup {"BranchSlt"}) \cup {"ShiftBinaryCsr"}) \cup {"MemWord"})
  BY <1>5, FS_AddElement
<1>7. IsFiniteSet((((({} \cup {"AddSubLui"}) \cup {"BranchSlt"}) \cup {"ShiftBinaryCsr"}) \cup {"MemWord"})
                  \cup {"MemSubword"})
  BY <1>6, FS_AddElement
<1>8. (((({} \cup {"AddSubLui"}) \cup {"BranchSlt"}) \cup {"ShiftBinaryCsr"}) \cup {"MemWord"})
                  \cup {"MemSubword"} = Families
  BY DEF Families
<1> QED BY <1>7, <1>8

LEMMA CountersGrow ==
  ASSUME NEW counters \in [CounterType -> Nat], NEW type \in CounterType, NEW n \in Nat
  PROVE  /\ Plus(counters, type, n) \in [CounterType -> Nat]
         /\ \A c \in CounterType :
              Plus(counters, type, n)[c] = IF c = type THEN counters[c] + n ELSE counters[c]
BY DEF Plus

\* An instruction of a family counts as its cycles.
LEMMA FamilyCounts ==
  ASSUME NEW counters \in [CounterType -> Nat], NEW type \in Families, NEW n \in Nat
  PROVE  /\ CountedCycles(counters) \in Nat
         /\ CountedCycles(Plus(counters, type, n)) = CountedCycles(counters) + n
<1>0. type \in CounterType /\ Families \subseteq CounterType
  BY DEF CounterType
<1>1. PICK f : f = [c \in Families |-> counters[c]]
  OBVIOUS
<1>2. f \in [Families -> Nat] /\ f \in [Families -> Int] /\ f[type] = counters[type]
      /\ counters[type] \in Nat
  BY <1>0, <1>1
<1>3. PICK v \in Int : v = f[type] + n
  BY <1>2
<1>4. SumFunction([f EXCEPT ![type] = v]) = SumFunction(f) - f[type] + v
  BY <1>2, <1>3, FamiliesAreFinite, SumExcept
<1>10. \A c \in Families : Plus(counters, type, n)[c] = IF c = type THEN v ELSE f[c]
  BY <1>0, <1>1, <1>2, <1>3, CountersGrow
<1>11. [f EXCEPT ![type] = v] = [c \in Families |-> IF c = type THEN v ELSE f[c]]
  BY <1>2
<1>5. [c \in Families |-> Plus(counters, type, n)[c]] = [f EXCEPT ![type] = v]
  BY <1>10, <1>11
<1>6. SumFunction(f) \in Nat
  BY <1>2, FamiliesAreFinite, SumNat
<1>7. PICK s \in Nat : s = SumFunction(f)
  BY <1>6
<1>8. PICK k \in Nat : k = f[type]
  BY <1>2
<1>9. s - k + v = s + n
  BY <1>3, <1>8
<1> QED BY <1>1, <1>4, <1>5, <1>7, <1>8, <1>9 DEF CountedCycles

\* A delegation does not.
LEMMA DelegationCounts ==
  ASSUME NEW counters \in [CounterType -> Nat], NEW type \in CounterType \ Families, NEW n \in Nat
  PROVE  CountedCycles(Plus(counters, type, n)) = CountedCycles(counters)
<1>2. \A c \in Families : c \in CounterType /\ c # type
  BY DEF CounterType
<1>3. \A c \in Families : Plus(counters, type, n)[c] = counters[c]
  BY <1>2, CountersGrow
<1>1. [c \in Families |-> Plus(counters, type, n)[c]] = [c \in Families |-> counters[c]]
  BY <1>3
<1> QED BY <1>1 DEF CountedCycles

-----------------------------------------------------------------------------
(* Between two instructions.                                               *)

Settled(m) ==
  /\ m = [x \in MachineFields |-> m[x]]
  /\ m.pc \in Nat
  /\ m.registers \in [Registers -> Values] /\ m.registers[0] = 0
  /\ m.register_timestamps \in [Registers -> Nat]
  /\ \A r \in Registers : m.register_timestamps[r] < m.timestamp
  /\ m.counters \in [CounterType -> Nat]
  /\ CountedCycles(m.counters) \in Nat
  /\ m.timestamp = 4 + 4 * CountedCycles(m.counters)

\* Stamps of accesses that are behind a timestamp.
Behind(stamps, t) == stamps \in [Registers -> Nat] /\ \A r \in Registers : stamps[r] < t

LEMMA StampBehind ==
  ASSUME NEW stamps, NEW t \in Nat, Behind(stamps, t), NEW r, NEW s \in Nat, s < t
  PROVE  Behind(Stamp(stamps, r, s), t)
BY DEF Behind, Stamp

LEMMA LaterBehind ==
  ASSUME NEW stamps, NEW t \in Nat, NEW u \in Nat, Behind(stamps, t), t <= u
  PROVE  Behind(stamps, u)
BY DEF Behind

LEMMA PutTyped ==
  ASSUME NEW registers \in [Registers -> Values], registers[0] = 0, NEW r, NEW value \in Values,
         r = 0 => value = 0
  PROVE  Put(registers, r, value) \in [Registers -> Values] /\ Put(registers, r, value)[0] = 0
<1>1. 0 \in Registers
  BY DEF Registers
<1>2. \A x \in Registers : Put(registers, r, value)[x] = IF x = r THEN value ELSE registers[x]
  BY DEF Put
<1>3. Put(registers, r, value) \in [Registers -> Values]
  BY DEF Put
<1> QED BY <1>1, <1>2, <1>3

LEMMA Settle1 ==
  ASSUME NEW a, Settled(a), NEW b, NEW pc \in Nat, NEW registers \in [Registers -> Values],
         registers[0] = 0, NEW stamps, Behind(stamps, a.timestamp + 4), NEW type \in Families,
         Is(b, pc, a.timestamp + 4, registers, stamps, Plus(a.counters, type, 1))
  PROVE  Settled(b) /\ a.timestamp \in Nat /\ b.timestamp = a.timestamp + 4
<1>1. a.counters \in [CounterType -> Nat] /\ type \in CounterType
  BY DEF Settled, CounterType
<1>2. /\ CountedCycles(a.counters) \in Nat
      /\ CountedCycles(Plus(a.counters, type, 1)) = CountedCycles(a.counters) + 1
      /\ Plus(a.counters, type, 1) \in [CounterType -> Nat]
  <2>1. 1 \in Nat
    OBVIOUS
  <2>2. PICK cs \in [CounterType -> Nat] : cs = a.counters
    BY <1>1
  <2>3. Plus(cs, type, 1) \in [CounterType -> Nat]
    BY <1>1, <2>1, CountersGrow
  <2>4. CountedCycles(cs) \in Nat /\ CountedCycles(Plus(cs, type, 1)) = CountedCycles(cs) + 1
    BY <2>1, FamilyCounts
  <2> QED BY <2>2, <2>3, <2>4
<1>3. a.timestamp = 4 + 4 * CountedCycles(a.counters)
  BY DEF Settled
<1>4. PICK n \in Nat : n = CountedCycles(a.counters)
  BY <1>2
<1>5. b.timestamp = 4 + 4 * (n + 1) /\ n + 1 \in Nat /\ a.timestamp \in Nat
  BY <1>3, <1>4 DEF Is
<1> QED BY <1>2, <1>4, <1>5 DEF Settled, Is, Behind

-----------------------------------------------------------------------------
(* What an instruction makes of the machine and of the log: the relation   *)
(* that the compiled code and the replayer share.                          *)

\* The instruction takes the entries u + 1 to v of the log.
Consumes(log, u, v, t) ==
  /\ u <= v /\ v <= Len(log)
  /\ \A j \in (u + 1)..v : log[j][2] < t

\* Accesses of three registers, at the offsets 0, 1 and 2 of a cycle.
Three(stamps, r1, r2, r3, t) == Stamp(Stamp(Stamp(stamps, r1, t), r2, t + 1), r3, t + 2)

Written(registers, r, value) == Put(registers, r, IF r = 0 THEN 0 ELSE value)

Plain(a, b, r1, r2, r3, value, type, pc) ==
  Is(b, pc, a.timestamp + 4, Written(a.registers, r3, value),
     Three(a.register_timestamps, r1, r2, r3, a.timestamp), Plus(a.counters, type, 1))

AddTurn(i, a, u, b, v) ==
  /\ i.op = "add" /\ v = u
  /\ Plain(a, b, i.rs1, i.rs2, i.rd, Wrap(a.registers[i.rs1] + a.registers[i.rs2]), "AddSubLui",
           a.pc + 1)

LuiTurn(i, a, u, b, v) ==
  /\ i.op = "lui" /\ v = u
  /\ Plain(a, b, 0, 0, i.rd, i.imm, "AddSubLui", a.pc + 1)

JalTurn(i, a, u, b, v) ==
  /\ i.op = "jal" /\ v = u
  /\ Plain(a, b, 0, 0, i.rd, Wrap(a.pc + 1), "BranchSlt", i.imm)

BeqTurn(i, a, u, b, v) ==
  /\ i.op = "beq" /\ v = u
  /\ Plain(a, b, i.rs1, i.rs2, 0, 0, "BranchSlt",
           IF a.registers[i.rs1] = a.registers[i.rs2] THEN i.imm ELSE a.pc + 1)

LwTurn(i, log, a, u, b, v) ==
  /\ i.op = "lw" /\ v = u + 1
  /\ Is(b, a.pc + 1, a.timestamp + 4, Written(a.registers, i.rd, log[u + 1][1]),
        Stamp(Stamp(a.register_timestamps, i.rs1, a.timestamp), i.rd, a.timestamp + 2),
        Plus(a.counters, "MemWord", 1))

StoreTurn(i, a, u, b, v) ==
  /\ i.op \in {"sw", "sb"} /\ v = u + 1
  /\ Is(b, a.pc + 1, a.timestamp + 4, a.registers,
        Stamp(Stamp(a.register_timestamps, i.rs1, a.timestamp), i.rs2, a.timestamp + 1),
        Plus(a.counters, IF i.op = "sw" THEN "MemWord" ELSE "MemSubword", 1))

ReadTurn(i, log, a, u, b, v) ==
  /\ i.op = "nd_read" /\ v = u + 1 /\ log[u + 1][2] = 0
  /\ Plain(a, b, 0, 0, i.rd, log[u + 1][1], "ShiftBinaryCsr", a.pc + 1)

WriteTurn(i, a, u, b, v) ==
  /\ i.op = "nd_write" /\ v = u
  /\ Plain(a, b, i.rs1, 0, 0, 0, "ShiftBinaryCsr", a.pc + 1)

Carry(log, u) == bigint_impl(log[u + 2][1], log[u + 1][1])[2]

BigintTurn(i, log, a, u, b, v) ==
  /\ i.op = "bigint" /\ v = u + 3 /\ log[u + 3] = <<Carry(log, u), 0>>
  /\ Is(b, a.pc + 1, a.timestamp + 4, Put(a.registers, 3, Carry(log, u)),
        AbiStamps(Stamp(a.register_timestamps, 0, a.timestamp + 2), a.timestamp + 3),
        Plus(Plus(a.counters, "BigintDelegation", 1), "ShiftBinaryCsr", 1))

\* The timestamp of the last of some rounds, when the first is at t.
LastRound(t, count) == t + 4 * (count - 1)

HashTurn(i, a, u, b, v, count) ==
  /\ i.op = "blake" /\ v = u + 2 /\ a.registers[3] \in ControlWords
  /\ Is(b, a.pc + count, a.timestamp + 4 * count,
        Put(a.registers, 3, Control(a.registers[3], count)),
        AbiStamps(Stamp(a.register_timestamps, 0, LastRound(a.timestamp, count) + 2),
                  LastRound(a.timestamp, count) + 3),
        Plus(Plus(a.counters, "BlakeDelegation", count), "ShiftBinaryCsr", count))

BlakeTurn(i, a, u, b, v) == HashTurn(i, a, u, b, v, num_rounds(a.registers[3]))

Turn(code, log, a, u, b, v) ==
  LET i == code[a.pc + 1]
  IN /\ i \in InstructionType
     /\ Consumes(log, u, v, a.timestamp)
     /\ \/ AddTurn(i, a, u, b, v) \/ LuiTurn(i, a, u, b, v) \/ JalTurn(i, a, u, b, v)
        \/ BeqTurn(i, a, u, b, v) \/ LwTurn(i, log, a, u, b, v) \/ StoreTurn(i, a, u, b, v)
        \/ ReadTurn(i, log, a, u, b, v) \/ WriteTurn(i, a, u, b, v)
        \/ BigintTurn(i, log, a, u, b, v) \/ BlakeTurn(i, a, u, b, v)

\* One log begins another.
Begins(log, more) == Len(log) <= Len(more) /\ \A j \in 1..Len(log) : more[j] = log[j]

LEMMA TurnInLongerLog ==
  ASSUME NEW code, NEW log, Len(log) \in Nat, NEW more, Len(more) \in Nat, Begins(log, more),
         NEW a, NEW u \in Nat, NEW b, NEW v \in Nat, Turn(code, log, a, u, b, v)
  PROVE  Turn(code, more, a, u, b, v)
<1> DEFINE i == code[a.pc + 1]
<1>1. /\ i \in InstructionType /\ u <= v /\ v <= Len(log)
      /\ \A j \in (u + 1)..v : log[j][2] < a.timestamp
  BY DEF Turn, Consumes
<1>2. \A j \in (u + 1)..v : more[j] = log[j]
  BY <1>1 DEF Begins
<1>3. Consumes(more, u, v, a.timestamp)
  BY <1>1, <1>2 DEF Consumes, Begins
<1> HIDE DEF i
<1>4. LwTurn(i, log, a, u, b, v) => LwTurn(i, more, a, u, b, v)
  BY <1>1, <1>2 DEF LwTurn
<1>5. ReadTurn(i, log, a, u, b, v) => ReadTurn(i, more, a, u, b, v)
  BY <1>1, <1>2 DEF ReadTurn
<1>6. BigintTurn(i, log, a, u, b, v) => BigintTurn(i, more, a, u, b, v)
  <2> SUFFICES ASSUME v = u + 3, BigintTurn(i, log, a, u, b, v)
               PROVE  BigintTurn(i, more, a, u, b, v)
    BY DEF BigintTurn
  <2>1. more[u + 1] = log[u + 1] /\ more[u + 2] = log[u + 2] /\ more[u + 3] = log[u + 3]
    BY <1>2
  <2>2. Carry(more, u) = Carry(log, u)
    BY <2>1 DEF Carry
  <2> QED BY <2>1, <2>2 DEF BigintTurn
<1>7. \/ AddTurn(i, a, u, b, v) \/ LuiTurn(i, a, u, b, v) \/ JalTurn(i, a, u, b, v)
      \/ BeqTurn(i, a, u, b, v) \/ LwTurn(i, log, a, u, b, v) \/ StoreTurn(i, a, u, b, v)
      \/ ReadTurn(i, log, a, u, b, v) \/ WriteTurn(i, a, u, b, v)
      \/ BigintTurn(i, log, a, u, b, v) \/ BlakeTurn(i, a, u, b, v)
  BY DEF Turn, i
<1>8. \/ AddTurn(i, a, u, b, v) \/ LuiTurn(i, a, u, b, v) \/ JalTurn(i, a, u, b, v)
      \/ BeqTurn(i, a, u, b, v) \/ LwTurn(i, more, a, u, b, v) \/ StoreTurn(i, a, u, b, v)
      \/ ReadTurn(i, more, a, u, b, v) \/ WriteTurn(i, a, u, b, v)
      \/ BigintTurn(i, more, a, u, b, v) \/ BlakeTurn(i, a, u, b, v)
  BY <1>4, <1>5, <1>6, <1>7
<1> QED BY <1>1, <1>3, <1>8 DEF Turn, i

-----------------------------------------------------------------------------
(* The states of a machine between two snapshots.                          *)

\* A replay ends at any instruction that leads to itself, the simulator only at a
\* jump that does.
BranchesMove ==
  \A code \in Programs : \A n \in DOMAIN code : code[n].op = "beq" => code[n].imm # n - 1

Path(code, log, f, g, n) ==
  /\ g[0] = 0 /\ g[n] = Len(log)
  /\ \A k \in 0..n : Settled(f[k]) /\ g[k] \in Nat
  /\ \A k \in 0..(n - 1) :
       /\ Turn(code, log, f[k], g[k], f[k + 1], g[k + 1])
       /\ f[k].timestamp < f[n].timestamp
       /\ BranchesMove /\ f[k + 1].pc = f[k].pc => k = n - 1

\* Every instruction but the last leads on; or every one.
Reaches(code, a, b, log) ==
  \E n \in Nat : \E f, g : Path(code, log, f, g, n) /\ f[0] = a /\ f[n] = b

Runs(code, a, b, log) ==
  \E n \in Nat : \E f, g :
    /\ Path(code, log, f, g, n) /\ f[0] = a /\ f[n] = b
    /\ BranchesMove => \A k \in 0..(n - 1) : f[k + 1].pc # f[k].pc

LEMMA RunsReaches ==
  ASSUME NEW code, NEW a, NEW b, NEW log, Runs(code, a, b, log)
  PROVE  Reaches(code, a, b, log)
BY DEF Runs, Reaches

LEMMA RunsNowhere ==
  ASSUME NEW code, NEW a, Settled(a)
  PROVE  Runs(code, a, a, <<>>)
<1>1. PICK f, g : f = [k \in {0} |-> a] /\ g = [k \in {0} |-> 0]
  OBVIOUS
<1>2. f[0] = a /\ g[0] = 0 /\ 0..0 = {0} /\ 0..(0 - 1) = {} /\ Len(<<>>) = 0
  BY <1>1
<1>3. Path(code, <<>>, f, g, 0)
  BY <1>2 DEF Path
<1> QED BY <1>2, <1>3 DEF Runs

\* The first n steps lead on.
Onward(f, n) == BranchesMove => \A k \in 0..(n - 1) : f[k + 1].pc # f[k].pc

\* One more after the first n.
Longer(f2, f, n, x) == (\A k \in 0..n : f2[k] = f[k]) /\ f2[n + 1] = x

LEMMA LongerExists ==
  ASSUME NEW f, NEW n \in Nat, NEW x
  PROVE  \E f2 : Longer(f2, f, n, x)
<1>1. PICK f2 : f2 = [k \in 0..(n + 1) |-> IF k = n + 1 THEN x ELSE f[k]]
  OBVIOUS
<1>2. Longer(f2, f, n, x)
  BY <1>1 DEF Longer
<1> QED BY <1>2

\* A turn, by which the log gets longer.
NextTurn(code, m, log, b, more) ==
  /\ Len(log) \in Nat /\ Len(more) \in Nat /\ Begins(log, more)
  /\ Turn(code, more, m, Len(log), b, Len(more)) /\ Settled(b)
  /\ m.timestamp \in Nat /\ b.timestamp \in Nat /\ m.timestamp < b.timestamp

\* A path goes on by a turn.
LEMMA PathGoesOn ==
  ASSUME NEW code, NEW m, NEW log, NEW b, NEW more, NextTurn(code, m, log, b, more),
         NEW n \in Nat, NEW f, NEW g, Path(code, log, f, g, n), f[n] = m, Onward(f, n),
         NEW f2, Longer(f2, f, n, b), NEW g2, Longer(g2, g, n, Len(more))
  PROVE  /\ Path(code, more, f2, g2, n + 1) /\ f2[0] = f[0] /\ f2[n + 1] = b
         /\ (BranchesMove => b.pc # m.pc) => Onward(f2, n + 1)
<1>0. /\ Len(log) \in Nat /\ Len(more) \in Nat /\ Begins(log, more)
      /\ Turn(code, more, m, Len(log), b, Len(more)) /\ Settled(b)
      /\ m.timestamp \in Nat /\ b.timestamp \in Nat /\ m.timestamp < b.timestamp
  BY DEF NextTurn
<1>1. /\ \A k \in 0..n : f2[k] = f[k] /\ g2[k] = g[k]
      /\ f2[n + 1] = b /\ g2[n + 1] = Len(more)
      /\ 0 \in 0..n /\ n \in 0..n
  BY DEF Longer
<1>2. /\ g[0] = 0 /\ g[n] = Len(log)
      /\ \A k \in 0..n : Settled(f[k]) /\ g[k] \in Nat
      /\ \A k \in 0..(n - 1) : /\ Turn(code, log, f[k], g[k], f[k + 1], g[k + 1])
                               /\ f[k].timestamp < f[n].timestamp
  BY DEF Path
<1>3. ASSUME NEW k \in 0..n
      PROVE  f[k].timestamp \in Nat
  <2>1. PICK c \in Nat : f[k].timestamp = 4 + 4 * c
    BY <1>2 DEF Settled
  <2> QED BY <2>1
<1>4. BranchesMove => \A k \in 0..(n - 1) : f[k + 1].pc # f[k].pc
  BY DEF Onward
<1>5. ASSUME NEW k \in 0..n
      PROVE  /\ Turn(code, more, f2[k], g2[k], f2[k + 1], g2[k + 1])
             /\ f2[k].timestamp < f2[n + 1].timestamp
             /\ BranchesMove /\ k < n => f2[k + 1].pc # f2[k].pc
  <2>1. CASE k = n
    BY <1>0, <1>1, <1>2, <2>1
  <2>2. CASE k < n
    <3>1. k \in 0..(n - 1) /\ k \in 0..n /\ k + 1 \in 0..n
      BY <2>2
    <3>2. Turn(code, log, f[k], g[k], f[k + 1], g[k + 1]) /\ g[k] \in Nat /\ g[k + 1] \in Nat
      BY <1>2, <3>1
    <3>3. Turn(code, more, f[k], g[k], f[k + 1], g[k + 1])
      BY <1>0, <3>2, TurnInLongerLog
    <3>4. f[k].timestamp < m.timestamp /\ f[k].timestamp \in Nat
      BY <1>2, <1>3, <3>1
    <3>5. f[k].timestamp < b.timestamp
      BY <1>0, <3>4
    <3> QED BY <1>1, <1>4, <3>1, <3>3, <3>5
  <2> QED BY <2>1, <2>2
<1>6. (n + 1) - 1 = n
  OBVIOUS
<1>7. \A k \in 0..(n + 1) : Settled(f2[k]) /\ g2[k] \in Nat
  <2>1. \A k \in 0..(n + 1) : k \in 0..n \/ k = n + 1
    OBVIOUS
  <2> QED BY <1>0, <1>1, <1>2, <2>1
<1>8. \A k \in 0..n : k < n \/ k = n
  OBVIOUS
<1>9. Path(code, more, f2, g2, n + 1)
  BY <1>1, <1>2, <1>5, <1>6, <1>7, <1>8 DEF Path
<1>10. ASSUME BranchesMove => b.pc # m.pc
       PROVE  Onward(f2, n + 1)
  <2>1. BranchesMove => \A k \in 0..n : f2[k + 1].pc # f2[k].pc
    BY <1>1, <1>5, <1>8, <1>10
  <2> QED BY <1>6, <2>1 DEF Onward
<1> QED BY <1>1, <1>9, <1>10

LEMMA RunsOn ==
  ASSUME NEW code, NEW a, NEW m, NEW log, Len(log) \in Nat, Runs(code, a, m, log),
         NEW more, Len(more) \in Nat, Begins(log, more),
         NEW b, Turn(code, more, m, Len(log), b, Len(more)), Settled(b),
         m.timestamp \in Nat, b.timestamp \in Nat, m.timestamp < b.timestamp
  PROVE  /\ Reaches(code, a, b, more)
         /\ (BranchesMove => b.pc # m.pc) => Runs(code, a, b, more)
<1>1. PICK n \in Nat : \E f, g : /\ Path(code, log, f, g, n) /\ f[0] = a /\ f[n] = m
                                 /\ Onward(f, n)
  BY DEF Runs, Onward
<1>2. PICK f, g : Path(code, log, f, g, n) /\ f[0] = a /\ f[n] = m /\ Onward(f, n)
  BY <1>1
<1>3. PICK f2 : Longer(f2, f, n, b)
  BY LongerExists
<1>4. PICK g2 : Longer(g2, g, n, Len(more))
  BY LongerExists
<1>5. /\ Path(code, more, f2, g2, n + 1) /\ f2[0] = f[0] /\ f2[n + 1] = b
      /\ (BranchesMove => b.pc # m.pc) => Onward(f2, n + 1)
  <2>1. NextTurn(code, m, log, b, more)
    BY DEF NextTurn
  <2> QED BY ONLY <1>2, <1>3, <1>4, <2>1, n \in Nat, PathGoesOn
<1>6. n + 1 \in Nat
  OBVIOUS
<1>7. Reaches(code, a, b, more)
  BY <1>2, <1>5, <1>6 DEF Reaches
<1>8. ASSUME BranchesMove => b.pc # m.pc
      PROVE  Runs(code, a, b, more)
  BY <1>2, <1>5, <1>6, <1>8 DEF Runs, Onward
<1> QED BY <1>7, <1>8

-----------------------------------------------------------------------------
(* Between two instructions again: what every instruction leaves.          *)

\* Numbers that fit a word.
LEMMA WrapIsValue ==
  ASSUME NEW n \in Int
  PROVE  Wrap(n) \in Values
<1>0. PICK a \in Nat : a = MaxAddress
  BY ReplayAssumption
<1>1. PICK m \in Nat \ {0} : m = a + 1
  OBVIOUS
<1>2. n % m \in 0..(m - 1) /\ m - 1 = a
  BY <1>1
<1> QED BY <1>0, <1>1, <1>2 DEF Wrap, Values

LEMMA ControlIsValue ==
  ASSUME NEW control \in Values, NEW n \in Nat
  PROVE  Control(control, n) \in Values
<1>1. PICK a \in Nat : a = MaxAddress
  BY ReplayAssumption
<1>2. control \in Int
  BY <1>1 DEF Values
<1>3. control - n \in Int
  BY <1>2
<1> QED BY <1>3, WrapIsValue DEF Control

LEMMA CarryIsValue ==
  ASSUME NEW a \in Values, NEW b \in Values
  PROVE  bigint_impl(a, b)[1] \in Values /\ bigint_impl(a, b)[2] \in Values
<1>0. PICK x \in Nat \ {0} : x = MaxAddress
  BY ReplayAssumption
<1>1. PICK m \in Nat : m = x + 1 /\ m > 1
  OBVIOUS
<1>2. a \in Nat /\ b \in Nat /\ a < m /\ b < m
  BY <1>0, <1>1 DEF Values
<1>3. PICK n \in Nat : n = a + b
  BY <1>2
<1>4. n < 2 * m
  BY <1>2, <1>3
<1>5. n \div m \in 0..1
  BY <1>1, <1>4
<1>6. Wrap(a + b) \in Values
  BY <1>3, WrapIsValue
<1>7. 0..1 \subseteq Values
  BY <1>0 DEF Values
<1>8. (a + b) \div (MaxAddress + 1) \in Values
  BY <1>0, <1>1, <1>3, <1>5, <1>7
<1> QED BY <1>6, <1>8 DEF bigint_impl

LEMMA MergeIsValue ==
  ASSUME NEW a \in Values, NEW b \in Values
  PROVE  Merge(a, b) \in Values
<1>1. PICK m \in Nat : m = MaxAddress /\ m % 2 = 1
  BY ReplayAssumption
<1>2. a \in Nat /\ b \in Nat /\ a <= m
  BY <1>1 DEF Values
<1>3. (a \div 2) * 2 + (b % 2) <= m
  BY <1>1, <1>2
<1> QED BY <1>1, <1>2, <1>3 DEF Merge, Values

LEMMA PutZero ==
  ASSUME NEW registers \in [Registers -> Values], registers[0] = 0
  PROVE  Put(registers, 0, 0) = registers /\ Written(registers, 0, 0) = registers
BY DEF Put, Written

LEMMA WrittenTyped ==
  ASSUME NEW registers \in [Registers -> Values], registers[0] = 0, NEW r, NEW value \in Values
  PROVE  Written(registers, r, value) \in [Registers -> Values] /\ Written(registers, r, value)[0] = 0
<1>1. 0 \in Values
  BY ReplayAssumption DEF Values
<1> QED BY <1>1, PutTyped DEF Written

LEMMA ThreeBehind ==
  ASSUME NEW stamps, NEW t \in Nat, Behind(stamps, t), NEW r1, NEW r2, NEW r3
  PROVE  Behind(Three(stamps, r1, r2, r3, t), t + 4)
<1>1. Behind(stamps, t + 4)
  BY LaterBehind
<1>2. Behind(Stamp(stamps, r1, t), t + 4)
  BY <1>1, StampBehind
<1>3. Behind(Stamp(Stamp(stamps, r1, t), r2, t + 1), t + 4)
  BY <1>2, StampBehind
<1>4. Behind(Stamp(Stamp(Stamp(stamps, r1, t), r2, t + 1), r3, t + 2), t + 4)
  BY <1>3, StampBehind
<1> QED BY <1>4 DEF Three

LEMMA SettledFields ==
  ASSUME NEW a, Settled(a)
  PROVE  /\ a.timestamp \in Nat \ {0} /\ a.timestamp % 4 = 0 /\ a.pc \in Nat
         /\ Behind(a.register_timestamps, a.timestamp)
         /\ a.registers \in [Registers -> Values] /\ a.registers[0] = 0
         /\ a.counters \in [CounterType -> Nat]
         /\ Is(a, a.pc, a.timestamp, a.registers, a.register_timestamps, a.counters)
<1>1. PICK n \in Nat : n = CountedCycles(a.counters)
  BY DEF Settled
<1>2. a.timestamp = 4 + 4 * n
  BY <1>1 DEF Settled
<1>3. a.timestamp \in Nat \ {0} /\ a.timestamp % 4 = 0
  BY <1>2
<1> QED BY <1>3 DEF Settled, Behind, Is

\* The three families of instructions.
LEMMA PlainSettles ==
  ASSUME NEW a, Settled(a), NEW b, NEW r1, NEW r2, NEW r3, NEW value \in Values,
         NEW type \in Families, NEW pc \in Nat, Plain(a, b, r1, r2, r3, value, type, pc)
  PROVE  Settled(b) /\ b.timestamp = a.timestamp + 4
<1>1. Behind(Three(a.register_timestamps, r1, r2, r3, a.timestamp), a.timestamp + 4)
  BY SettledFields, ThreeBehind
<1>2. /\ Written(a.registers, r3, value) \in [Registers -> Values]
      /\ Written(a.registers, r3, value)[0] = 0
  BY SettledFields, WrittenTyped
<1> QED BY <1>1, <1>2, Settle1 DEF Plain

LEMMA TwoBehind ==
  ASSUME NEW stamps, NEW t \in Nat, Behind(stamps, t), NEW r1, NEW r2, NEW d \in 0..3
  PROVE  Behind(Stamp(Stamp(stamps, r1, t), r2, t + d), t + 4)
<1>1. Behind(stamps, t + 4)
  BY LaterBehind
<1>2. Behind(Stamp(stamps, r1, t), t + 4)
  BY <1>1, StampBehind
<1>3. t + d \in Nat /\ t + d < t + 4 /\ t + 4 \in Nat
  OBVIOUS
<1> QED BY <1>2, <1>3, StampBehind

LEMMA AbiBehind ==
  ASSUME NEW stamps, NEW t \in Nat, NEW u \in Nat, Behind(stamps, t), t <= u
  PROVE  Behind(AbiStamps(Stamp(stamps, 0, u + 2), u + 3), u + 4)
<1>1. Behind(stamps, u + 4)
  BY LaterBehind
<1>2. Behind(Stamp(stamps, 0, u + 2), u + 4)
  BY <1>1, StampBehind
<1> QED BY <1>2 DEF Behind, AbiStamps

LEMMA DelegationSettles ==
  ASSUME NEW a, Settled(a), NEW b, NEW n \in Nat \ {0}, NEW value \in Values,
         NEW type \in CounterType \ Families,
         Is(b, a.pc + n, a.timestamp + 4 * n, Put(a.registers, 3, value),
            AbiStamps(Stamp(a.register_timestamps, 0, (a.timestamp + 4 * (n - 1)) + 2),
                      (a.timestamp + 4 * (n - 1)) + 3),
            Plus(Plus(a.counters, type, n), "ShiftBinaryCsr", n))
  PROVE  Settled(b) /\ b.timestamp = a.timestamp + 4 * n
<1>1. PICK t \in Nat : t = a.timestamp
  BY SettledFields
<1>2. PICK u \in Nat : u = t + 4 * (n - 1) /\ t <= u
  BY <1>1
<1>3. Behind(AbiStamps(Stamp(a.register_timestamps, 0, u + 2), u + 3), u + 4)
  BY <1>1, <1>2, SettledFields, AbiBehind
<1>4. u + 4 = a.timestamp + 4 * n
  BY <1>1, <1>2
<1>5. PICK registers : registers = Put(a.registers, 3, value)
  OBVIOUS
<1>6. registers \in [Registers -> Values] /\ registers[0] = 0
  BY <1>5, SettledFields, PutTyped
<1>7. PICK cs \in [CounterType -> Nat] : cs = a.counters
  BY SettledFields
<1>8. PICK cs1 : cs1 = Plus(cs, type, n)
  OBVIOUS
<1>9. cs1 \in [CounterType -> Nat]
  BY <1>8, CountersGrow
<1>10. CountedCycles(cs1) = CountedCycles(cs)
  BY <1>8, DelegationCounts
<1>11. PICK cs2 : cs2 = Plus(cs1, "ShiftBinaryCsr", n)
  OBVIOUS
<1>12. "ShiftBinaryCsr" \in Families /\ "ShiftBinaryCsr" \in CounterType
  BY DEF Families, CounterType
<1>13. cs2 \in [CounterType -> Nat]
  BY <1>9, <1>11, <1>12, CountersGrow
<1>14. CountedCycles(cs1) \in Nat /\ CountedCycles(cs2) = CountedCycles(cs1) + n
  BY <1>9, <1>11, <1>12, FamilyCounts
<1>15. a.timestamp = 4 + 4 * CountedCycles(cs)
  BY <1>7 DEF Settled
<1>16. PICK c \in Nat : c = CountedCycles(cs)
  BY <1>10, <1>14
<1>17. CountedCycles(cs2) = c + n /\ c + n \in Nat
  BY <1>10, <1>14, <1>16
<1>18. u + 4 = 4 + 4 * (c + n)
  BY <1>4, <1>15, <1>16
<1>19. Is(b, a.pc + n, u + 4, registers, AbiStamps(Stamp(a.register_timestamps, 0, u + 2), u + 3), cs2)
  BY <1>1, <1>2, <1>4, <1>5, <1>7, <1>8, <1>11
<1>20. a.pc + n \in Nat
  BY SettledFields
<1>21. PICK stamps : stamps = AbiStamps(Stamp(a.register_timestamps, 0, u + 2), u + 3)
  OBVIOUS
<1>22. /\ b = [x \in MachineFields |-> b[x]] /\ b.pc = a.pc + n /\ b.timestamp = u + 4
       /\ b.registers = registers /\ b.register_timestamps = stamps /\ b.counters = cs2
  BY <1>19, <1>21 DEF Is
<1>23. stamps \in [Registers -> Nat] /\ \A r \in Registers : stamps[r] < u + 4
  BY <1>3, <1>21 DEF Behind
<1> QED BY <1>4, <1>6, <1>13, <1>17, <1>18, <1>20, <1>22, <1>23 DEF Settled

-----------------------------------------------------------------------------
(* The invariant of the simulator.                                         *)

Logs == Seq(Values \X Nat)

Typed ==
  /\ phase \in {"compile", "run", "quit", "done", "cached"}
  /\ program \in Programs /\ binary_image \in Values
  /\ compiled \in 0..Len(program)
  /\ phase # "compile" => compiled = Len(program)
  /\ \A l \in labels : /\ l \in 0..(Len(program) - 1) /\ l <= compiled
                       /\ l < compiled => ~ (Pure(Instruction(l)) /\ Instruction(l).rd = 0)
  /\ memory \in [Words -> Values] /\ timestamps \in [Words -> Nat]
  /\ \A w \in Words : timestamps[w] < hart.timestamp
  /\ Settled(hart) /\ Settled(state)
  /\ trace \in Logs
  /\ is_aborted \in BOOLEAN /\ abort \in BOOLEAN

\* The log is that of a way from the last snapshot to where the machine is.
Recorded ==
  /\ ~is_aborted => Reaches(program, state, hart, trace)
  /\ ~is_aborted /\ phase \in {"compile", "run"} => Runs(program, state, hart, trace)
  /\ \A s \in snapshots :
       s.trace \in Logs /\ Reaches(program, s.initial_state, s.final_state, s.trace)

Rounded(h) == [h EXCEPT !.timestamp = next_multiple_of_step(@)]

\* A snapshot, or none because of an abort.
LEMMA Saved ==
  ASSUME Typed, Recorded, NEW h, NEW log \in Logs, NEW m, Rounded(h) = m, Settled(m),
         ~is_aborted => Reaches(program, state, m, log),
         process_trace(h, log), program' = program, abort' = abort
  PROVE  /\ Settled(state') /\ is_aborted' \in BOOLEAN
         /\ ~is_aborted' => state' = m
         /\ \A s \in snapshots' :
              s.trace \in Logs /\ Reaches(program', s.initial_state, s.final_state, s.trace)
<1>1. CASE is_aborted
  BY <1>1 DEF process_trace, runnerVars, Typed, Recorded
<1>2. CASE ~is_aborted
  <2> DEFINE new == [initial_state |-> state, trace |-> log, final_state |-> m]
  <2>1. /\ state' = m /\ is_aborted' = abort
        /\ snapshots' \subseteq snapshots \cup {new}
    BY <1>2 DEF process_trace, Rounded
  <2>2. new.initial_state = state /\ new.trace = log /\ new.final_state = m
    OBVIOUS
  <2> HIDE DEF new
  <2>3. new.trace \in Logs /\ Reaches(program, new.initial_state, new.final_state, new.trace)
    BY <1>2, <2>2
  <2> QED BY <2>1, <2>3 DEF Typed, Recorded
<1> QED BY <1>1, <1>2

LEMMA EmptyLogTyped == <<>> \in Logs /\ Len(<<>>) = 0
BY DEF Logs

\* The machine made a turn, and the log is that of a longer way.
Turned(log) ==
  /\ phase = "run" /\ log \in Logs /\ Begins(trace, log)
  /\ Turn(program, log, hart, Len(trace), hart', Len(log))
  /\ Settled(hart') /\ hart.timestamp < hart'.timestamp
  /\ \/ log = trace /\ UNCHANGED <<trace, runnerVars>>
     \/ \E h : Rounded(h) = hart' /\ check_to_save_trace(h, log)
  /\ program' = program /\ abort' = abort
  /\ phase' = "quit" \/ (phase' = "run" /\ (BranchesMove => hart'.pc # hart.pc))

\* An entry of the log is what a word held when it was accessed, and when it was
\* accessed before.
Tells(log, n, address) == log[n] = <<memory[address], timestamps[address]>>

\* What the instructions that access words do to the memory.
Loaded(address) ==
  /\ \E log : Turned(log) /\ Tells(log, Len(trace) + 1, address)
  /\ memory' = memory /\ timestamps' = [timestamps EXCEPT ![address] = hart.timestamp + 1]

Stored(op, address, value) ==
  /\ \E log : Turned(log) /\ Tells(log, Len(trace) + 1, address)
  /\ memory' = [memory EXCEPT ![address] =
                  IF op = "sw" THEN value ELSE Merge(memory[address], value)]
  /\ timestamps' = [timestamps EXCEPT ![address] = hart.timestamp + 2]

Summed(a, b) ==
  /\ \E log : Turned(log) /\ Tells(log, Len(trace) + 1, b) /\ Tells(log, Len(trace) + 2, a)
  /\ memory' = [memory EXCEPT ![a] = bigint_impl(memory[a], memory[b])[1]]
  /\ timestamps' = [timestamps EXCEPT ![a] = hart.timestamp + 3, ![b] = hart.timestamp + 3]

\* What follows from the turn of an instruction.
LEMMA Executed ==
  ASSUME Typed, Recorded, phase = "run",
         NEW log \in Logs, Begins(trace, log),
         Turn(program, log, hart, Len(trace), hart', Len(log)),
         Settled(hart'), hart.timestamp < hart'.timestamp,
         \/ log = trace /\ UNCHANGED <<trace, runnerVars>>
         \/ \E h : Rounded(h) = hart' /\ check_to_save_trace(h, log),
         memory' \in [Words -> Values], timestamps' \in [Words -> Nat],
         \A w \in Words : timestamps'[w] < hart'.timestamp,
         UNCHANGED <<inputVars, compiled, labels, abort>>,
         phase' = "quit" \/ (phase' = "run" /\ (BranchesMove => hart'.pc # hart.pc))
  PROVE  Typed' /\ Recorded' /\ Turned(log)
<1>1. PICK m : m = hart'
  OBVIOUS
<1>2. Len(trace) \in Nat /\ Len(log) \in Nat
  BY DEF Typed, Logs
<1>3. hart.timestamp \in Nat /\ m.timestamp \in Nat
  BY <1>1, SettledFields DEF Typed
<1>4. ~is_aborted => Runs(program, state, hart, trace)
  BY DEF Recorded
<1>5. ~is_aborted => /\ Reaches(program, state, m, log)
                     /\ (BranchesMove => m.pc # hart.pc) => Runs(program, state, m, log)
  BY <1>1, <1>2, <1>3, <1>4, RunsOn
<1>6. /\ phase' \in {"compile", "run", "quit", "done", "cached"}
      /\ program' \in Programs /\ binary_image' \in Values
      /\ compiled' \in 0..Len(program')
      /\ phase' # "compile" => compiled' = Len(program')
      /\ (\A l \in labels : /\ l \in 0..(Len(program) - 1) /\ l <= compiled
                            /\ l < compiled => ~ (Pure(Instruction(l)) /\ Instruction(l).rd = 0))'
  BY DEF Typed, Instruction, inputVars
<1>7. abort' \in BOOLEAN /\ program' = program
  BY DEF Typed, inputVars
<1>8. Turned(log)
  BY DEF Turned, inputVars
<1>9. CASE log = trace /\ UNCHANGED <<trace, runnerVars>>
  <2>1. trace' = trace /\ state' = state /\ is_aborted' = is_aborted /\ snapshots' = snapshots
    BY <1>9 DEF runnerVars
  <2>2. Typed'
    BY <1>6, <1>7, <2>1 DEF Typed
  <2>3. Recorded'
    BY <1>1, <1>5, <1>7, <1>9, <2>1 DEF Recorded
  <2> QED BY <1>8, <2>2, <2>3
<1>10. ASSUME NEW h, Rounded(h) = m, check_to_save_trace(h, log)
      PROVE  Typed' /\ Recorded'
  <2>1. CASE Len(log) >= TRACE_CHUNK_LEN
    <3>1. process_trace(h, log) /\ trace' = <<>>
      BY <1>10, <2>1 DEF check_to_save_trace
    <3>2. /\ Settled(state') /\ is_aborted' \in BOOLEAN
          /\ ~is_aborted' => state' = m
          /\ \A s \in snapshots' :
               s.trace \in Logs /\ Reaches(program', s.initial_state, s.final_state, s.trace)
      BY <1>1, <1>5, <1>7, <1>10, <3>1, Saved
    <3>3. Typed'
      BY <1>6, <1>7, <3>1, <3>2, EmptyLogTyped DEF Typed
    <3>4. Runs(program', m, m, <<>>)
      BY <1>1, RunsNowhere
    <3>5. Reaches(program', m, m, <<>>)
      BY <3>4, RunsReaches
    <3>6. Recorded'
      BY <1>1, <3>1, <3>2, <3>4, <3>5 DEF Recorded
    <3> QED BY <3>3, <3>6
  <2>2. CASE ~ (Len(log) >= TRACE_CHUNK_LEN)
    <3>1. trace' = log /\ state' = state /\ is_aborted' = is_aborted /\ snapshots' = snapshots
      BY <1>10, <2>2 DEF check_to_save_trace, runnerVars
    <3>2. Typed'
      BY <1>6, <1>7, <3>1 DEF Typed
    <3>3. Recorded'
      BY <1>1, <1>5, <1>7, <3>1 DEF Recorded
    <3> QED BY <3>2, <3>3
  <2> QED BY <2>1, <2>2
<1> QED BY <1>1, <1>9, <1>10, <1>8

-----------------------------------------------------------------------------
(* The steps that execute nothing.                                         *)

LEMMA IdleKeeps ==
  ASSUME Typed, Recorded, UNCHANGED <<inputVars, compiled, labels, hart, trace, state, is_aborted>>,
         snapshots' \subseteq snapshots, abort' \in BOOLEAN,
         memory' \in [Words -> Values], timestamps' \in [Words -> Nat],
         \A w \in Words : timestamps'[w] < hart.timestamp,
         phase' \in {"compile", "run", "quit", "done", "cached"},
         phase' \in {"compile", "run"} => phase \in {"compile", "run"},
         phase' # "compile" => compiled = Len(program)
  PROVE  Typed' /\ Recorded'
<1>1. /\ program' = program /\ binary_image' = binary_image /\ compiled' = compiled
      /\ labels' = labels /\ hart' = hart /\ trace' = trace /\ state' = state
      /\ is_aborted' = is_aborted
  BY DEF inputVars
<1>2. (\A l \in labels : /\ l \in 0..(Len(program) - 1) /\ l <= compiled
                         /\ l < compiled => ~ (Pure(Instruction(l)) /\ Instruction(l).rd = 0))'
  BY <1>1 DEF Typed, Instruction
<1>3. Typed'
  BY <1>1, <1>2 DEF Typed
<1>4. Recorded'
  BY <1>1 DEF Recorded
<1> QED BY <1>3, <1>4

LEMMA IdleStepsKeep ==
  ASSUME Typed, Recorded,
         \/ Load \/ EarlyExit \/ CollectInitsAndTeardowns \/ Reset \/ Abort \/ Replayer
         \/ UNCHANGED vars
  PROVE  Typed' /\ Recorded'
<1>1. /\ memory \in [Words -> Values] /\ timestamps \in [Words -> Nat] /\ abort \in BOOLEAN
      /\ \A w \in Words : timestamps[w] < hart.timestamp
      /\ phase \in {"compile", "run", "quit", "done", "cached"}
      /\ phase # "compile" => compiled = Len(program)
      /\ binary_image \in Values
  BY DEF Typed
<1>2. hart.timestamp \in Nat \ {0} /\ 0 \in Values
  BY SettledFields, ReplayAssumption DEF Typed, Values
<1>3. CASE Load
  <2>1. /\ memory' = [w \in Words |-> IF w \in Rom THEN binary_image ELSE memory[w]]
        /\ timestamps' = timestamps /\ abort' = abort /\ phase' = "run" /\ phase = "compile"
        /\ compiled = Len(program) /\ snapshots' = snapshots
        /\ UNCHANGED <<inputVars, compiled, labels, hart, trace, state, is_aborted>>
    BY <1>3 DEF Load, runnerVars
  <2>2. memory' \in [Words -> Values]
    BY <1>1, <2>1
  <2> QED BY <1>1, <2>1, <2>2, IdleKeeps
<1>4. CASE EarlyExit
  <2>1. /\ memory' = memory
        /\ timestamps' = timestamps /\ abort' = abort /\ phase' = "quit" /\ phase = "run"
        /\ snapshots' = snapshots
        /\ UNCHANGED <<inputVars, compiled, labels, hart, trace, state, is_aborted>>
    BY <1>4 DEF EarlyExit, runnerVars, holderVars
  <2> QED BY <1>1, <2>1, IdleKeeps
<1>5. CASE CollectInitsAndTeardowns
  <2>1. /\ memory' = [w \in Words |-> IF w \in Touched THEN 0 ELSE memory[w]]
        /\ timestamps' = [w \in Words |-> IF w \in Touched THEN 0 ELSE timestamps[w]]
        /\ abort' = abort /\ phase' = "cached" /\ phase = "done" /\ snapshots' = snapshots
        /\ UNCHANGED <<inputVars, compiled, labels, hart, trace, state, is_aborted>>
    BY <1>5 DEF CollectInitsAndTeardowns, runnerVars
  <2>2. memory' \in [Words -> Values] /\ timestamps' \in [Words -> Nat]
    BY <1>1, <1>2, <2>1
  <2>3. \A w \in Words : timestamps'[w] < hart.timestamp
    BY <1>1, <1>2, <2>1
  <2> QED BY <1>1, <2>1, <2>2, <2>3, IdleKeeps
<1>6. CASE Reset
  <2>1. /\ memory' = [w \in Words |-> 0] /\ timestamps' = [w \in Words |-> 0]
        /\ abort' = abort /\ phase' = "cached" /\ phase = "done" /\ snapshots' = snapshots
        /\ UNCHANGED <<inputVars, compiled, labels, hart, trace, state, is_aborted>>
    BY <1>6 DEF Reset, runnerVars
  <2>2. memory' \in [Words -> Values] /\ timestamps' \in [Words -> Nat]
    BY <1>2, <2>1
  <2>3. \A w \in Words : timestamps'[w] < hart.timestamp
    BY <1>2, <2>1
  <2> QED BY <1>1, <2>1, <2>2, <2>3, IdleKeeps
<1>7. CASE Abort
  <2>1. /\ memory' = memory /\ timestamps' = timestamps /\ abort' = TRUE /\ phase' = phase
        /\ snapshots' = snapshots
        /\ UNCHANGED <<inputVars, compiled, labels, hart, trace, state, is_aborted>>
    BY <1>7 DEF Abort, simVars, holderVars
  <2> QED BY <1>1, <2>1, IdleKeeps
<1>8. CASE UNCHANGED vars
  <2>1. /\ memory' = memory /\ timestamps' = timestamps /\ abort' = abort /\ phase' = phase
        /\ snapshots' = snapshots
        /\ UNCHANGED <<inputVars, compiled, labels, hart, trace, state, is_aborted>>
    BY <1>8 DEF vars, simVars, holderVars
  <2> QED BY <1>1, <2>1, IdleKeeps
<1>9. CASE Replayer
  <2>1. UNCHANGED <<inputVars, simVars, abort>> /\ snapshots' \subseteq snapshots
    <3>1. CASE BeginReplay \/ EndReplay
      BY <3>1 DEF BeginReplay, EndReplay
    <3>2. ASSUME NEW vm, NEW pc, NEW type, Advance(vm, pc, type)
          PROVE  UNCHANGED <<inputVars, simVars, abort>> /\ snapshots' \subseteq snapshots
      BY <3>2 DEF Advance
    <3>3. CASE ReplayAdd \/ ReplayLui \/ ReplayJal \/ ReplayBeq \/ ReplayLw
      BY <3>2, <3>3 DEF ReplayAdd, ReplayLui, ReplayJal, ReplayBeq, ReplayLw
    <3>4. CASE ReplayStore
      BY <3>2, <3>4 DEF ReplayStore
    <3>5. CASE ReplayReadNonDeterminism \/ ReplayWriteNonDeterminism
      BY <3>2, <3>5 DEF ReplayReadNonDeterminism, ReplayWriteNonDeterminism
    <3>6. CASE ReplayBigint
      BY <3>2, <3>6 DEF ReplayBigint
    <3>7. CASE ReplayBlake
      BY <3>2, <3>7 DEF ReplayBlake
    <3> QED BY <1>9, <3>1, <3>3, <3>4, <3>5, <3>6, <3>7 DEF Replayer
  <2>2. /\ memory' = memory /\ timestamps' = timestamps /\ abort' = abort /\ phase' = phase
        /\ UNCHANGED <<inputVars, compiled, labels, hart, trace, state, is_aborted>>
    BY <2>1 DEF simVars, holderVars
  <2> QED BY <1>1, <2>1, <2>2, IdleKeeps
<1> QED BY <1>3, <1>4, <1>5, <1>6, <1>7, <1>8, <1>9

\* Between two instructions the timestamp is a multiple of the step.
LEMMA RoundedIsItself ==
  ASSUME NEW m, Settled(m)
  PROVE  Rounded(m) = m
<1>1. PICK t \in Nat : t = m.timestamp /\ t % 4 = 0
  BY SettledFields
<1>2. ((t + 4 - 1) \div 4) * 4 = t
  BY <1>1
<1>3. next_multiple_of_step(m.timestamp) = m.timestamp
  BY <1>1, <1>2 DEF next_multiple_of_step, TIMESTAMP_STEP
<1>4. m = [x \in MachineFields |-> m[x]]
  BY DEF Settled
<1> QED BY <1>3, <1>4 DEF Rounded, MachineFields

LEMMA QuitKeeps ==
  ASSUME Typed, Recorded, Quit
  PROVE  Typed' /\ Recorded'
<1>1. /\ process_trace(hart, trace) /\ trace' = <<>> /\ phase' = "done" /\ phase = "quit"
      /\ UNCHANGED <<program, binary_image, compiled, labels, hart, memory, timestamps, abort>>
  BY DEF Quit, inputVars, holderVars
<1>2. Settled(hart) /\ trace \in Logs
  BY DEF Typed
<1>3. Rounded(hart) = hart
  BY <1>2, RoundedIsItself
<1>4. ~is_aborted => Reaches(program, state, hart, trace)
  BY DEF Recorded
<1>5. /\ Settled(state') /\ is_aborted' \in BOOLEAN
      /\ ~is_aborted' => state' = hart
      /\ \A s \in snapshots' :
           s.trace \in Logs /\ Reaches(program', s.initial_state, s.final_state, s.trace)
  BY <1>1, <1>2, <1>3, <1>4, Saved
<1>6. (\A l \in labels : /\ l \in 0..(Len(program) - 1) /\ l <= compiled
                         /\ l < compiled => ~ (Pure(Instruction(l)) /\ Instruction(l).rd = 0))'
  BY <1>1 DEF Typed, Instruction
<1>7. Typed'
  BY <1>1, <1>5, <1>6, EmptyLogTyped DEF Typed
<1>8. Runs(program, hart, hart, <<>>)
  BY <1>2, RunsNowhere
<1>9. Reaches(program, hart, hart, <<>>)
  BY <1>8, RunsReaches
<1> QED BY <1>1, <1>5, <1>7, <1>8, <1>9 DEF Recorded

LEMMA NothingCounted == CountedCycles([c \in CounterType |-> 0]) = 0
<1>1. PICK f : f = [c \in Families |-> 0]
  OBVIOUS
<1>2. f \in [Families -> Int]
  BY <1>1
<1>3. PICK s \in Int : s = SumFunction(f)
  BY <1>2, FamiliesAreFinite, SumInt
<1>4. PICK g : g = [c \in Families |-> f[c] + f[c]]
  OBVIOUS
<1>5. SumFunction(g) = s + s
  BY <1>2, <1>3, <1>4, FamiliesAreFinite, SumPlus
<1>6. SumFunction(f) = 0
  <2>1. g = f
    <3>1. \A c \in Families : f[c] = 0
      BY ONLY <1>1
    <3>2. \A c \in Families : g[c] = 0
      BY ONLY <1>4, <3>1
    <3>3. g = [c \in Families |-> g[c]]
      BY ONLY <1>4
    <3>4. g = [c \in Families |-> 0]
      BY ONLY <3>2, <3>3
    <3> QED BY ONLY <1>1, <3>4
  <2>2. PICK t : t = SumFunction(g)
    OBVIOUS
  <2>3. t = s /\ t - s = s
    BY ONLY <1>3, <1>5, <2>1, <2>2
  <2>4. s = 0
    BY ONLY <1>3, <2>3
  <2> QED BY ONLY <1>3, <2>4
<1>7. \A c \in Families : [d \in CounterType |-> 0][c] = 0
  BY DEF CounterType
<1>8. [c \in Families |-> [d \in CounterType |-> 0][c]] = f
  BY <1>1, <1>7
<1> QED BY <1>6, <1>8 DEF CountedCycles

LEMMA InitialSettled == Settled(InitialMachine)
<1>1. Is(InitialMachine, 0, 4, [r \in Registers |-> 0], [r \in Registers |-> 0],
         [c \in CounterType |-> 0])
  BY DEF Is, MachineFields, InitialMachine, INITIAL_TIMESTAMP
<1>2. 0 \in Values /\ 0 \in Registers
  BY ReplayAssumption DEF Values, Registers
<1>3. PICK registers : registers = [r \in Registers |-> 0]
  OBVIOUS
<1>4. /\ registers \in [Registers -> Values] /\ registers \in [Registers -> Nat]
      /\ registers[0] = 0 /\ \A r \in Registers : registers[r] < 4
  BY <1>2, <1>3
<1>5. PICK counters : counters = [c \in CounterType |-> 0]
  OBVIOUS
<1>6. counters \in [CounterType -> Nat] /\ CountedCycles(counters) = 0
  BY <1>5, NothingCounted
<1> QED BY <1>1, <1>3, <1>4, <1>5, <1>6 DEF Settled, Is

LEMMA InitTyped == Init => Typed /\ Recorded
<1> SUFFICES ASSUME Init PROVE Typed /\ Recorded
  OBVIOUS
<1>1. 0 \in Values /\ Images \subseteq Values
  BY ReplayAssumption, ProgramsAssumption DEF Values
<1>2. program \in Programs /\ binary_image \in Values
  BY <1>1 DEF Init
<1>3. Len(program) \in Nat
  BY <1>2, ProgramsAssumption
<1>4. PICK stale \in Values : memory = [w \in Words |-> IF w \in Rom THEN stale ELSE 0]
  BY <1>1 DEF Init
<1>5. memory \in [Words -> Values]
  BY <1>1, <1>4
<1>6. timestamps = [w \in Words |-> 0] /\ hart = InitialMachine /\ state = InitialMachine
  BY DEF Init
<1>7. Settled(hart) /\ Settled(state) /\ hart.timestamp \in Nat \ {0}
  BY <1>6, InitialSettled, SettledFields
<1>8. timestamps \in [Words -> Nat] /\ \A w \in Words : timestamps[w] < hart.timestamp
  BY <1>6, <1>7
<1>12. /\ phase = "compile" /\ compiled = 0 /\ labels = {} /\ trace = <<>>
       /\ is_aborted = FALSE /\ abort = FALSE
  BY DEF Init
<1>9. Typed
  <2>1. compiled \in 0..Len(program)
    BY <1>3, <1>12
  <2> QED BY <1>2, <1>5, <1>7, <1>8, <1>12, <2>1, EmptyLogTyped DEF Typed
<1>10. Runs(program, state, hart, trace)
  BY <1>6, <1>7, RunsNowhere DEF Init
<1>11. Reaches(program, state, hart, trace)
  BY <1>10, RunsReaches
<1> QED BY <1>9, <1>10, <1>11 DEF Init, Recorded

LEMMA ProgramTyped ==
  ASSUME Typed
  PROVE  /\ program \in Seq(InstructionType) /\ Len(program) \in Nat
         /\ \A l \in 0..(Len(program) - 1) :
              /\ Instruction(l) \in InstructionType
              /\ Instruction(l).op = "nd_read" => Instruction(l).rd # 0
              /\ Instruction(l).op = "lui" => Instruction(l).imm \in Values
              /\ BranchesMove /\ Instruction(l).op = "beq" => Instruction(l).imm # l
<1>1. program \in Programs
  BY DEF Typed
<1>2. /\ program \in Seq(InstructionType)
      /\ \A n \in DOMAIN program : /\ program[n].op = "nd_read" => program[n].rd # 0
                                   /\ program[n].op = "lui" => program[n].imm \in Values
  BY <1>1, ProgramsAssumption
<1>3. BranchesMove => \A n \in DOMAIN program : program[n].op = "beq" => program[n].imm # n - 1
  BY <1>1 DEF BranchesMove
<1>4. Len(program) \in Nat /\ DOMAIN program = 1..Len(program)
  BY <1>2
<1>5. ASSUME NEW l \in 0..(Len(program) - 1)
      PROVE  /\ Instruction(l) \in InstructionType
             /\ Instruction(l).op = "nd_read" => Instruction(l).rd # 0
             /\ Instruction(l).op = "lui" => Instruction(l).imm \in Values
             /\ BranchesMove /\ Instruction(l).op = "beq" => Instruction(l).imm # l
  <2>1. l + 1 \in DOMAIN program /\ (l + 1) - 1 = l
    BY <1>4
  <2>2. program[l + 1] \in InstructionType
    BY <1>2, <2>1
  <2> QED BY <1>2, <1>3, <2>1, <2>2 DEF Instruction
<1> QED BY <1>2, <1>4, <1>5

\* The calls that follow each other are passed together.
LEMMA CallsPassed ==
  ASSUME NEW pc \in Nat, CallCounts(pc) # {}
  PROVE  num_calls(pc) \in Nat \ {0} /\ pc + num_calls(pc) < Len(program)
<1>1. num_calls(pc) \in CallCounts(pc)
  BY DEF num_calls
<1>2. num_calls(pc) \in {ReducedRounds, Rounds} /\ CallsFollow(pc, num_calls(pc))
  BY <1>1 DEF CallCounts
<1> QED BY <1>2, ReplayAssumption DEF CallsFollow

LEMMA CompileKeeps ==
  ASSUME Typed, Recorded, Compile
  PROVE  Typed' /\ Recorded'
<1>1. /\ phase = "compile" /\ compiled < Len(program) /\ labels' = labels \cup {compiled}
      /\ Instruction(compiled).op = "blake" => CallCounts(compiled) # {}
      /\ compiled' = IF Pure(Instruction(compiled)) /\ Instruction(compiled).rd = 0
                     THEN compiled ELSE compiled + Length(compiled)
      /\ UNCHANGED <<program, binary_image, phase, hart, memory, timestamps, trace, state,
                     is_aborted, snapshots, abort>>
  BY DEF Compile, inputVars, holderVars, runnerVars
<1>2. Len(program) \in Nat /\ compiled \in 0..(Len(program) - 1) /\ Rounds \in Nat \ {0}
  BY <1>1, ProgramTyped, ReplayAssumption DEF Typed
<1>3. compiled' \in 0..Len(program) /\ compiled' >= compiled
      /\ (compiled < compiled' => ~ (Pure(Instruction(compiled)) /\ Instruction(compiled).rd = 0))
  <2>1. CASE Pure(Instruction(compiled)) /\ Instruction(compiled).rd = 0
    BY <1>1, <1>2, <2>1
  <2>2. CASE ~ (Pure(Instruction(compiled)) /\ Instruction(compiled).rd = 0)
    <3>1. compiled' = compiled + Length(compiled)
      BY <1>1, <2>2
    <3>2. CASE Instruction(compiled).op = "blake"
      <4>1. compiled' = compiled + num_calls(compiled)
        BY <3>1, <3>2 DEF Length
      <4>2. PICK calls \in Nat \ {0} : calls = num_calls(compiled) /\ compiled + calls < Len(program)
        BY <1>1, <1>2, <3>2, CallsPassed
      <4> QED BY <1>2, <2>2, <4>1, <4>2
    <3>3. CASE Instruction(compiled).op # "blake"
      BY <1>1, <1>2, <2>2, <3>1, <3>3 DEF Length
    <3> QED BY <3>2, <3>3
  <2> QED BY <2>1, <2>2
<1>4. ASSUME NEW l \in labels'
      PROVE  /\ l \in 0..(Len(program) - 1) /\ l <= compiled'
             /\ l < compiled' => ~ (Pure(Instruction(l)) /\ Instruction(l).rd = 0)
  <2>1. CASE l = compiled
    BY <1>2, <1>3, <2>1
  <2>2. CASE l # compiled
    <3>1. l \in labels /\ l \in 0..(Len(program) - 1)
      BY <1>1, <2>2 DEF Typed
    <3>2. l < compiled => ~ (Pure(Instruction(l)) /\ Instruction(l).rd = 0)
      BY <3>1 DEF Typed
    <3>3. l <= compiled
      BY <3>1 DEF Typed
    <3>4. l < compiled
      BY <1>2, <2>2, <3>1, <3>3
    <3>5. l <= compiled'
      BY <1>2, <1>3, <3>1, <3>4
    <3> QED BY <3>1, <3>2, <3>4, <3>5
  <2> QED BY <2>1, <2>2
<1>5. Typed'
  BY <1>1, <1>2, <1>3, <1>4 DEF Typed, Instruction
<1>6. Recorded'
  BY <1>1 DEF Recorded
<1> QED BY <1>5, <1>6

-----------------------------------------------------------------------------
(* Instructions that log nothing.                                          *)

LEMMA Current ==
  ASSUME Typed, NEW op, Executes(op)
  PROVE  /\ phase = "run" /\ hart.pc \in Nat
         /\ Instruction(hart.pc) \in InstructionType /\ Instruction(hart.pc).op = op
         /\ op \in {"add", "lui", "lw", "nd_read"} => Instruction(hart.pc).rd # 0
         /\ op = "lui" => Instruction(hart.pc).imm \in Values
         /\ BranchesMove /\ op = "beq" => Instruction(hart.pc).imm # hart.pc
<1>1. phase = "run" /\ hart.pc \in labels /\ Instruction(hart.pc).op = op /\ compiled = Len(program)
  BY DEF Executes, Typed
<1>2. /\ hart.pc \in 0..(Len(program) - 1)
      /\ hart.pc < compiled => ~ (Pure(Instruction(hart.pc)) /\ Instruction(hart.pc).rd = 0)
  BY <1>1 DEF Typed
<1>3. Len(program) \in Nat
  BY ProgramTyped
<1>4. /\ Instruction(hart.pc) \in InstructionType
      /\ Instruction(hart.pc).op = "nd_read" => Instruction(hart.pc).rd # 0
      /\ Instruction(hart.pc).op = "lui" => Instruction(hart.pc).imm \in Values
      /\ BranchesMove /\ Instruction(hart.pc).op = "beq" => Instruction(hart.pc).imm # hart.pc
  BY <1>2, ProgramTyped
<1>5. hart.pc < compiled /\ hart.pc \in Nat
  BY <1>1, <1>2, <1>3
<1> QED BY <1>1, <1>2, <1>4, <1>5 DEF Pure

LEMMA InstructionFields ==
  ASSUME NEW i \in InstructionType
  PROVE  i.rd \in Registers /\ i.rs1 \in Registers /\ i.rs2 \in Registers /\ i.imm \in Nat
BY DEF InstructionType

LEMMA NoEntries ==
  ASSUME Typed
  PROVE  /\ Consumes(trace, Len(trace), Len(trace), hart.timestamp) /\ Begins(trace, trace)
         /\ Len(trace) \in Nat
<1>1. Len(trace) \in Nat
  BY DEF Typed, Logs
<1> QED BY <1>1 DEF Consumes, Begins

\* An instruction of one cycle that leaves the memory and the log alone.
LEMMA RetireKeeps ==
  ASSUME Typed, Recorded, phase = "run", NEW i \in InstructionType, i = Instruction(hart.pc),
         LET u == Len(trace)
         IN \/ AddTurn(i, hart, u, hart', u) \/ LuiTurn(i, hart, u, hart', u)
            \/ JalTurn(i, hart, u, hart', u) \/ BeqTurn(i, hart, u, hart', u)
            \/ WriteTurn(i, hart, u, hart', u),
         Settled(hart'), hart'.timestamp = hart.timestamp + 4,
         UNCHANGED <<inputVars, compiled, labels, holderVars, trace, runnerVars, abort>>,
         phase' = "quit" \/ (phase' = "run" /\ (BranchesMove => hart'.pc # hart.pc))
  PROVE  Typed' /\ Recorded' /\ Turned(trace)
<1>1. Turn(program, trace, hart, Len(trace), hart', Len(trace))
  BY NoEntries DEF Turn, Instruction
<1>2. PICK t \in Nat : t = hart.timestamp
  BY SettledFields DEF Typed
<1>3. hart'.timestamp = t + 4
  BY <1>2
<1>4. /\ memory' \in [Words -> Values] /\ timestamps' \in [Words -> Nat]
      /\ \A w \in Words : timestamps'[w] < hart'.timestamp
  <2>1. memory' = memory /\ timestamps' = timestamps
    BY DEF holderVars
  <2>2. timestamps \in [Words -> Nat] /\ \A w \in Words : timestamps[w] < t
    BY <1>2 DEF Typed
  <2>3. \A w \in Words : timestamps[w] < t + 4
    BY <2>2
  <2> QED BY <1>3, <2>1, <2>2, <2>3 DEF Typed
<1>5. hart.timestamp < hart'.timestamp
  BY <1>2, <1>3
<1>6. trace \in Logs /\ Begins(trace, trace)
  BY NoEntries DEF Typed
<1> QED BY <1>1, <1>4, <1>5, <1>6, Executed

LEMMA AddKeepsRecord ==
  ASSUME Typed, Recorded, Add
  PROVE  Typed' /\ Recorded' /\ Turned(trace)
<1> DEFINE i == Instruction(hart.pc)
           t == hart.timestamp
           s == hart.register_timestamps
           r == hart.registers
           c == hart.counters
           s1 == Stamp(s, i.rs1, t)
           s2 == Stamp(s1, i.rs2, t + 1)
           s3 == Stamp(s2, i.rd, t + 2)
           sum == Wrap(r[i.rs1] + r[i.rs2])
           h1 == touch_register_and_bump_timestamp(hart, i.rs1, 1)
           h2 == touch_register_and_bump_timestamp(h1, i.rs2, 1)
           hr == record_circuit_type(h2, "AddSubLui", 1)
           h3 == touch_register_and_bump_timestamp(hr, i.rd, 2)
           hs == store_result(h3, i.rd, sum)
<1>1. Retire(hs, hart.pc + 1) /\ Executes("add")
  BY DEF Add
<1>2. phase = "run" /\ hart.pc \in Nat /\ i \in InstructionType /\ i.op = "add" /\ i.rd # 0
  BY <1>1, Current
<1>3. /\ Settled(hart) /\ t \in Nat /\ r \in [Registers -> Values]
      /\ Is(hart, hart.pc, t, r, s, c)
  BY SettledFields DEF Typed
<1>4. sum \in Values
  <2>1. r[i.rs1] \in Values /\ r[i.rs2] \in Values
    BY <1>2, <1>3, InstructionFields
  <2>2. r[i.rs1] + r[i.rs2] \in Int
    BY <2>1, ReplayAssumption DEF Values
  <2> QED BY <2>2, WrapIsValue
<1> HIDE DEF i, t, s, r, c, sum
<1>5. Is(h1, hart.pc, t + 1, r, s1, c)
  BY <1>3, TouchBumpM
<1> HIDE DEF h1, s1
<1>6. Is(h2, hart.pc, (t + 1) + 1, r, s2, c)
  BY <1>5, TouchBumpM
<1> HIDE DEF h2, s2
<1>7. (t + 1) + 1 = t + 2 /\ (t + 2) + 2 = t + 4
  BY <1>3
<1>8. Is(hr, hart.pc, t + 2, r, s2, Plus(c, "AddSubLui", 1))
  BY <1>6, <1>7, CountM
<1> HIDE DEF hr
<1>9. Is(h3, hart.pc, t + 4, r, s3, Plus(c, "AddSubLui", 1))
  BY <1>7, <1>8, TouchBumpM
<1> HIDE DEF h3, s3
<1>10. Is(hs, hart.pc, t + 4, Put(r, i.rd, sum), s3, Plus(c, "AddSubLui", 1))
  BY <1>9, StoreM
<1> HIDE DEF hs
<1>11. Is(hart', hart.pc + 1, t + 4, Written(r, i.rd, sum), s3, Plus(c, "AddSubLui", 1))
  BY <1>1, <1>2, <1>10, AtM DEF Retire, Written
<1>12. s3 = Three(s, i.rs1, i.rs2, i.rd, t)
  BY DEF s3, s2, s1, Three
<1>13. Plain(hart, hart', i.rs1, i.rs2, i.rd, sum, "AddSubLui", hart.pc + 1)
  BY <1>11, <1>12 DEF Plain, t, r, s, c
<1>14. hart.pc + 1 \in Nat /\ hart'.pc = hart.pc + 1 /\ hart.pc + 1 # hart.pc /\ "AddSubLui" \in Families
  BY <1>2, <1>11 DEF Is, Families
<1>15. Settled(hart') /\ hart'.timestamp = hart.timestamp + 4
  BY <1>3, <1>4, <1>13, <1>14, PlainSettles
<1>16. AddTurn(i, hart, Len(trace), hart', Len(trace))
  BY <1>2, <1>13 DEF AddTurn, sum, r
<1> QED BY <1>1, <1>2, <1>14, <1>15, <1>16, RetireKeeps DEF Retire, i

LEMMA LuiKeepsRecord ==
  ASSUME Typed, Recorded, Lui
  PROVE  Typed' /\ Recorded' /\ Turned(trace)
<1> DEFINE i == Instruction(hart.pc)
           t == hart.timestamp
           s == hart.register_timestamps
           r == hart.registers
           c == hart.counters
           s1 == Stamp(s, 0, t + 1)
           s3 == Stamp(s1, i.rd, t + 2)
           h0 == pre_bump_timestamp_and_touch(hart, 1, 0)
           h1 == bump_timestamp(h0, 1)
           hr == record_circuit_type(h1, "AddSubLui", 1)
           h2 == touch_register_and_bump_timestamp(hr, i.rd, 2)
           hs == store_result(h2, i.rd, i.imm)
<1>1. Retire(hs, hart.pc + 1) /\ Executes("lui")
  BY DEF Lui
<1>2. /\ phase = "run" /\ hart.pc \in Nat /\ i \in InstructionType /\ i.op = "lui" /\ i.rd # 0
      /\ i.imm \in Values
  BY <1>1, Current
<1>3. /\ Settled(hart) /\ t \in Nat
      /\ Is(hart, hart.pc, t, r, s, c)
  BY SettledFields DEF Typed
<1> HIDE DEF i, t, s, r, c
<1>5. Is(h0, hart.pc, t + 1, r, s1, c)
  BY <1>3, BumpTouchM
<1> HIDE DEF h0
<1>6. Is(h1, hart.pc, (t + 1) + 1, r, s1, c)
  BY <1>5, BumpM
<1> HIDE DEF h1
<1>7. (t + 1) + 1 = t + 2 /\ (t + 2) + 2 = t + 4
  BY <1>3
<1>8. Is(hr, hart.pc, t + 2, r, s1, Plus(c, "AddSubLui", 1))
  BY <1>6, <1>7, CountM
<1> HIDE DEF hr
<1>9. Is(h2, hart.pc, t + 4, r, s3, Plus(c, "AddSubLui", 1))
  BY <1>7, <1>8, TouchBumpM
<1> HIDE DEF h2
<1>10. Is(hs, hart.pc, t + 4, Put(r, i.rd, i.imm), s3, Plus(c, "AddSubLui", 1))
  BY <1>9, StoreM
<1> HIDE DEF hs
<1>11. Is(hart', hart.pc + 1, t + 4, Written(r, i.rd, i.imm), s3, Plus(c, "AddSubLui", 1))
  BY <1>1, <1>2, <1>10, AtM DEF Retire, Written
<1>12. s3 = Three(s, 0, 0, i.rd, t)
  <2>1. Stamp(Stamp(s, 0, t), 0, t + 1) = s1
    BY DEF Stamp, s1
  <2> QED BY <2>1 DEF s3, Three
<1>13. Plain(hart, hart', 0, 0, i.rd, i.imm, "AddSubLui", hart.pc + 1)
  BY <1>11, <1>12 DEF Plain, t, r, s, c
<1>14. hart.pc + 1 \in Nat /\ hart'.pc = hart.pc + 1 /\ hart.pc + 1 # hart.pc /\ "AddSubLui" \in Families
  BY <1>2, <1>11 DEF Is, Families
<1>15. Settled(hart') /\ hart'.timestamp = hart.timestamp + 4
  BY <1>2, <1>3, <1>13, <1>14, PlainSettles
<1>16. LuiTurn(i, hart, Len(trace), hart', Len(trace))
  BY <1>2, <1>13 DEF LuiTurn
<1> QED BY <1>1, <1>2, <1>14, <1>15, <1>16, RetireKeeps DEF Retire, i

LEMMA JalKeepsRecord ==
  ASSUME Typed, Recorded, Jal
  PROVE  Typed' /\ Recorded' /\ Turned(trace)
<1> DEFINE i == Instruction(hart.pc)
           t == hart.timestamp
           s == hart.register_timestamps
           r == hart.registers
           c == hart.counters
           link == Wrap(hart.pc + 1)
           s3 == Three(s, 0, 0, i.rd, t)
           h0 == pre_bump_timestamp_and_touch(hart, 1, 0)
           hs == store_result(h0, i.rd, link)
           linked == pre_bump_timestamp_and_touch(hs, 1, i.rd)
           bare == pre_bump_timestamp_and_touch(hart, 2, 0)
           touched == IF i.rd # 0 THEN linked ELSE bare
           hb == bump_timestamp(touched, 2)
           h == record_circuit_type(hb, "BranchSlt", 1)
           plus == Plus(c, "BranchSlt", 1)
<1>1. Executes("jal")
  BY DEF Jal
<1>2. phase = "run" /\ hart.pc \in Nat /\ i \in InstructionType /\ i.op = "jal" /\ i.imm \in Nat
  BY <1>1, Current, InstructionFields
<1>3. /\ Settled(hart) /\ t \in Nat /\ r \in [Registers -> Values] /\ r[0] = 0
      /\ Is(hart, hart.pc, t, r, s, c)
  BY SettledFields DEF Typed
<1>4. link \in Values
  BY <1>2, WrapIsValue
<1>5. /\ hart' = IF i.imm = hart.pc THEN h ELSE At(h, i.imm)
      /\ i.imm = hart.pc => phase' = "quit"
      /\ i.imm # hart.pc => phase' = phase
      /\ UNCHANGED <<inputVars, compiled, labels, holderVars, trace, runnerVars, abort>>
  BY DEF Jal, Retire
<1> HIDE DEF i, t, s, r, c, link, plus
<1>6. Is(h0, hart.pc, t + 1, r, Stamp(s, 0, t + 1), c)
  BY <1>3, BumpTouchM
<1> HIDE DEF h0
<1>7. Is(hs, hart.pc, t + 1, Put(r, i.rd, link), Stamp(s, 0, t + 1), c)
  BY <1>6, StoreM
<1> HIDE DEF hs
<1>8. Is(linked, hart.pc, (t + 1) + 1, Put(r, i.rd, link), Stamp(Stamp(s, 0, t + 1), i.rd, (t + 1) + 1), c)
  BY <1>7, BumpTouchM
<1>9. Is(bare, hart.pc, t + 2, r, Stamp(s, 0, t + 2), c)
  BY <1>3, BumpTouchM
<1> HIDE DEF linked, bare
<1>10. (t + 1) + 1 = t + 2 /\ (t + 2) + 2 = t + 4
  BY <1>3
<1>11. Is(touched, hart.pc, t + 2, Written(r, i.rd, link), s3, c)
  <2>1. CASE i.rd # 0
    <3>1. Stamp(Stamp(s, 0, t), 0, t + 1) = Stamp(s, 0, t + 1)
      BY DEF Stamp
    <3>2. s3 = Stamp(Stamp(s, 0, t + 1), i.rd, t + 2)
      BY <3>1 DEF s3, Three
    <3> QED BY <1>8, <1>10, <2>1, <3>2 DEF touched, Written
  <2>2. CASE i.rd = 0
    <3>1. Stamp(Stamp(Stamp(s, 0, t), 0, t + 1), 0, t + 2) = Stamp(s, 0, t + 2)
      BY DEF Stamp
    <3>2. s3 = Stamp(s, 0, t + 2)
      BY <2>2, <3>1 DEF s3, Three
    <3>3. Written(r, 0, link) = Put(r, 0, 0)
      BY DEF Written
    <3>4. Written(r, i.rd, link) = r
      BY <1>3, <2>2, <3>3, PutZero
    <3> QED BY <1>9, <2>2, <3>2, <3>4 DEF touched
  <2> QED BY <2>1, <2>2
<1> HIDE DEF touched, s3
<1>12. Is(hb, hart.pc, t + 4, Written(r, i.rd, link), s3, c)
  BY <1>10, <1>11, BumpM
<1> HIDE DEF hb
<1>13. Is(h, hart.pc, t + 4, Written(r, i.rd, link), s3, plus)
  BY <1>12, CountM DEF plus
<1> HIDE DEF h
<1>14. Is(hart', i.imm, t + 4, Written(r, i.rd, link), s3, plus)
  BY <1>5, <1>13, AtM
<1>15. Plain(hart, hart', 0, 0, i.rd, link, "BranchSlt", i.imm)
  BY <1>14 DEF Plain, t, r, s, c, s3, plus
<1>16. hart'.pc = i.imm /\ "BranchSlt" \in Families
  BY <1>14 DEF Is, Families
<1>17. Settled(hart') /\ hart'.timestamp = hart.timestamp + 4
  BY <1>2, <1>3, <1>4, <1>15, <1>16, PlainSettles
<1>18. JalTurn(i, hart, Len(trace), hart', Len(trace))
  BY <1>2, <1>15 DEF JalTurn, link
<1>19. phase' = "quit" \/ (phase' = "run" /\ (BranchesMove => hart'.pc # hart.pc))
  BY <1>2, <1>5, <1>16
<1> QED BY <1>2, <1>5, <1>17, <1>18, <1>19, RetireKeeps DEF i

LEMMA BeqKeepsRecord ==
  ASSUME Typed, Recorded, Beq
  PROVE  Typed' /\ Recorded' /\ Turned(trace)
<1> DEFINE i == Instruction(hart.pc)
           t == hart.timestamp
           s == hart.register_timestamps
           r == hart.registers
           c == hart.counters
           s1 == Stamp(s, i.rs1, t)
           s2 == Stamp(s1, i.rs2, t + 1)
           s3 == Stamp(s2, 0, t + 2)
           target == IF r[i.rs1] = r[i.rs2] THEN i.imm ELSE hart.pc + 1
           h1 == touch_register_and_bump_timestamp(hart, i.rs1, 1)
           h2 == touch_register_and_bump_timestamp(h1, i.rs2, 1)
           h3 == touch_register_and_bump_timestamp(h2, 0, 2)
           hr == record_circuit_type(h3, "BranchSlt", 1)
<1>1. Retire(hr, target) /\ Executes("beq")
  BY DEF Beq
<1>2. /\ phase = "run" /\ hart.pc \in Nat /\ i \in InstructionType /\ i.op = "beq" /\ i.imm \in Nat
      /\ BranchesMove => i.imm # hart.pc
  BY <1>1, Current, InstructionFields
<1>3. /\ Settled(hart) /\ t \in Nat /\ r \in [Registers -> Values] /\ r[0] = 0
      /\ Is(hart, hart.pc, t, r, s, c)
  BY SettledFields DEF Typed
<1>4. target \in Nat /\ (BranchesMove => target # hart.pc)
  BY <1>2
<1> HIDE DEF i, t, s, r, c, target
<1>5. Is(h1, hart.pc, t + 1, r, s1, c)
  BY <1>3, TouchBumpM
<1> HIDE DEF h1, s1
<1>6. Is(h2, hart.pc, (t + 1) + 1, r, s2, c)
  BY <1>5, TouchBumpM
<1> HIDE DEF h2, s2
<1>7. (t + 1) + 1 = t + 2 /\ (t + 2) + 2 = t + 4
  BY <1>3
<1>8. Is(h3, hart.pc, t + 4, r, s3, c)
  BY <1>6, <1>7, TouchBumpM
<1> HIDE DEF h3, s3
<1>9. Is(hr, hart.pc, t + 4, r, s3, Plus(c, "BranchSlt", 1))
  BY <1>8, CountM
<1> HIDE DEF hr
<1>10. Written(r, 0, 0) = r
  BY <1>3, PutZero
<1>11. Is(hart', target, t + 4, Written(r, 0, 0), s3, Plus(c, "BranchSlt", 1))
  BY <1>1, <1>9, <1>10, AtM DEF Retire
<1>12. s3 = Three(s, i.rs1, i.rs2, 0, t)
  BY DEF s3, s2, s1, Three
<1>13. Plain(hart, hart', i.rs1, i.rs2, 0, 0, "BranchSlt", target)
  BY <1>11, <1>12 DEF Plain, t, r, s, c
<1>14. hart'.pc = target /\ "BranchSlt" \in Families /\ 0 \in Values
  BY <1>11, ReplayAssumption DEF Is, Families, Values
<1>15. Settled(hart') /\ hart'.timestamp = hart.timestamp + 4
  BY <1>3, <1>4, <1>13, <1>14, PlainSettles
<1>16. BeqTurn(i, hart, Len(trace), hart', Len(trace))
  BY <1>2, <1>13 DEF BeqTurn, target, r
<1>17. phase' = "run" /\ (BranchesMove => hart'.pc # hart.pc)
  BY <1>1, <1>2, <1>4, <1>14 DEF Retire
<1> QED BY <1>1, <1>2, <1>15, <1>16, <1>17, RetireKeeps DEF Retire, i

LEMMA WriteKeepsRecord ==
  ASSUME Typed, Recorded, WriteNonDeterminism
  PROVE  Typed' /\ Recorded' /\ Turned(trace)
<1> DEFINE i == Instruction(hart.pc)
           t == hart.timestamp
           s == hart.register_timestamps
           r == hart.registers
           c == hart.counters
           s1 == Stamp(s, i.rs1, t)
           s3 == Stamp(s1, 0, (t + 1) + 1)
           h1 == touch_register_and_bump_timestamp(hart, i.rs1, 1)
           h0 == pre_bump_timestamp_and_touch(h1, 1, 0)
           h2 == bump_timestamp(h0, 2)
           hr == record_circuit_type(h2, "ShiftBinaryCsr", 1)
<1>1. Retire(hr, hart.pc + 1) /\ Executes("nd_write")
  BY DEF WriteNonDeterminism
<1>2. phase = "run" /\ hart.pc \in Nat /\ i \in InstructionType /\ i.op = "nd_write"
  BY <1>1, Current
<1>3. /\ Settled(hart) /\ t \in Nat /\ r \in [Registers -> Values] /\ r[0] = 0
      /\ Is(hart, hart.pc, t, r, s, c)
  BY SettledFields DEF Typed
<1> HIDE DEF i, t, s, r, c
<1>5. Is(h1, hart.pc, t + 1, r, s1, c)
  BY <1>3, TouchBumpM
<1> HIDE DEF h1, s1
<1>6. Is(h0, hart.pc, (t + 1) + 1, r, s3, c)
  BY <1>5, BumpTouchM
<1> HIDE DEF h0, s3
<1>7. (t + 1) + 1 = t + 2 /\ (t + 2) + 2 = t + 4
  BY <1>3
<1>8. Is(h2, hart.pc, t + 4, r, s3, c)
  BY <1>6, <1>7, BumpM
<1> HIDE DEF h2
<1>9. Is(hr, hart.pc, t + 4, r, s3, Plus(c, "ShiftBinaryCsr", 1))
  BY <1>8, CountM
<1> HIDE DEF hr
<1>10. Written(r, 0, 0) = r
  BY <1>3, PutZero
<1>11. Is(hart', hart.pc + 1, t + 4, Written(r, 0, 0), s3, Plus(c, "ShiftBinaryCsr", 1))
  BY <1>1, <1>9, <1>10, AtM DEF Retire
<1>12. s3 = Three(s, i.rs1, 0, 0, t)
  <2>1. Stamp(Stamp(s1, 0, t + 1), 0, t + 2) = Stamp(s1, 0, t + 2)
    BY DEF Stamp
  <2> QED BY <1>7, <2>1 DEF s3, s1, Three
<1>13. Plain(hart, hart', i.rs1, 0, 0, 0, "ShiftBinaryCsr", hart.pc + 1)
  BY <1>11, <1>12 DEF Plain, t, r, s, c
<1>14. /\ hart.pc + 1 \in Nat /\ hart'.pc = hart.pc + 1 /\ hart.pc + 1 # hart.pc
       /\ "ShiftBinaryCsr" \in Families /\ 0 \in Values
  BY <1>2, <1>11, ReplayAssumption DEF Is, Families, Values
<1>15. Settled(hart') /\ hart'.timestamp = hart.timestamp + 4
  BY <1>3, <1>13, <1>14, PlainSettles
<1>16. WriteTurn(i, hart, Len(trace), hart', Len(trace))
  BY <1>2, <1>13 DEF WriteTurn
<1> QED BY <1>1, <1>2, <1>14, <1>15, <1>16, RetireKeeps DEF Retire, i

-----------------------------------------------------------------------------
(* Instructions that log one entry.                                        *)

Entries == Values \X Nat

LEMMA OneEntry ==
  ASSUME NEW log \in Logs, NEW e \in Entries
  PROVE  /\ Append(log, e) \in Logs /\ log \o <<e>> = Append(log, e)
         /\ Len(log) \in Nat /\ Len(Append(log, e)) = Len(log) + 1
         /\ Begins(log, Append(log, e)) /\ Append(log, e)[Len(log) + 1] = e
<1>1. log \in Seq(Entries) /\ Len(log) \in Nat
  BY DEF Logs, Entries
<1>2. Append(log, e) \in Seq(Entries) /\ Len(Append(log, e)) = Len(log) + 1
      /\ \A j \in 1..Len(log) : Append(log, e)[j] = log[j]
      /\ Append(log, e)[Len(log) + 1] = e
  BY <1>1
<1>3. log \o <<e>> = Append(log, e)
  BY <1>1
<1> QED BY <1>1, <1>2, <1>3 DEF Logs, Entries, Begins

\* What a word holds, and when it was accessed.
LEMMA LoggedEntry ==
  ASSUME Typed, NEW address \in Values
  PROVE  /\ Logged(address) = <<<<memory[address], timestamps[address]>>>>
         /\ <<memory[address], timestamps[address]>> \in Entries
         /\ memory[address] \in Values
         /\ timestamps[address] < hart.timestamp
<1>1. address \in Words
  BY DEF Values, Words
<1> QED BY <1>1 DEF Typed, Logged, Entries

LEMMA WordStamped ==
  ASSUME NEW ts \in [Words -> Nat], NEW t \in Nat, \A w \in Words : ts[w] < t,
         NEW a, NEW u \in Nat, u < t + 4, NEW new, new = [ts EXCEPT ![a] = u]
  PROVE  new \in [Words -> Nat] /\ \A w \in Words : new[w] < t + 4
<1>2. ASSUME NEW w \in Words
      PROVE  new[w] \in Nat /\ new[w] < t + 4
  <2>1. CASE w = a
    BY <2>1
  <2>2. CASE w # a
    <3>1. new[w] = ts[w] /\ ts[w] \in Nat /\ ts[w] < t
      BY <2>2
    <3> QED BY <3>1
  <2> QED BY <2>1, <2>2
<1> QED BY <1>2

LEMMA RecordKeeps ==
  ASSUME Typed, Recorded, phase = "run", NEW i \in InstructionType, i = Instruction(hart.pc),
         NEW e \in Entries, e[2] < hart.timestamp,
         LET u == Len(trace)
             log == Append(trace, e)
         IN \/ LwTurn(i, log, hart, u, hart', u + 1) \/ StoreTurn(i, hart, u, hart', u + 1)
            \/ ReadTurn(i, log, hart, u, hart', u + 1),
         Settled(hart'), hart'.timestamp = hart.timestamp + 4, hart'.pc = hart.pc + 1,
         check_to_save_trace(hart', Append(trace, e)),
         memory' \in [Words -> Values], timestamps' \in [Words -> Nat],
         \A w \in Words : timestamps'[w] < hart'.timestamp,
         UNCHANGED <<inputVars, phase, compiled, labels, abort>>
  PROVE  Typed' /\ Recorded' /\ Turned(Append(trace, e))
<1>1. PICK log : log = Append(trace, e)
  OBVIOUS
<1>2. /\ trace \in Logs /\ log \in Logs /\ Len(trace) \in Nat /\ Len(log) = Len(trace) + 1
      /\ Begins(trace, log) /\ log[Len(trace) + 1] = e
  BY <1>1, OneEntry DEF Typed
<1>3. Consumes(log, Len(trace), Len(log), hart.timestamp)
  BY <1>2 DEF Consumes
<1>4. Turn(program, log, hart, Len(trace), hart', Len(log))
  BY <1>1, <1>2, <1>3 DEF Turn, Instruction
<1>5. hart.timestamp \in Nat /\ hart.pc \in Nat
  BY SettledFields DEF Typed
<1>6. hart.timestamp < hart'.timestamp /\ hart'.pc # hart.pc
  BY <1>5
<1>7. Rounded(hart') = hart'
  <2>1. PICK m : m = hart'
    OBVIOUS
  <2>2. Rounded(m) = m
    BY <2>1, RoundedIsItself
  <2> QED BY <2>1, <2>2
<1>8. \E h : Rounded(h) = hart' /\ check_to_save_trace(h, log)
  BY <1>1, <1>7
<1> QED BY <1>1, <1>2, <1>4, <1>6, <1>8, Executed

LEMMA LwKeepsRecord ==
  ASSUME Typed, Recorded, Lw
  PROVE  Typed' /\ Recorded' /\ Loaded(hart.registers[Instruction(hart.pc).rs1])
<1> DEFINE i == Instruction(hart.pc)
           t == hart.timestamp
           s == hart.register_timestamps
           r == hart.registers
           c == hart.counters
           address == r[i.rs1]
           e == <<memory[address], timestamps[address]>>
           s1 == Stamp(s, i.rs1, t)
           s3 == Stamp(s1, i.rd, t + 2)
           h1 == touch_register_and_bump_timestamp(hart, i.rs1, 1)
           hb == bump_timestamp(h1, 1)
           h2 == record_circuit_type(hb, "MemWord", 1)
           h3 == touch_register_and_bump_timestamp(h2, i.rd, 2)
           hs == store_result(h3, i.rd, memory[address])
           plus == Plus(c, "MemWord", 1)
<1>1. /\ Executes("lw") /\ Record(hs, trace \o Logged(address), hart.pc + 1)
      /\ memory' = memory /\ timestamps' = [timestamps EXCEPT ![address] = h1.timestamp]
  BY DEF Lw
<1>2. phase = "run" /\ hart.pc \in Nat /\ i \in InstructionType /\ i.op = "lw" /\ i.rd # 0
  BY <1>1, Current
<1>3. /\ Settled(hart) /\ t \in Nat /\ r \in [Registers -> Values]
      /\ Is(hart, hart.pc, t, r, s, c)
  BY SettledFields DEF Typed
<1>4. address \in Values
  BY <1>2, <1>3, InstructionFields
<1>5. /\ Logged(address) = <<e>> /\ e \in Entries /\ memory[address] \in Values
      /\ timestamps[address] < t
  BY <1>4, LoggedEntry
<1>6. trace \o Logged(address) = Append(trace, e) /\ e[1] = memory[address] /\ e[2] < t
  BY <1>5, OneEntry DEF Typed
<1>7. Len(trace) \in Nat /\ Append(trace, e)[Len(trace) + 1] = e
  BY <1>5, OneEntry DEF Typed
<1>8. \A w \in Words : timestamps[w] < t
  BY DEF Typed
<1> HIDE DEF i, t, s, r, c, address, e, plus
<1>9. Is(h1, hart.pc, t + 1, r, s1, c)
  BY <1>3, TouchBumpM
<1>10. h1.timestamp = t + 1
  BY <1>9 DEF Is
<1> HIDE DEF h1, s1
<1>11. Is(hb, hart.pc, (t + 1) + 1, r, s1, c)
  BY <1>9, BumpM
<1> HIDE DEF hb
<1>12. (t + 1) + 1 = t + 2 /\ (t + 2) + 2 = t + 4
  BY <1>3
<1>13. Is(h2, hart.pc, t + 2, r, s1, plus)
  BY <1>11, <1>12, CountM DEF plus
<1> HIDE DEF h2
<1>14. Is(h3, hart.pc, t + 4, r, s3, plus)
  BY <1>12, <1>13, TouchBumpM
<1> HIDE DEF h3
<1>15. Is(hs, hart.pc, t + 4, Put(r, i.rd, e[1]), s3, plus)
  BY <1>6, <1>14, StoreM
<1> HIDE DEF hs
<1>16. Is(hart', hart.pc + 1, t + 4, Written(r, i.rd, e[1]), s3, plus)
  BY <1>1, <1>2, <1>15, AtM DEF Record, Written
<1>17. hart'.pc = hart.pc + 1 /\ hart'.timestamp = t + 4 /\ hart.pc + 1 \in Nat
  BY <1>2, <1>16 DEF Is
<1>18. Settled(hart')
  <2>1. Behind(s3, t + 4)
    BY <1>3, SettledFields, TwoBehind DEF s3, s1, s, t
  <2>2. "MemWord" \in Families
    BY DEF Families
  <2>3. Written(r, i.rd, e[1]) \in [Registers -> Values] /\ Written(r, i.rd, e[1])[0] = 0
    BY <1>3, <1>5, <1>6, SettledFields, WrittenTyped DEF r
  <2> QED BY <1>3, <1>16, <1>17, <2>1, <2>2, <2>3, Settle1 DEF t, plus, c
<1>19. LwTurn(i, Append(trace, e), hart, Len(trace), hart', Len(trace) + 1)
  BY <1>2, <1>7, <1>16 DEF LwTurn, s3, s1, t, s, r, c, plus
<1>20. timestamps' \in [Words -> Nat] /\ \A w \in Words : timestamps'[w] < t + 4
  <2>1. timestamps \in [Words -> Nat] /\ \A w \in Words : timestamps[w] < t
    BY <1>8 DEF Typed
  <2>3. PICK ts, new : ts = timestamps /\ new = timestamps'
    OBVIOUS
  <2>4. new \in [Words -> Nat] /\ \A w \in Words : new[w] < t + 4
    <3>1. PICK u \in Nat : u = h1.timestamp /\ u < t + 4
      BY <1>3, <1>10
    <3>2. new = [ts EXCEPT ![address] = u]
      BY <1>1, <2>3, <3>1
    <3> QED BY <1>3, <2>1, <2>3, <3>1, <3>2, WordStamped
  <2> QED BY <2>3, <2>4
<1>21. memory' \in [Words -> Values]
  BY <1>1 DEF Typed
<1>22. check_to_save_trace(hart', Append(trace, e))
  BY <1>1, <1>6 DEF Record
<1>23. UNCHANGED <<inputVars, phase, compiled, labels, abort>>
  BY <1>1 DEF Record
<1>24. Typed' /\ Recorded' /\ Turned(Append(trace, e))
  BY <1>2, <1>5, <1>6, <1>17, <1>18, <1>19, <1>20, <1>21, <1>22, <1>23, RecordKeeps DEF i, t
<1>25. Loaded(address)
  BY ONLY <1>1, <1>7, <1>10, <1>24 DEF Loaded, Tells, e, t
<1> QED BY ONLY <1>24, <1>25 DEF address, r, i

LEMMA ReadKeepsRecord ==
  ASSUME Typed, Recorded, ReadNonDeterminism
  PROVE  Typed' /\ Recorded' /\ \E log : Turned(log)
<1> DEFINE i == Instruction(hart.pc)
           t == hart.timestamp
           s == hart.register_timestamps
           r == hart.registers
           c == hart.counters
           s1 == Stamp(s, 0, t + 1)
           s3 == Stamp(s1, i.rd, (t + 1) + 1)
           plus == Plus(c, "ShiftBinaryCsr", 1)
           h0 == pre_bump_timestamp_and_touch(hart, 1, 0)
<1>1. PICK value \in Values :
        LET h1 == store_result(h0, i.rd, value)
            h2 == bump_timestamp(pre_bump_timestamp_and_touch(h1, 1, i.rd), 2)
        IN Record(record_circuit_type(h2, "ShiftBinaryCsr", 1),
                  Append(trace, <<value, 0>>), hart.pc + 1)
  BY DEF ReadNonDeterminism
<1> DEFINE e == <<value, 0>>
           h1 == store_result(h0, i.rd, value)
           hp == pre_bump_timestamp_and_touch(h1, 1, i.rd)
           h2 == bump_timestamp(hp, 2)
           hr == record_circuit_type(h2, "ShiftBinaryCsr", 1)
<1>2. Record(hr, Append(trace, e), hart.pc + 1) /\ Executes("nd_read") /\ UNCHANGED holderVars
  BY <1>1 DEF ReadNonDeterminism
<1>3. phase = "run" /\ hart.pc \in Nat /\ i \in InstructionType /\ i.op = "nd_read" /\ i.rd # 0
  BY <1>2, Current
<1>4. /\ Settled(hart) /\ t \in Nat \ {0} /\ r \in [Registers -> Values]
      /\ Is(hart, hart.pc, t, r, s, c)
  BY SettledFields DEF Typed
<1>5. e \in Entries /\ e[1] = value /\ e[2] = 0 /\ e[2] < t
  BY <1>4 DEF Entries
<1>6. Len(trace) \in Nat /\ Append(trace, e)[Len(trace) + 1] = e
  BY <1>5, OneEntry DEF Typed
<1> HIDE DEF i, t, s, r, c, e, plus
<1>7. Is(h0, hart.pc, t + 1, r, s1, c)
  BY <1>4, BumpTouchM
<1> HIDE DEF h0
<1>8. Is(h1, hart.pc, t + 1, Put(r, i.rd, value), s1, c)
  BY <1>7, StoreM
<1> HIDE DEF h1
<1>9. Is(hp, hart.pc, (t + 1) + 1, Put(r, i.rd, value), s3, c)
  BY <1>8, BumpTouchM
<1> HIDE DEF hp
<1>10. (t + 1) + 1 = t + 2 /\ (t + 2) + 2 = t + 4
  BY <1>4
<1>11. Is(h2, hart.pc, t + 4, Put(r, i.rd, value), s3, c)
  BY <1>9, <1>10, BumpM
<1> HIDE DEF h2
<1>12. Is(hr, hart.pc, t + 4, Put(r, i.rd, value), s3, plus)
  BY <1>11, CountM DEF plus
<1> HIDE DEF hr
<1>13. Is(hart', hart.pc + 1, t + 4, Written(r, i.rd, e[1]), s3, plus)
  BY <1>2, <1>3, <1>5, <1>12, AtM DEF Record, Written
<1>14. s3 = Three(s, 0, 0, i.rd, t)
  <2>1. Stamp(Stamp(s, 0, t), 0, t + 1) = s1
    BY DEF Stamp
  <2> QED BY <1>10, <2>1 DEF s3, Three
<1>15. Plain(hart, hart', 0, 0, i.rd, e[1], "ShiftBinaryCsr", hart.pc + 1)
  BY <1>13, <1>14 DEF Plain, t, r, s, c, plus
<1>16. /\ hart.pc + 1 \in Nat /\ hart'.pc = hart.pc + 1 /\ e[1] \in Values
       /\ "ShiftBinaryCsr" \in Families
  BY <1>3, <1>5, <1>13 DEF Is, Families
<1>17. Settled(hart') /\ hart'.timestamp = hart.timestamp + 4
  BY <1>4, <1>15, <1>16, PlainSettles
<1>18. ReadTurn(i, Append(trace, e), hart, Len(trace), hart', Len(trace) + 1)
  BY <1>3, <1>5, <1>6, <1>15 DEF ReadTurn
<1>19. timestamps' \in [Words -> Nat] /\ \A w \in Words : timestamps'[w] < hart'.timestamp
  <2>1. timestamps \in [Words -> Nat] /\ \A w \in Words : timestamps[w] < t
    BY DEF Typed, t
  <2>2. timestamps' = timestamps
    BY <1>2 DEF holderVars
  <2>3. \A w \in Words : timestamps[w] < t + 4
    BY <1>4, <2>1
  <2> QED BY <1>17, <2>1, <2>2, <2>3 DEF t
<1>20. memory' \in [Words -> Values]
  BY <1>2 DEF Typed, holderVars
<1>21. check_to_save_trace(hart', Append(trace, e)) /\ UNCHANGED <<inputVars, phase, compiled, labels, abort>>
  BY <1>2 DEF Record
<1> QED BY <1>3, <1>5, <1>16, <1>17, <1>18, <1>19, <1>20, <1>21, RecordKeeps DEF i, t

LEMMA StoreKeepsRecord ==
  ASSUME Typed, Recorded, Store
  PROVE  /\ Typed' /\ Recorded'
         /\ LET i == Instruction(hart.pc)
            IN  Stored(i.op, hart.registers[i.rs1], hart.registers[i.rs2])
<1> DEFINE i == Instruction(hart.pc)
           t == hart.timestamp
           s == hart.register_timestamps
           r == hart.registers
           c == hart.counters
           address == r[i.rs1]
           value == r[i.rs2]
           e == <<memory[address], timestamps[address]>>
           s1 == Stamp(s, i.rs1, t)
           s2 == Stamp(s1, i.rs2, t + 1)
           type == IF i.op = "sw" THEN "MemWord" ELSE "MemSubword"
           h1 == touch_register_and_bump_timestamp(hart, i.rs1, 1)
           h2 == touch_register_and_bump_timestamp(h1, i.rs2, 1)
           hb == bump_timestamp(h2, 2)
           hr == record_circuit_type(hb, type, 1)
           plus == Plus(c, type, 1)
<1>1. /\ Executes("sw") \/ Executes("sb")
      /\ Record(hr, trace \o Logged(address), hart.pc + 1)
      /\ memory' = [memory EXCEPT ![address] =
                      IF i.op = "sw" THEN value ELSE Merge(memory[address], value)]
      /\ timestamps' = [timestamps EXCEPT ![address] = h2.timestamp]
  BY DEF Store
<1>2. phase = "run" /\ hart.pc \in Nat /\ i \in InstructionType /\ i.op \in {"sw", "sb"}
  BY <1>1, Current
<1>3. /\ Settled(hart) /\ t \in Nat /\ r \in [Registers -> Values]
      /\ Is(hart, hart.pc, t, r, s, c)
  BY SettledFields DEF Typed
<1>4. address \in Values /\ value \in Values
  BY <1>2, <1>3, InstructionFields
<1>5. /\ Logged(address) = <<e>> /\ e \in Entries /\ memory[address] \in Values
      /\ timestamps[address] < t
  BY <1>4, LoggedEntry
<1>6. trace \o Logged(address) = Append(trace, e) /\ e[1] = memory[address] /\ e[2] < t
  BY <1>5, OneEntry DEF Typed
<1>7. Append(trace, e)[Len(trace) + 1] = e
  BY <1>5, OneEntry DEF Typed
<1>8. \A w \in Words : timestamps[w] < t
  BY DEF Typed
<1>21. memory' \in [Words -> Values]
  <2>1. (IF i.op = "sw" THEN value ELSE Merge(memory[address], value)) \in Values
    BY <1>4, <1>5, MergeIsValue
  <2> QED BY <1>1, <2>1 DEF Typed
<1> HIDE DEF i, t, s, r, c, address, e, plus, type, value
<1>9. Is(h1, hart.pc, t + 1, r, s1, c)
  BY <1>3, TouchBumpM
<1> HIDE DEF h1, s1
<1>11. Is(h2, hart.pc, (t + 1) + 1, r, s2, c)
  BY <1>9, TouchBumpM
<1>10. h2.timestamp = t + 2
  BY <1>3, <1>11 DEF Is
<1> HIDE DEF h2
<1>12. (t + 1) + 1 = t + 2 /\ (t + 2) + 2 = t + 4
  BY <1>3
<1>13. Is(hb, hart.pc, t + 4, r, s2, c)
  BY <1>11, <1>12, BumpM
<1> HIDE DEF hb
<1>15. Is(hr, hart.pc, t + 4, r, s2, plus)
  BY <1>13, CountM DEF plus
<1> HIDE DEF hr
<1>16. Is(hart', hart.pc + 1, t + 4, r, s2, plus)
  BY <1>1, <1>15, AtM DEF Record
<1>17. hart'.pc = hart.pc + 1 /\ hart'.timestamp = t + 4 /\ hart.pc + 1 \in Nat
  BY <1>2, <1>16 DEF Is
<1>18. Settled(hart')
  <2>1. Behind(s2, t + 4)
    BY <1>3, SettledFields, TwoBehind DEF s2, s1, s, t
  <2>2. type \in Families
    BY DEF Families, type
  <2>3. r \in [Registers -> Values] /\ r[0] = 0
    BY <1>3, SettledFields DEF r
  <2> QED BY <1>3, <1>16, <1>17, <2>1, <2>2, <2>3, Settle1 DEF t, plus, c
<1>19. StoreTurn(i, hart, Len(trace), hart', Len(trace) + 1)
  BY <1>2, <1>16 DEF StoreTurn, s2, s1, t, s, r, c, plus, type
<1>20. timestamps' \in [Words -> Nat] /\ \A w \in Words : timestamps'[w] < t + 4
  <2>1. timestamps \in [Words -> Nat] /\ \A w \in Words : timestamps[w] < t
    BY <1>8 DEF Typed
  <2>3. PICK ts, new : ts = timestamps /\ new = timestamps'
    OBVIOUS
  <2>4. new \in [Words -> Nat] /\ \A w \in Words : new[w] < t + 4
    <3>1. PICK u \in Nat : u = h2.timestamp /\ u < t + 4
      BY <1>3, <1>10
    <3>2. new = [ts EXCEPT ![address] = u]
      BY <1>1, <2>3, <3>1
    <3> QED BY <1>3, <2>1, <2>3, <3>1, <3>2, WordStamped
  <2> QED BY <2>3, <2>4
<1>22. check_to_save_trace(hart', Append(trace, e))
  BY <1>1, <1>6 DEF Record
<1>23. UNCHANGED <<inputVars, phase, compiled, labels, abort>>
  BY <1>1 DEF Record
<1>24. Typed' /\ Recorded' /\ Turned(Append(trace, e))
  BY <1>2, <1>5, <1>6, <1>17, <1>18, <1>19, <1>20, <1>21, <1>22, <1>23, RecordKeeps DEF i, t
<1>25. Stored(i.op, address, value)
  BY ONLY <1>1, <1>7, <1>10, <1>24 DEF Stored, Tells, e, t
<1> QED BY ONLY <1>24, <1>25 DEF address, value, r, i

-----------------------------------------------------------------------------
(* Delegations.                                                            *)

LEMMA RoundedM ==
  ASSUME NEW m, NEW pc, NEW t, NEW registers, NEW stamps, NEW counters,
         Is(m, pc, t, registers, stamps, counters)
  PROVE  Is(Rounded(m), pc, next_multiple_of_step(t), registers, stamps, counters)
BY DEF Is, MachineFields, Rounded

\* A delegation is called at 3 mod 4.
LEMMA ShortOfStep ==
  ASSUME NEW t \in Nat, t % 4 = 0, NEW k \in Nat \ {0}
  PROVE  /\ next_multiple_of_step((t + 4 * (k - 1)) + 3) = t + 4 * k
         /\ ((t + 4 * (k - 1)) + 3) + 1 = t + 4 * k
<1>1. PICK n \in Nat : t = 4 * n
  <2>1. t = 4 * (t \div 4) /\ t \div 4 \in Nat
    OBVIOUS
  <2> QED BY <2>1
<1>2. PICK j \in Nat : j = k - 1
  OBVIOUS
<1>3. (t + 4 * (k - 1)) + 3 = 4 * (n + j) + 3 /\ t + 4 * k = 4 * (n + j + 1)
  BY <1>1, <1>2
<1>4. PICK q \in Nat : q = n + j
  OBVIOUS
<1>5. (((4 * q + 3) + 4 - 1) \div 4) * 4 = 4 * (q + 1)
  OBVIOUS
<1>6. next_multiple_of_step(4 * q + 3) = 4 * (q + 1)
  BY <1>5 DEF next_multiple_of_step, TIMESTAMP_STEP
<1> QED BY <1>3, <1>4, <1>6

\* After the call the machine is one short of the next instruction.
LEMMA DelegatedMachine ==
  ASSUME Typed, NEW h, NEW k \in Nat \ {0}, NEW registers, NEW stamps, NEW counters,
         Is(h, hart.pc, (hart.timestamp + 4 * (k - 1)) + 3, registers, stamps, counters),
         NEW log, Delegated(h, log, k)
  PROVE  /\ Is(hart', hart.pc + k, hart.timestamp + 4 * k, registers, stamps, counters)
         /\ \E x : Rounded(x) = hart' /\ check_to_save_trace(x, log)
<1>1. PICK t \in Nat : t = hart.timestamp /\ t % 4 = 0
  BY SettledFields DEF Typed
<1>2. PICK u : u = (t + 4 * (k - 1)) + 3
  OBVIOUS
<1>3. next_multiple_of_step(u) = t + 4 * k /\ u + 1 = t + 4 * k
  BY <1>1, <1>2, ShortOfStep
<1>4. PICK x : x = At(h, hart.pc + k)
  OBVIOUS
<1>5. Is(x, hart.pc + k, u, registers, stamps, counters)
  BY <1>1, <1>2, <1>4, AtM
<1>6. Is(Rounded(x), hart.pc + k, t + 4 * k, registers, stamps, counters)
  BY <1>3, <1>5, RoundedM
<1>7. Is(bump_timestamp(x, 1), hart.pc + k, t + 4 * k, registers, stamps, counters)
  BY <1>3, <1>5, BumpM
<1>8. hart' = bump_timestamp(x, 1) /\ check_to_save_trace(x, log)
  BY <1>4 DEF Delegated
<1>9. Rounded(x) = bump_timestamp(x, 1)
  BY <1>6, <1>7, SameMachine
<1> QED BY <1>1, <1>7, <1>8, <1>9

LEMMA DelegatedKeeps ==
  ASSUME Typed, Recorded, phase = "run", NEW i \in InstructionType, i = Instruction(hart.pc),
         NEW log \in Logs, Begins(trace, log),
         Consumes(log, Len(trace), Len(log), hart.timestamp),
         \/ BigintTurn(i, log, hart, Len(trace), hart', Len(log))
         \/ BlakeTurn(i, hart, Len(trace), hart', Len(log)),
         NEW k \in Nat \ {0}, Settled(hart'), hart'.timestamp = hart.timestamp + 4 * k,
         hart'.pc = hart.pc + k,
         \E h : Rounded(h) = hart' /\ check_to_save_trace(h, log),
         memory' \in [Words -> Values], timestamps' \in [Words -> Nat],
         \A w \in Words : timestamps'[w] < hart'.timestamp,
         UNCHANGED <<inputVars, phase, compiled, labels, abort>>
  PROVE  Typed' /\ Recorded' /\ Turned(log)
<1>1. Turn(program, log, hart, Len(trace), hart', Len(log))
  BY DEF Turn, Instruction
<1>2. hart.timestamp \in Nat /\ hart.pc \in Nat
  BY SettledFields DEF Typed
<1>3. hart.timestamp < hart'.timestamp /\ hart'.pc # hart.pc
  BY <1>2
<1> QED BY <1>1, <1>3, Executed

LEMMA TwoEntries ==
  ASSUME NEW log \in Logs, NEW d \in Entries, NEW e \in Entries,
         NEW more, more = Append(Append(log, d), e)
  PROVE  /\ more \in Logs /\ Begins(log, more)
         /\ Len(log) \in Nat /\ Len(more) = Len(log) + 2
         /\ more[Len(log) + 1] = d /\ more[Len(log) + 2] = e
<1>1. PICK one : one = Append(log, d)
  OBVIOUS
<1>2. /\ one \in Logs /\ log \o <<d>> = one /\ Len(log) \in Nat /\ Len(one) = Len(log) + 1
      /\ Begins(log, one) /\ one[Len(log) + 1] = d
  BY <1>1, OneEntry
<1>3. /\ Append(one, e) \in Logs /\ one \o <<e>> = Append(one, e) /\ Len(Append(one, e)) = Len(one) + 1
      /\ Begins(one, Append(one, e)) /\ Append(one, e)[Len(one) + 1] = e
  BY <1>2, OneEntry
<1>4. (Len(log) + 1) + 1 = Len(log) + 2
  BY <1>2
<1>5. Append(one, e)[Len(log) + 1] = d
  BY <1>2, <1>3 DEF Begins
<1>6. Begins(log, Append(one, e))
  BY <1>2, <1>3 DEF Begins
<1> QED BY <1>1, <1>2, <1>3, <1>4, <1>5, <1>6

LEMMA BothStamped ==
  ASSUME Typed, NEW a, NEW b, NEW k \in Nat \ {0}, NEW u, u = (hart.timestamp + 4 * (k - 1)) + 3,
         timestamps' = [timestamps EXCEPT ![a] = u, ![b] = u]
  PROVE  /\ timestamps' \in [Words -> Nat]
         /\ \A w \in Words : timestamps'[w] < hart.timestamp + 4 * k
<1>1. PICK t \in Nat : t = hart.timestamp
  BY SettledFields DEF Typed
<1>2. PICK top \in Nat : top = t + 4 * (k - 1) /\ t <= top
  <2>1. PICK j \in Nat : j = k - 1
    OBVIOUS
  <2> QED BY <2>1
<1>3. u \in Nat /\ u < top + 4 /\ top + 4 = t + 4 * k
  BY <1>1, <1>2
<1>4. PICK ts : ts = timestamps
  OBVIOUS
<1>5. ts \in [Words -> Nat] /\ \A w \in Words : ts[w] < t
  BY <1>1, <1>4 DEF Typed
<1>6. PICK one : one = [ts EXCEPT ![a] = u]
  OBVIOUS
<1>7. one \in [Words -> Nat] /\ \A w \in Words : one[w] < t \/ one[w] = u
  <2>1. ASSUME NEW w \in Words
        PROVE  one[w] \in Nat /\ (one[w] < t \/ one[w] = u)
    BY <1>3, <1>5, <1>6
  <2> QED BY <1>6, <1>5, <2>1
<1>8. PICK two : two = [one EXCEPT ![b] = u]
  OBVIOUS
<1>9. two \in [Words -> Nat] /\ \A w \in Words : two[w] < t \/ two[w] = u
  <2>1. ASSUME NEW w \in Words
        PROVE  two[w] \in Nat /\ (two[w] < t \/ two[w] = u)
    BY <1>3, <1>7, <1>8
  <2> QED BY <1>7, <1>8, <2>1
<1>10. ASSUME NEW w \in Words
       PROVE  two[w] < t + 4 * k
  <2>1. PICK x \in Nat : x = two[w] /\ (x < t \/ x = u)
    BY <1>9
  <2> QED BY <1>2, <1>3, <2>1
<1>11. timestamps' = two
  BY <1>4, <1>6, <1>8
<1> QED BY <1>1, <1>9, <1>10, <1>11

LEMMA BigintKeepsRecord ==
  ASSUME Typed, Recorded, Bigint
  PROVE  Typed' /\ Recorded' /\ Summed(hart.registers[1], hart.registers[2])
<1> DEFINE i == Instruction(hart.pc)
           t == hart.timestamp
           s == hart.register_timestamps
           r == hart.registers
           c == hart.counters
           a_ptr == r[1]
           b_ptr == r[2]
           a == <<memory[a_ptr], timestamps[a_ptr]>>
           b == <<memory[b_ptr], timestamps[b_ptr]>>
           carry == bigint_impl(memory[a_ptr], memory[b_ptr])[2]
           sum == bigint_impl(memory[a_ptr], memory[b_ptr])[1]
           e == <<carry, 0>>
           log == Append(Append(Append(trace, b), a), e)
           u == Len(trace)
           plus == Plus(Plus(c, "BigintDelegation", 1), "ShiftBinaryCsr", 1)
           s1 == Stamp(s, 0, t + 2)
           s3 == AbiStamps(s1, t + 3)
           hm == Marked(hart, "BigintDelegation", 1)
           h1 == TouchAbi(hm)
           hs == store_result(h1, 3, carry)
<1>1. /\ Executes("bigint")
      /\ Delegated(hs, Append(trace \o Logged(b_ptr) \o Logged(a_ptr), e), 1)
      /\ memory' = [memory EXCEPT ![a_ptr] = sum]
      /\ timestamps' = [timestamps EXCEPT ![a_ptr] = h1.timestamp, ![b_ptr] = h1.timestamp]
  BY DEF Bigint
<1>2. phase = "run" /\ hart.pc \in Nat /\ i \in InstructionType /\ i.op = "bigint"
  BY <1>1, Current
<1>3. /\ Settled(hart) /\ t \in Nat \ {0} /\ r \in [Registers -> Values]
      /\ Is(hart, hart.pc, t, r, s, c)
  BY SettledFields DEF Typed
<1>4. a_ptr \in Values /\ b_ptr \in Values
  BY <1>3 DEF Registers
<1>5. /\ Logged(a_ptr) = <<a>> /\ a \in Entries /\ memory[a_ptr] \in Values
      /\ timestamps[a_ptr] < t
  BY <1>4, LoggedEntry
<1>6. /\ Logged(b_ptr) = <<b>> /\ b \in Entries /\ memory[b_ptr] \in Values
      /\ timestamps[b_ptr] < t
  BY <1>4, LoggedEntry
<1>7. carry \in Values /\ sum \in Values /\ e \in Entries
  BY <1>5, <1>6, CarryIsValue DEF Entries
<1> HIDE DEF a, b
<1>8. trace \in Logs
  BY DEF Typed
<1>9. PICK two : two = Append(Append(trace, b), a)
  OBVIOUS
<1>10. /\ two \in Logs /\ Begins(trace, two)
       /\ u \in Nat /\ Len(two) = u + 2 /\ two[u + 1] = b /\ two[u + 2] = a
  <2>1. PICK x, y, z : x = a /\ y = b /\ z = trace
    OBVIOUS
  <2>2. x \in Entries /\ y \in Entries /\ z \in Logs /\ two = Append(Append(z, y), x)
    BY <1>5, <1>6, <1>8, <1>9, <2>1
  <2>3. two \in Logs /\ Begins(z, two)
    BY <2>2, TwoEntries
  <2>4. Len(two) = Len(z) + 2 /\ two[Len(z) + 1] = y
    BY <2>2, TwoEntries
  <2>5. Len(z) \in Nat /\ two[Len(z) + 2] = x
    BY <2>2, TwoEntries
  <2> QED BY <2>1, <2>3, <2>4, <2>5
<1>11. /\ Append(two, e) \in Logs /\ Len(Append(two, e)) = Len(two) + 1
       /\ Begins(two, Append(two, e)) /\ Append(two, e)[Len(two) + 1] = e
  BY <1>7, <1>10, OneEntry
<1>12. log = Append(two, e) /\ log = Append(trace \o Logged(b_ptr) \o Logged(a_ptr), e)
  <2>1. trace \o <<b>> = Append(trace, b) /\ Append(trace, b) \in Logs
    BY <1>6, <1>8, OneEntry
  <2>2. Append(trace, b) \o <<a>> = Append(Append(trace, b), a)
    BY <1>5, <2>1, OneEntry
  <2> QED BY <1>5, <1>6, <1>9, <2>1, <2>2
<1>13. /\ log \in Logs /\ Begins(trace, log) /\ Len(log) = u + 3
       /\ log[u + 1] = b /\ log[u + 2] = a /\ log[u + 3] = e
  <2>1. (u + 2) + 1 = u + 3 /\ u + 1 \in 1..(u + 2) /\ u + 2 \in 1..(u + 2)
    BY <1>10
  <2>2. PICK more : more = Append(two, e)
    OBVIOUS
  <2>3. more[u + 1] = b /\ more[u + 2] = a /\ more[u + 3] = e /\ Len(more) = u + 3
    <3>1. Begins(two, more) /\ Len(more) = Len(two) + 1 /\ more[Len(two) + 1] = e
      BY ONLY <1>11, <2>2
    <3>2. more[u + 1] = b /\ more[u + 2] = a
      BY ONLY <1>10, <2>1, <3>1 DEF Begins
    <3> QED BY ONLY <1>10, <2>1, <3>1, <3>2
  <2>4. Begins(trace, more)
    BY ONLY <1>10, <1>11, <2>2 DEF Begins
  <2> QED BY <1>11, <1>12, <2>2, <2>3, <2>4
<1>14. a[1] = memory[a_ptr] /\ a[2] < t /\ b[1] = memory[b_ptr] /\ b[2] < t /\ e[2] < t
  BY <1>3, <1>5, <1>6 DEF a, b
<1>15. Consumes(log, u, Len(log), t)
  <2>1. \A j \in (u + 1)..(u + 3) : j = u + 1 \/ j = u + 2 \/ j = u + 3
    BY <1>10
  <2>2. \A j \in (u + 1)..(u + 3) : log[j][2] < t
    BY <1>13, <1>14, <2>1
  <2> QED BY <1>10, <1>13, <2>2 DEF Consumes
<1>16. Carry(log, u) = carry /\ log[u + 3] = <<Carry(log, u), 0>>
  BY <1>13, <1>14 DEF Carry
<1>17. memory' \in [Words -> Values]
  BY <1>1, <1>7 DEF Typed
<1> HIDE DEF i, t, s, r, c, carry, sum, e, log, u, plus, a_ptr, b_ptr
<1>18. Is(hm, hart.pc, t + 3, r, s1, plus)
  BY <1>3, MarkedM DEF plus
<1> HIDE DEF hm
<1>19. Is(h1, hart.pc, t + 3, r, s3, plus)
  BY <1>18, TouchAbiM
<1>20. h1.timestamp = t + 3
  BY <1>19 DEF Is
<1> HIDE DEF h1
<1>21. Is(hs, hart.pc, t + 3, Put(r, 3, carry), s3, plus)
  BY <1>19, StoreM
<1> HIDE DEF hs
<1>22. t + 3 = (t + 4 * (1 - 1)) + 3 /\ t + 2 = (t + 4 * (1 - 1)) + 2 /\ t + 4 = t + 4 * 1 /\ 1 \in Nat \ {0}
  BY <1>3
<1>23. Is(hs, hart.pc, (t + 4 * (1 - 1)) + 3, Put(r, 3, carry), s3, plus)
  BY <1>21, <1>22
<1>24. Delegated(hs, log, 1)
  BY <1>1, <1>12
<1>25. /\ Is(hart', hart.pc + 1, t + 4 * 1, Put(r, 3, carry), s3, plus)
       /\ \E x : Rounded(x) = hart' /\ check_to_save_trace(x, log)
  BY <1>22, <1>23, <1>24, DelegatedMachine DEF t
<1>26. BigintTurn(i, log, hart, u, hart', Len(log))
  BY <1>2, <1>13, <1>16, <1>22, <1>25 DEF BigintTurn, t, s, r, c, plus, s3, s1
<1>27. Settled(hart') /\ hart'.timestamp = hart.timestamp + 4 * 1
  <2>1. "BigintDelegation" \in CounterType \ Families
    BY DEF CounterType, Families
  <2>2. s3 = AbiStamps(Stamp(s, 0, (t + 4 * (1 - 1)) + 2), (t + 4 * (1 - 1)) + 3)
    BY <1>22 DEF s3, s1
  <2>3. Is(hart', hart.pc + 1, t + 4 * 1, Put(r, 3, carry),
           AbiStamps(Stamp(s, 0, (t + 4 * (1 - 1)) + 2), (t + 4 * (1 - 1)) + 3), plus)
    BY <1>25, <2>2
  <2> QED BY <1>3, <1>7, <1>22, <2>1, <2>3, DelegationSettles DEF plus, r, s, c, t
<1>28. hart'.pc = hart.pc + 1
  BY <1>25 DEF Is
<1>29. /\ timestamps' \in [Words -> Nat]
       /\ \A w \in Words : timestamps'[w] < hart.timestamp + 4 * 1
  BY <1>1, <1>20, <1>22, BothStamped DEF t
<1>30. UNCHANGED <<inputVars, phase, compiled, labels, abort>>
  BY <1>24 DEF Delegated
<1>31. Typed' /\ Recorded' /\ Turned(log)
  BY <1>2, <1>13, <1>15, <1>17, <1>22, <1>25, <1>26, <1>27, <1>28, <1>29, <1>30, DelegatedKeeps
     DEF i, t, u
<1>32. Summed(a_ptr, b_ptr)
  BY ONLY <1>1, <1>13, <1>20, <1>31 DEF Summed, Tells, a, b, u, t, sum
<1> QED BY ONLY <1>31, <1>32 DEF a_ptr, b_ptr, r

-----------------------------------------------------------------------------
(* The rounds of the hash.                                                 *)

\* The words of a state w that an input x is mixed into.
Mixed(w, x) ==
  LET mixed[round \in 0..Rounds] == IF round = 0 THEN w ELSE Mix(mixed[round - 1], x)
  IN  mixed

\* The word after n rounds, given the words f before.
AfterRound(f, w, x, n) == IF n = 0 THEN w ELSE Mix(f[n - 1], x)

MixedBy(f, w, x) == f = [n \in 0..Rounds |-> AfterRound(f, w, x, n)]

\* The equation that defines the rounds has a solution.
LEMMA MixedExists ==
  ASSUME NEW w, NEW x
  PROVE  \E f : MixedBy(f, w, x)
<1> DEFINE Solves(f, m) == \A n \in 0..m : f[n] = IF n = 0 THEN w ELSE Mix(f[n - 1], x)
           Solvable(m) == \E f : Solves(f, m)
           T == {m \in Nat : ~Solvable(m)}
<1>1. Solvable(0)
  <2>1. PICK f : f = [n \in {0} |-> w]
    OBVIOUS
  <2>2. f[0] = w /\ \A n \in 0..0 : n = 0
    BY <2>1
  <2> QED BY <2>2
<1>2. ASSUME NEW m \in Nat, Solvable(m)
      PROVE  Solvable(m + 1)
  <2>1. PICK f : Solves(f, m)
    BY <1>2
  <2>2. PICK h : h = [n \in 0..(m + 1) |-> IF n = m + 1 THEN Mix(f[m], x) ELSE f[n]]
    OBVIOUS
  <2>3. ASSUME NEW n \in 0..(m + 1)
        PROVE  h[n] = IF n = 0 THEN w ELSE Mix(h[n - 1], x)
    <3>1. CASE n = m + 1
      <4>1. h[n] = Mix(f[m], x) /\ h[m] = f[m] /\ n # 0 /\ n - 1 = m
        BY <2>2, <3>1
      <4> QED BY <4>1
    <3>2. CASE n # m + 1
      <4>1. n \in 0..m /\ h[n] = f[n]
        BY <2>2, <3>2
      <4>2. n # 0 => n - 1 \in 0..m /\ n - 1 \in 0..(m + 1) /\ n - 1 # m + 1
        BY <4>1
      <4>3. n # 0 => h[n - 1] = f[n - 1]
        BY <2>2, <4>2
      <4> QED BY <2>1, <4>1, <4>3
    <3> QED BY <3>1, <3>2
  <2>4. Solves(h, m + 1)
    BY <2>3
  <2> QED BY <2>4
<1>3. T = {}
  <2>1. SUFFICES ASSUME T # {} PROVE FALSE
    OBVIOUS
  <2>2. PICK m \in T : \A k \in Nat : k < m => k \notin T
    BY <2>1, LeastNumber
  <2>3. m # 0
    BY <1>1
  <2>4. m - 1 \in Nat /\ m - 1 < m /\ m = (m - 1) + 1
    BY <2>3
  <2>5. Solvable(m - 1)
    BY <2>2, <2>4
  <2> HIDE DEF Solvable
  <2>6. Solvable((m - 1) + 1)
    BY <1>2, <2>4, <2>5
  <2> QED BY <2>4, <2>6
<1>4. PICK f : Solves(f, Rounds)
  BY <1>3, ReplayAssumption
<1>5. PICK g : g = [n \in 0..Rounds |-> f[n]]
  OBVIOUS
<1>6. \A n \in 0..Rounds : n # 0 => n - 1 \in 0..Rounds
  BY ReplayAssumption
<1>7. \A n \in 0..Rounds : g[n] = IF n = 0 THEN w ELSE Mix(g[n - 1], x)
  BY <1>4, <1>5, <1>6
<1>8. \A n \in 0..Rounds : g[n] = AfterRound(g, w, x, n)
  BY <1>7 DEF AfterRound
<1>9. g = [n \in 0..Rounds |-> AfterRound(g, w, x, n)]
  BY <1>5, <1>8
<1>10. MixedBy(g, w, x)
  BY <1>9 DEF MixedBy
<1> QED BY <1>10

LEMMA MixedIsValue ==
  ASSUME NEW w \in Values, NEW x \in Values, NEW count \in 1..Rounds
  PROVE  Mixed(w, x)[count] \in Values
<1>0. PICK f : MixedBy(f, w, x)
  BY MixedExists
<1>1. f = [n \in 0..Rounds |-> IF n = 0 THEN w ELSE Mix(f[n - 1], x)]
  BY <1>0 DEF MixedBy, AfterRound
<1>2. Mixed(w, x) = [n \in 0..Rounds |-> IF n = 0 THEN w ELSE Mix(Mixed(w, x)[n - 1], x)]
  BY <1>1 DEF Mixed
<1> HIDE DEF Mixed
<1>3. PICK h : h = Mixed(w, x)
  OBVIOUS
<1>4. \A n \in 0..Rounds : h[n] = IF n = 0 THEN w ELSE Mix(h[n - 1], x)
  BY <1>2, <1>3
<1> DEFINE T == {n \in Nat : n \in 0..Rounds /\ h[n] \notin Values}
<1>5. T = {}
  <2>1. SUFFICES ASSUME T # {} PROVE FALSE
    OBVIOUS
  <2>2. PICK m \in T : \A k \in Nat : k < m => k \notin T
    BY <2>1, LeastNumber
  <2>3. m # 0
    BY <1>4
  <2>4. m - 1 \in Nat /\ m - 1 < m /\ m - 1 \in 0..Rounds /\ m \in 0..Rounds
    BY <2>3, ReplayAssumption
  <2>5. h[m - 1] \in Values
    BY <2>2, <2>4
  <2>6. h[m - 1] + x + 1 \in Int
    BY <2>5, ReplayAssumption DEF Values
  <2>7. Mix(h[m - 1], x) \in Values
    BY <2>6, WrapIsValue DEF Mix
  <2>8. h[m] = Mix(h[m - 1], x)
    BY <1>4, <2>3, <2>4
  <2> QED BY <2>7, <2>8
<1>6. count \in Nat /\ count \in 0..Rounds
  BY ReplayAssumption
<1> QED BY <1>3, <1>5, <1>6

Hashed(a, b, count) ==
  /\ \E log : Turned(log) /\ Tells(log, Len(trace) + 1, a) /\ Tells(log, Len(trace) + 2, b)
  /\ memory' = [memory EXCEPT ![a] = Mixed(memory[a], memory[b])[count]]
  /\ LET last == LastRound(hart.timestamp, count) + 3
     IN  timestamps' = [timestamps EXCEPT ![a] = last, ![b] = last]

LEMMA BlakeKeepsRecord ==
  ASSUME Typed, Recorded, Blake
  PROVE  Typed' /\ Recorded'
         /\ Hashed(hart.registers[1], hart.registers[2], num_rounds(hart.registers[3]))
<1>0. PICK count \in Nat \ {0} : count = num_rounds(hart.registers[3]) /\ count \in 1..Rounds
  BY RoundsTaken
<1> DEFINE i == Instruction(hart.pc)
           t == hart.timestamp
           s == hart.register_timestamps
           r == hart.registers
           c == hart.counters
           a_ptr == r[1]
           b_ptr == r[2]
           a == <<memory[a_ptr], timestamps[a_ptr]>>
           b == <<memory[b_ptr], timestamps[b_ptr]>>
           u == Len(trace)
           top == t + 4 * (count - 1)
           plus == Plus(Plus(c, "BlakeDelegation", count), "ShiftBinaryCsr", count)
           s1 == Stamp(s, 0, t + 2)
           s2 == AbiStamps(s1, top + 3)
           s3 == AbiStamps(Stamp(s, 0, top + 2), top + 3)
           hm == Marked(hart, "BlakeDelegation", count)
           hb == bump_timestamp(hm, (count - 1) * TIMESTAMP_STEP)
           h1 == TouchAbi(hb)
           hs == store_result(h1, 3, Control(r[3], count))
           h2 == [hs EXCEPT !.register_timestamps[0] = h1.timestamp - 1]
<1>1. /\ Executes("blake") /\ r[3] \in ControlWords
      /\ Delegated(h2, trace \o Logged(a_ptr) \o Logged(b_ptr), count)
      /\ memory' = [memory EXCEPT ![a_ptr] = Mixed(memory[a_ptr], memory[b_ptr])[count]]
      /\ timestamps' = [timestamps EXCEPT ![a_ptr] = h1.timestamp, ![b_ptr] = h1.timestamp]
  BY <1>0 DEF Blake, Mixed
<1>2. phase = "run" /\ hart.pc \in Nat /\ i \in InstructionType /\ i.op = "blake"
  BY <1>1, Current
<1>3. /\ Settled(hart) /\ t \in Nat \ {0} /\ r \in [Registers -> Values]
      /\ Is(hart, hart.pc, t, r, s, c)
  BY SettledFields DEF Typed
<1>4. a_ptr \in Values /\ b_ptr \in Values
  BY <1>3 DEF Registers
<1>5. /\ Logged(a_ptr) = <<a>> /\ a \in Entries /\ memory[a_ptr] \in Values
      /\ timestamps[a_ptr] < t
  BY <1>4, LoggedEntry
<1>6. /\ Logged(b_ptr) = <<b>> /\ b \in Entries /\ memory[b_ptr] \in Values
      /\ timestamps[b_ptr] < t
  BY <1>4, LoggedEntry
<1>7. memory' \in [Words -> Values]
  <2>1. Mixed(memory[a_ptr], memory[b_ptr])[count] \in Values
    BY <1>0, <1>5, <1>6, MixedIsValue
  <2> QED BY <1>1, <2>1 DEF Typed
<1>8. count \in Nat \ {0} /\ top \in Nat /\ t <= top /\ top + 4 = t + 4 * count
  <2>1. PICK n \in Nat : n = count - 1
    BY <1>0
  <2>2. PICK x \in Nat : x = t
    BY <1>3
  <2>3. count = n + 1
    BY <1>0, <2>1
  <2>4. top = x + 4 * n
    BY <2>1, <2>2
  <2> HIDE DEF top
  <2> QED BY <2>2, <2>3, <2>4
<1>9. a[2] < t /\ b[2] < t
  BY <1>5, <1>6
<1> HIDE DEF a, b
<1>10. trace \in Logs
  BY DEF Typed
<1>11. PICK log : log = Append(Append(trace, a), b)
  OBVIOUS
<1>12. log = trace \o Logged(a_ptr) \o Logged(b_ptr)
  <2>1. trace \o <<a>> = Append(trace, a) /\ Append(trace, a) \in Logs
    BY <1>5, <1>10, OneEntry
  <2>2. Append(trace, a) \o <<b>> = Append(Append(trace, a), b)
    BY <1>6, <2>1, OneEntry
  <2> QED BY <1>5, <1>6, <1>11, <2>1, <2>2
<1>13. /\ log \in Logs /\ Begins(trace, log) /\ Len(log) = u + 2 /\ u \in Nat
       /\ log[u + 1] = a /\ log[u + 2] = b
  <2>1. PICK x, y, z : x = a /\ y = b /\ z = trace
    OBVIOUS
  <2>2. x \in Entries /\ y \in Entries /\ z \in Logs /\ log = Append(Append(z, x), y)
    BY <1>5, <1>6, <1>10, <1>11, <2>1
  <2>3. log \in Logs /\ Begins(z, log)
    BY <2>2, TwoEntries
  <2>4. Len(log) = Len(z) + 2 /\ log[Len(z) + 1] = x
    BY <2>2, TwoEntries
  <2>5. Len(z) \in Nat /\ log[Len(z) + 2] = y
    BY <2>2, TwoEntries
  <2> QED BY <2>1, <2>3, <2>4, <2>5
<1>14. Consumes(log, u, Len(log), t)
  <2>1. \A j \in (u + 1)..(u + 2) : j = u + 1 \/ j = u + 2
    BY <1>13
  <2>2. \A j \in (u + 1)..(u + 2) : log[j][2] < t
    BY <1>9, <1>13, <2>1
  <2> QED BY <1>13, <2>2 DEF Consumes
<1> HIDE DEF i, t, s, r, c, u, plus, a_ptr, b_ptr
<1>18. Is(hm, hart.pc, t + 3, r, s1, plus)
  BY <1>3, MarkedM DEF plus
<1> HIDE DEF hm
<1>19. Is(hb, hart.pc, top + 3, r, s1, plus)
  <2>1. (t + 3) + (count - 1) * TIMESTAMP_STEP = top + 3
    <3>1. PICK n \in Nat : n = count - 1
      BY <1>8
    <3>2. PICK x \in Nat : x = t
      BY <1>3
    <3> QED BY <3>1, <3>2 DEF TIMESTAMP_STEP, top
  <2>2. Is(hb, hart.pc, (t + 3) + (count - 1) * TIMESTAMP_STEP, r, s1, plus)
    BY <1>18, BumpM
  <2> QED BY <2>1, <2>2
<1> HIDE DEF hb
<1>20. Is(h1, hart.pc, top + 3, r, s2, plus)
  BY <1>19, TouchAbiM
<1>21. h1.timestamp = top + 3
  BY <1>20 DEF Is
<1> HIDE DEF h1
<1>22. Is(hs, hart.pc, top + 3, Put(r, 3, Control(r[3], count)), s2, plus)
  BY <1>20, StoreM
<1> HIDE DEF hs
<1>23. Is(h2, hart.pc, top + 3, Put(r, 3, Control(r[3], count)), Stamp(s2, 0, top + 2), plus)
  <2>1. h1.timestamp - 1 = top + 2
    BY <1>8, <1>21
  <2> QED BY <1>22, <2>1 DEF Is, MachineFields, Stamp
<1>24. Stamp(s2, 0, top + 2) = s3
  <2>1. s \in [Registers -> Nat] /\ 0 \in Registers
    BY <1>3, SettledFields DEF Behind, s, Registers
  <2>2. \A x \in Registers : Stamp(s2, 0, top + 2)[x] = s3[x]
    BY <2>1 DEF Stamp, AbiStamps, s3, s2, s1
  <2>3. Stamp(s2, 0, top + 2) = [x \in Registers |-> s3[x]] /\ s3 = [x \in Registers |-> s3[x]]
    BY <2>2 DEF Stamp, AbiStamps, s3, s2
  <2> QED BY <2>3
<1> HIDE DEF h2
<1>25. Delegated(h2, log, count)
  BY <1>1, <1>12
<1>26. Is(h2, hart.pc, (t + 4 * (count - 1)) + 3, Put(r, 3, Control(r[3], count)), s3, plus)
  BY <1>23, <1>24 DEF top
<1>27. /\ Is(hart', hart.pc + count, t + 4 * count, Put(r, 3, Control(r[3], count)), s3, plus)
       /\ \E x : Rounded(x) = hart' /\ check_to_save_trace(x, log)
  BY <1>8, <1>25, <1>26, DelegatedMachine DEF t
<1>28. BlakeTurn(i, hart, u, hart', Len(log))
  BY <1>0, <1>1, <1>2, <1>13, <1>27 DEF BlakeTurn, HashTurn, LastRound, t, s, r, c, plus, s3, top
<1>29. Settled(hart') /\ hart'.timestamp = hart.timestamp + 4 * count
  <2>1. "BlakeDelegation" \in CounterType \ Families
    BY DEF CounterType, Families
  <2>2. Control(r[3], count) \in Values
    BY <1>3, <1>8, ControlIsValue DEF Registers
  <2> QED BY <1>3, <1>8, <1>27, <2>1, <2>2, DelegationSettles DEF plus, r, s, c, t, s3, top
<1>30. hart'.pc = hart.pc + count
  BY <1>27 DEF Is
<1>31. /\ timestamps' \in [Words -> Nat]
       /\ \A w \in Words : timestamps'[w] < hart.timestamp + 4 * count
  <2>1. PICK x : x = (t + 4 * (count - 1)) + 3
    OBVIOUS
  <2>2. timestamps' = [timestamps EXCEPT ![a_ptr] = x, ![b_ptr] = x]
    BY <1>1, <1>21, <2>1 DEF top
  <2> QED BY <1>8, <2>1, <2>2, BothStamped DEF t
<1>32. UNCHANGED <<inputVars, phase, compiled, labels, abort>>
  BY <1>25 DEF Delegated
<1>33. Typed' /\ Recorded' /\ Turned(log)
  BY <1>2, <1>8, <1>13, <1>14, <1>7, <1>27, <1>28, <1>29, <1>30, <1>31, <1>32, DelegatedKeeps
     DEF i, t, u
<1>34. Hashed(a_ptr, b_ptr, count)
  BY ONLY <1>1, <1>13, <1>21, <1>33 DEF Hashed, Tells, LastRound, a, b, u, t, top
<1> QED BY ONLY <1>0, <1>33, <1>34 DEF a_ptr, b_ptr, r

-----------------------------------------------------------------------------
(* Every step. *)

LEMMA SpecRecords == Spec => [](Typed /\ Recorded)
<1>1. Init => Typed /\ Recorded
  BY InitTyped
<1>2. (Typed /\ Recorded) /\ [Next]_vars => (Typed /\ Recorded)'
  <2> SUFFICES ASSUME Typed, Recorded, [Next]_vars PROVE Typed' /\ Recorded'
    OBVIOUS
  <2>1. CASE Add \/ Lui \/ Jal \/ Beq \/ Lw
    BY <2>1, AddKeepsRecord, LuiKeepsRecord, JalKeepsRecord, BeqKeepsRecord, LwKeepsRecord
  <2>2. CASE Store \/ ReadNonDeterminism \/ WriteNonDeterminism \/ Bigint \/ Blake
    BY <2>2, StoreKeepsRecord, ReadKeepsRecord, WriteKeepsRecord, BigintKeepsRecord,
       BlakeKeepsRecord
  <2>3. CASE Compile \/ Quit
    BY <2>3, CompileKeeps, QuitKeeps
  <2>4. CASE Load \/ EarlyExit \/ CollectInitsAndTeardowns \/ Reset \/ Abort \/ Replayer
             \/ UNCHANGED vars
    BY <2>4, IdleStepsKeep
  <2> QED BY <2>1, <2>2, <2>3, <2>4 DEF Next, Simulate
<1> QED BY <1>1, <1>2, PTL DEF Spec

\* The holder, the chunk and the machine keep their types.
THEOREM TypeCorrect == Spec => []TypeOK
<1>1. Typed => TypeOK
  BY DEF Typed, TypeOK, Settled, Logs
<1> QED BY <1>1, SpecRecords, PTL

-----------------------------------------------------------------------------
(* The replayer within an instruction.                                     *)

\* What is left of a log after u entries.
Rest(rest, log, u) ==
  /\ rest \in Logs /\ log \in Logs /\ u \in Nat
  /\ Len(rest) + u = Len(log)
  /\ \A j \in 1..Len(rest) : rest[j] = log[u + j]

LEMMA RestBegins ==
  ASSUME NEW log \in Logs
  PROVE  Rest(log, log, 0)
<1>1. Len(log) \in Nat
  BY DEF Logs
<1> QED BY <1>1 DEF Rest

LEMMA RestEnds ==
  ASSUME NEW rest, NEW log, NEW u, Rest(rest, log, u), u = Len(log)
  PROVE  rest = <<>>
<1>1. rest \in Seq(Entries) /\ Len(rest) \in Nat /\ Len(rest) + u = u /\ u \in Nat
  BY DEF Rest, Logs, Entries
<1>2. Len(rest) = 0
  BY <1>1
<1> QED BY <1>1, <1>2, EmptySeq

LEMMA RestGoesOn ==
  ASSUME NEW rest, NEW log, NEW u, Rest(rest, log, u), u < Len(log)
  PROVE  /\ rest # <<>> /\ Head(rest) = log[u + 1]
         /\ Rest(Tail(rest), log, u + 1)
         /\ log[u + 1] \in Entries
<1>1. /\ rest \in Seq(Entries) /\ log \in Seq(Entries) /\ u \in Nat
      /\ Len(rest) \in Nat /\ Len(log) \in Nat /\ Len(rest) + u = Len(log)
  BY DEF Rest, Logs, Entries
<1>2. Len(rest) > 0 /\ rest # <<>>
  BY <1>1
<1>3. Head(rest) = rest[1] /\ rest[1] = log[u + 1] /\ rest[1] \in Entries
  BY <1>1, <1>2 DEF Rest
<1>4. PICK tail : tail = Tail(rest)
  OBVIOUS
<1>5. tail \in Seq(Entries) /\ Len(tail) = Len(rest) - 1
  BY <1>1, <1>2, <1>4, HeadTailProperties
<1>6. \A j \in 1..Len(tail) : tail[j] = rest[j + 1]
  BY <1>1, <1>2, <1>4
<1>7. Len(tail) \in Nat /\ Len(tail) + (u + 1) = Len(log) /\ u + 1 \in Nat
  BY <1>1, <1>2, <1>5
<1>8. \A j \in 1..Len(tail) : tail[j] = log[(u + 1) + j]
  <2>1. SUFFICES ASSUME NEW j \in 1..Len(tail) PROVE tail[j] = log[(u + 1) + j]
    OBVIOUS
  <2>2. j \in Nat /\ j + 1 \in 1..Len(rest) /\ u + (j + 1) = (u + 1) + j
    BY <1>1, <1>5
  <2>3. rest[j + 1] = log[u + (j + 1)]
    BY <2>2 DEF Rest
  <2> QED BY <1>6, <2>2, <2>3
<1>9. Rest(tail, log, u + 1)
  BY <1>1, <1>5, <1>7, <1>8 DEF Rest, Logs, Entries
<1> QED BY <1>2, <1>3, <1>4, <1>9

\* Every row reads what is older than what it writes.
Forward(rows) ==
  /\ \E S : rows \in Seq(S)
  /\ \A n \in DOMAIN rows : rows[n][1][4] < rows[n][2][4]

LEMMA NoRows == Forward(<<>>)
<1>1. <<>> \in Seq({}) /\ DOMAIN <<>> = {}
  OBVIOUS
<1> QED BY <1>1 DEF Forward

LEMMA RowGoesForward ==
  ASSUME NEW rows, Forward(rows), NEW row, row[1][4] < row[2][4]
  PROVE  Forward(Append(rows, row))
<1>1. PICK S : rows \in Seq(S)
  BY DEF Forward
<1>2. PICK T : T = S \cup {row}
  OBVIOUS
<1>3. rows \in Seq(T)
  BY <1>1, <1>2
<1>4. PICK n \in Nat : n = Len(rows) /\ DOMAIN rows = 1..n
  BY <1>1
<1>5. PICK more : more = Append(rows, row)
  OBVIOUS
<1>6. more \in Seq(T) /\ DOMAIN more = 1..(n + 1) /\ more[n + 1] = row
      /\ \A k \in 1..n : more[k] = rows[k]
  BY <1>2, <1>3, <1>4, <1>5
<1>7. \A k \in 1..(n + 1) : k \in 1..n \/ k = n + 1
  OBVIOUS
<1>8. \A k \in DOMAIN more : more[k][1][4] < more[k][2][4]
  BY <1>4, <1>6, <1>7 DEF Forward
<1> QED BY <1>5, <1>6, <1>8 DEF Forward

VmFields == {"pc", "timestamp", "registers", "register_timestamps", "log", "intact", "stopped",
             "rows", "counted", "snapshot"}

\* No assertion has failed, u entries of the log are used up.
Stage(v, t, registers, stamps, log, u, counted, snapshot) ==
  /\ DOMAIN v = VmFields /\ v = [x \in DOMAIN v |-> v[x]]
  /\ v.timestamp = t /\ v.registers = registers /\ v.register_timestamps = stamps
  /\ Rest(v.log, log, u) /\ v.intact = TRUE /\ Forward(v.rows)
  /\ v.counted = counted /\ v.snapshot = snapshot

LEMMA RowStage ==
  ASSUME NEW v, NEW t, NEW registers, NEW stamps, NEW log, NEW u, NEW counted, NEW snapshot,
         Stage(v, t, registers, stamps, log, u, counted, snapshot),
         NEW read, NEW written, read[4] < written[4]
  PROVE  Stage(Row(v, read, written), t, registers, stamps, log, u, counted, snapshot)
<1>1. PICK row : row = <<read, written>>
  OBVIOUS
<1>2. row[1][4] < row[2][4]
  BY <1>1
<1>3. PICK rows : rows = Append(v.rows, row)
  OBVIOUS
<1>4. Forward(rows)
  BY <1>2, <1>3, RowGoesForward DEF Stage
<1>5. Row(v, read, written) = [v EXCEPT !.rows = rows]
  BY <1>1, <1>3 DEF Row
<1> QED BY <1>4, <1>5 DEF Stage, VmFields

LEMMA WriteStage ==
  ASSUME NEW v, NEW t, NEW registers, NEW stamps, NEW log, NEW u, NEW counted, NEW snapshot,
         Stage(v, t, registers, stamps, log, u, counted, snapshot),
         NEW offset, NEW r \in Registers, NEW value, NEW now, now = t + offset, stamps[r] < now
  PROVE  Stage(write_register_with_ts(v, offset, r, value), t, Written(registers, r, value),
               Stamp(stamps, r, now), log, u, counted, snapshot)
<1>1. PICK read : read = <<"reg", r, registers[r], stamps[r]>>
  OBVIOUS
<1>2. PICK x : x = IF r = 0 THEN 0 ELSE value
  OBVIOUS
<1>3. PICK written : written = <<"reg", r, x, now>>
  OBVIOUS
<1>4. read[4] < written[4]
  BY <1>1, <1>3
<1>5. PICK w : w = Row(v, read, written)
  OBVIOUS
<1>6. Stage(w, t, registers, stamps, log, u, counted, snapshot)
  BY <1>4, <1>5, RowStage
<1>7. write_register_with_ts(v, offset, r, value)
        = [w EXCEPT !.registers[r] = x, !.register_timestamps[r] = now]
  BY <1>1, <1>2, <1>3, <1>5 DEF write_register_with_ts, Stage
<1>8. PICK after : after = [w EXCEPT !.registers[r] = x, !.register_timestamps[r] = now]
  OBVIOUS
<1>9. /\ DOMAIN after = VmFields /\ after = [y \in DOMAIN after |-> after[y]]
      /\ after.registers = Put(registers, r, x) /\ after.register_timestamps = Stamp(stamps, r, now)
  BY <1>6, <1>8 DEF Stage, VmFields, Put, Stamp
<1>10. /\ after.timestamp = w.timestamp /\ after.log = w.log /\ after.intact = w.intact
       /\ after.rows = w.rows /\ after.counted = w.counted /\ after.snapshot = w.snapshot
  BY <1>6, <1>8 DEF Stage, VmFields
<1>11. Put(registers, r, x) = Written(registers, r, value)
  BY <1>2 DEF Written
<1>12. Stage(after, t, Written(registers, r, value), Stamp(stamps, r, now), log, u, counted,
             snapshot)
  BY <1>6, <1>9, <1>10, <1>11 DEF Stage
<1> QED BY <1>7, <1>8, <1>12

LEMMA ReadStage ==
  ASSUME NEW v, NEW t, NEW registers, NEW stamps, NEW log, NEW u, NEW counted, NEW snapshot,
         Stage(v, t, registers, stamps, log, u, counted, snapshot),
         registers \in [Registers -> Values], registers[0] = 0,
         NEW offset, NEW r \in Registers, NEW now, now = t + offset, stamps[r] < now
  PROVE  Stage(read_register_with_ts(v, offset, r), t, registers, Stamp(stamps, r, now),
               log, u, counted, snapshot)
<1>1. Written(registers, r, registers[r]) = registers
  BY DEF Written, Put
<1>2. read_register_with_ts(v, offset, r) = write_register_with_ts(v, offset, r, registers[r])
  BY DEF read_register_with_ts, Stage
<1> QED BY <1>1, <1>2, WriteStage

LEMMA PoppedStage ==
  ASSUME NEW v, NEW t, NEW registers, NEW stamps, NEW log, NEW u, NEW counted, NEW snapshot,
         Stage(v, t, registers, stamps, log, u, counted, snapshot), u < Len(log)
  PROVE  /\ Stage(Popped(v), t, registers, stamps, log, u + 1, counted, snapshot)
         /\ Entry(v) = log[u + 1] /\ log[u + 1] \in Entries
<1>1. /\ v.log # <<>> /\ Head(v.log) = log[u + 1]
      /\ Rest(Tail(v.log), log, u + 1)
      /\ log[u + 1] \in Entries
  BY RestGoesOn DEF Stage
<1>2. PICK tail : tail = Tail(v.log)
  OBVIOUS
<1>3. Popped(v) = [v EXCEPT !.log = tail]
  BY <1>1, <1>2 DEF Popped
<1>4. Stage(Popped(v), t, registers, stamps, log, u + 1, counted, snapshot)
  BY <1>1, <1>2, <1>3 DEF Stage, VmFields
<1>5. Entry(v) = log[u + 1]
  BY <1>1 DEF Entry
<1> QED BY <1>1, <1>4, <1>5

LEMMA AssertedStage ==
  ASSUME NEW v, NEW t, NEW registers, NEW stamps, NEW log, NEW u, NEW counted, NEW snapshot,
         Stage(v, t, registers, stamps, log, u, counted, snapshot), NEW condition, condition
  PROVE  Stage(Asserted(v, condition), t, registers, stamps, log, u, counted, snapshot)
BY DEF Stage, VmFields, Asserted

\* An access of a word that the log tells the old value of.
LEMMA WordStage ==
  ASSUME NEW v, NEW t, NEW registers, NEW stamps, NEW log, NEW u, NEW counted, NEW snapshot,
         Stage(v, t, registers, stamps, log, u, counted, snapshot), u < Len(log),
         NEW offset, log[u + 1][2] < t + offset, NEW address, NEW value
  PROVE  /\ Stage(read_word(v, offset, address), t, registers, stamps, log, u + 1, counted, snapshot)
         /\ Stage(write_word(v, offset, address, value), t, registers, stamps, log, u + 1, counted,
                  snapshot)
<1>0. /\ Stage(Popped(v), t, registers, stamps, log, u + 1, counted, snapshot)
      /\ Entry(v) = log[u + 1]
  BY PoppedStage
<1>1. Entry(v) = log[u + 1] /\ v.timestamp = t
  BY <1>0 DEF Stage
<1>2. ASSUME NEW x, NEW y
      PROVE  Stage(Row(Popped(v), <<"ram", address, x, Entry(v)[2]>>,
                       <<"ram", address, y, v.timestamp + offset>>),
                   t, registers, stamps, log, u + 1, counted, snapshot)
  <2>1. PICK read, written : /\ read = <<"ram", address, x, Entry(v)[2]>>
                             /\ written = <<"ram", address, y, v.timestamp + offset>>
    OBVIOUS
  <2>2. read[4] < written[4]
    BY <1>1, <2>1
  <2> QED BY <1>0, <2>1, <2>2, RowStage
<1> QED BY <1>2 DEF read_word, write_word

-----------------------------------------------------------------------------
(* The replayer between two instructions.                                  *)

\* The rows that were counted are those between two counters.
Tally(counted, from, counters) ==
  /\ counted \in [CounterType -> Nat]
  /\ \A c \in CounterType : from[c] + counted[c] = counters[c]

LEMMA TallyOn ==
  ASSUME NEW from \in [CounterType -> Nat], NEW counters \in [CounterType -> Nat], NEW counted,
         Tally(counted, from, counters), NEW type \in CounterType, NEW n \in Nat
  PROVE  /\ Tally(Plus(counted, type, n), from, Plus(counters, type, n))
         /\ Plus(counters, type, n) \in [CounterType -> Nat]
<1>1. counted \in [CounterType -> Nat] /\ \A c \in CounterType : from[c] + counted[c] = counters[c]
  BY DEF Tally
<1>2. /\ Plus(counted, type, n) \in [CounterType -> Nat]
      /\ \A c \in CounterType :
           Plus(counted, type, n)[c] = IF c = type THEN counted[c] + n ELSE counted[c]
  BY <1>1, CountersGrow
<1>3. /\ Plus(counters, type, n) \in [CounterType -> Nat]
      /\ \A c \in CounterType :
           Plus(counters, type, n)[c] = IF c = type THEN counters[c] + n ELSE counters[c]
  BY CountersGrow
<1>4. ASSUME NEW c \in CounterType
      PROVE  from[c] + Plus(counted, type, n)[c] = Plus(counters, type, n)[c]
  <2>1. from[c] \in Nat /\ counted[c] \in Nat /\ counters[c] \in Nat
    BY <1>1
  <2> QED BY <1>1, <1>2, <1>3, <2>1
<1> QED BY <1>2, <1>3, <1>4 DEF Tally

\* A replay is where a machine was.
Stands(vm, m, log, u, from, snapshot) ==
  /\ vm.pc = m.pc
  /\ Stage(vm, m.timestamp, m.registers, m.register_timestamps, log, u, vm.counted, snapshot)
  /\ Tally(vm.counted, from, m.counters)

LEMMA AdvanceStands ==
  ASSUME NEW b, NEW vm, NEW t \in Nat, NEW log, NEW v, NEW counted, NEW from, NEW snapshot,
         Stage(vm, t, b.registers, b.register_timestamps, log, v, counted, snapshot),
         NEW type \in CounterType, counted \in [CounterType -> Nat],
         Tally(Plus(counted, type, 1), from, b.counters), b.timestamp = t + 4,
         Advance(vm, b.pc, type)
  PROVE  Stands(replay', b, log, v, from, snapshot) /\ (replay'.stopped => b.pc = replay.pc)
<1>1. PICK next : next = replay'
  OBVIOUS
<1>2. PICK stopped : stopped = (b.pc = replay.pc)
  OBVIOUS
<1>3. next = [vm EXCEPT !.pc = b.pc, !.timestamp = @ + TIMESTAMP_STEP, !.stopped = stopped,
                        !.counted[type] = @ + 1]
  BY <1>1, <1>2 DEF Advance
<1>4. DOMAIN vm = VmFields /\ vm.timestamp = t /\ vm.counted = counted
  BY DEF Stage
<1>5. next.pc = b.pc /\ next.timestamp = t + 4 /\ next.stopped = stopped
  BY <1>3, <1>4 DEF VmFields, TIMESTAMP_STEP
<1>6. next.counted = Plus(counted, type, 1)
  BY <1>3, <1>4 DEF VmFields, Plus
<1>7. /\ next.registers = vm.registers /\ next.register_timestamps = vm.register_timestamps
      /\ next.log = vm.log /\ next.intact = vm.intact
      /\ next.rows = vm.rows /\ next.snapshot = vm.snapshot
  BY <1>3, <1>4 DEF VmFields
<1>8. DOMAIN next = VmFields /\ next = [x \in DOMAIN next |-> next[x]]
  BY <1>3, <1>4
<1>9. Stage(next, b.timestamp, b.registers, b.register_timestamps, log, v, next.counted, snapshot)
  BY <1>5, <1>7, <1>8 DEF Stage
<1> QED BY <1>1, <1>2, <1>5, <1>6, <1>9 DEF Stands

\* The replay has gone on from where a machine was to where it was next.
After(next, a, log, b, v, from, snapshot) ==
  Stands(next, b, log, v, from, snapshot) /\ (next.stopped => b.pc = a.pc)

\* What an instruction of one cycle and one family leads to.
LEMMA OneCycleStands ==
  ASSUME NEW a, Settled(a), NEW log, NEW u, NEW from \in [CounterType -> Nat], NEW snapshot,
         Stands(replay, a, log, u, from, snapshot),
         NEW b, NEW pc, NEW registers, NEW stamps, NEW type \in Families,
         NEW t, t = a.timestamp + 4, Is(b, pc, t, registers, stamps, Plus(a.counters, type, 1)),
         NEW vm, NEW v, Stage(vm, a.timestamp, registers, stamps, log, v, replay.counted, snapshot),
         Advance(vm, pc, type)
  PROVE  After(replay', a, log, b, v, from, snapshot)
<1>1. a.timestamp \in Nat /\ a.counters \in [CounterType -> Nat] /\ type \in CounterType
  BY SettledFields DEF CounterType
<1>2. Tally(replay.counted, from, a.counters) /\ replay.pc = a.pc
      /\ replay.counted \in [CounterType -> Nat]
  BY DEF Stands, Tally
<1>3. Tally(Plus(replay.counted, type, 1), from, Plus(a.counters, type, 1))
  BY <1>1, <1>2, TallyOn
<1>4. /\ b.pc = pc /\ b.timestamp = a.timestamp + 4 /\ b.registers = registers
      /\ b.register_timestamps = stamps /\ b.counters = Plus(a.counters, type, 1)
  BY DEF Is
<1>5. Stage(vm, a.timestamp, b.registers, b.register_timestamps, log, v, replay.counted, snapshot)
  BY <1>4
<1>6. Tally(Plus(replay.counted, type, 1), from, b.counters) /\ Advance(vm, b.pc, type)
  BY <1>3, <1>4
<1> HIDE DEF Stands, Stage, Tally, Advance
<1>7. Stands(replay', b, log, v, from, snapshot) /\ (replay'.stopped => b.pc = replay.pc)
  BY <1>1, <1>2, <1>4, <1>5, <1>6, AdvanceStands
<1> QED BY <1>2, <1>7 DEF After

\* A replay starts an instruction without rows.
LEMMA FreshStage ==
  ASSUME NEW a, NEW log, NEW u, NEW from, NEW snapshot, Stands(replay, a, log, u, from, snapshot)
  PROVE  /\ Stage(Fresh, a.timestamp, a.registers, a.register_timestamps, log, u, replay.counted,
                  snapshot)
         /\ replay.registers = a.registers /\ replay.timestamp = a.timestamp
         /\ replay.pc = a.pc
<1>1. PICK none : none = <<>> /\ Forward(none)
  BY NoRows
<1>2. Fresh = [replay EXCEPT !.rows = none]
  BY <1>1 DEF Fresh
<1> QED BY <1>1, <1>2 DEF Stands, Stage, VmFields

LEMMA TwoReads ==
  ASSUME NEW w, NEW t \in Nat, NEW registers \in [Registers -> Values], registers[0] = 0,
         NEW stamps, Behind(stamps, t), NEW log, NEW u, NEW counted, NEW snapshot,
         Stage(w, t, registers, stamps, log, u, counted, snapshot),
         NEW r1 \in Registers, NEW r2 \in Registers
  PROVE  LET v1 == read_register_with_ts(w, 0, r1)
             v2 == read_register_with_ts(v1, 1, r2)
         IN /\ Stage(v1, t, registers, Stamp(stamps, r1, t), log, u, counted, snapshot)
            /\ Stage(v2, t, registers, Stamp(Stamp(stamps, r1, t), r2, t + 1), log, u, counted,
                     snapshot)
            /\ Behind(Stamp(stamps, r1, t), t + 1)
            /\ Behind(Stamp(Stamp(stamps, r1, t), r2, t + 1), t + 2)
<1> DEFINE v1 == read_register_with_ts(w, 0, r1)
           v2 == read_register_with_ts(v1, 1, r2)
           s1 == Stamp(stamps, r1, t)
           s2 == Stamp(s1, r2, t + 1)
<1>1. stamps[r1] < t /\ t = t + 0
  BY DEF Behind
<1>2. Stage(v1, t, registers, s1, log, u, counted, snapshot)
  BY <1>1, ReadStage
<1>3. t + 1 \in Nat /\ t < t + 1 /\ t <= t + 1
  OBVIOUS
<1>4. Behind(stamps, t + 1)
  BY <1>3, LaterBehind
<1>5. Behind(s1, t + 1)
  BY <1>3, <1>4, StampBehind
<1> HIDE DEF v1, s1
<1>6. s1[r2] < t + 1
  BY <1>5 DEF Behind
<1>7. Stage(v2, t, registers, s2, log, u, counted, snapshot)
  BY <1>2, <1>6, ReadStage
<1>8. t + 2 \in Nat /\ t + 1 < t + 2 /\ t + 1 <= t + 2
  OBVIOUS
<1>9. Behind(s1, t + 2)
  BY <1>3, <1>5, <1>8, LaterBehind
<1>10. Behind(s2, t + 2)
  BY <1>3, <1>8, <1>9, StampBehind
<1> QED BY <1>2, <1>5, <1>7, <1>10 DEF v1, s1

\* Two registers are read and one is written.
LEMMA ThreeAccesses ==
  ASSUME NEW w, NEW t \in Nat, NEW registers \in [Registers -> Values], registers[0] = 0,
         NEW stamps, Behind(stamps, t), NEW log, NEW u, NEW counted, NEW snapshot,
         Stage(w, t, registers, stamps, log, u, counted, snapshot),
         NEW r1 \in Registers, NEW r2 \in Registers, NEW r3 \in Registers, NEW value
  PROVE  Stage(write_register_with_ts(
                 read_register_with_ts(read_register_with_ts(w, 0, r1), 1, r2), 2, r3, value),
               t, Written(registers, r3, value), Three(stamps, r1, r2, r3, t), log, u, counted,
               snapshot)
<1> DEFINE v1 == read_register_with_ts(w, 0, r1)
           v2 == read_register_with_ts(v1, 1, r2)
           s2 == Stamp(Stamp(stamps, r1, t), r2, t + 1)
<1>1. Stage(v2, t, registers, s2, log, u, counted, snapshot) /\ Behind(s2, t + 2)
  BY TwoReads
<1> HIDE DEF v2, s2
<1>2. s2[r3] < t + 2
  BY <1>1 DEF Behind
<1>3. Stage(write_register_with_ts(v2, 2, r3, value), t, Written(registers, r3, value),
            Stamp(s2, r3, t + 2), log, u, counted, snapshot)
  BY <1>1, <1>2, WriteStage
<1> QED BY <1>3 DEF v2, s2, Three

-----------------------------------------------------------------------------
(* The replay of an instruction goes where the machine went.               *)

LEMMA TurnByName ==
  ASSUME NEW a, NEW log, NEW u, NEW b, NEW v, Turn(program, log, a, u, b, v),
         NEW i, i = Instruction(a.pc)
  PROVE  /\ i \in InstructionType /\ Consumes(log, u, v, a.timestamp)
         /\ i.op = "add" => AddTurn(i, a, u, b, v)
         /\ i.op = "lui" => LuiTurn(i, a, u, b, v)
         /\ i.op = "jal" => JalTurn(i, a, u, b, v)
         /\ i.op = "beq" => BeqTurn(i, a, u, b, v)
         /\ i.op = "lw" => LwTurn(i, log, a, u, b, v)
         /\ i.op \in {"sw", "sb"} => StoreTurn(i, a, u, b, v)
         /\ i.op = "nd_read" => ReadTurn(i, log, a, u, b, v)
         /\ i.op = "nd_write" => WriteTurn(i, a, u, b, v)
         /\ i.op = "bigint" => BigintTurn(i, log, a, u, b, v)
         /\ i.op = "blake" => BlakeTurn(i, a, u, b, v)
<1>1. /\ i \in InstructionType /\ Consumes(log, u, v, a.timestamp)
      /\ \/ AddTurn(i, a, u, b, v) \/ LuiTurn(i, a, u, b, v) \/ JalTurn(i, a, u, b, v)
         \/ BeqTurn(i, a, u, b, v) \/ LwTurn(i, log, a, u, b, v) \/ StoreTurn(i, a, u, b, v)
         \/ ReadTurn(i, log, a, u, b, v) \/ WriteTurn(i, a, u, b, v)
         \/ BigintTurn(i, log, a, u, b, v) \/ BlakeTurn(i, a, u, b, v)
  BY DEF Turn, Instruction
<1>2. /\ AddTurn(i, a, u, b, v) => i.op = "add"
      /\ LuiTurn(i, a, u, b, v) => i.op = "lui"
      /\ JalTurn(i, a, u, b, v) => i.op = "jal"
      /\ BeqTurn(i, a, u, b, v) => i.op = "beq"
      /\ LwTurn(i, log, a, u, b, v) => i.op = "lw"
      /\ StoreTurn(i, a, u, b, v) => i.op \in {"sw", "sb"}
      /\ ReadTurn(i, log, a, u, b, v) => i.op = "nd_read"
      /\ WriteTurn(i, a, u, b, v) => i.op = "nd_write"
      /\ BigintTurn(i, log, a, u, b, v) => i.op = "bigint"
      /\ BlakeTurn(i, a, u, b, v) => i.op = "blake"
  BY DEF AddTurn, LuiTurn, JalTurn, BeqTurn, LwTurn, StoreTurn, ReadTurn, WriteTurn, BigintTurn,
         BlakeTurn, HashTurn
<1> QED BY <1>1, <1>2

Before(a, log, u, b, v, from, snapshot) ==
  /\ Settled(a) /\ from \in [CounterType -> Nat]
  /\ Stands(replay, a, log, u, from, snapshot)
  /\ Turn(program, log, a, u, b, v)

\* What is known when an instruction is replayed.
LEMMA Starts ==
  ASSUME NEW a, NEW log, NEW u, NEW b, NEW v, NEW from, NEW snapshot,
         Before(a, log, u, b, v, from, snapshot)
  PROVE  /\ replay.pc = a.pc /\ replay.registers = a.registers
         /\ Stage(Fresh, a.timestamp, a.registers, a.register_timestamps, log, u, replay.counted,
                  snapshot)
         /\ a.timestamp \in Nat /\ a.registers \in [Registers -> Values] /\ a.registers[0] = 0
         /\ Behind(a.register_timestamps, a.timestamp)
         /\ Instruction(a.pc) \in InstructionType
<1>1. Settled(a) /\ Stands(replay, a, log, u, from, snapshot) /\ Turn(program, log, a, u, b, v)
  BY DEF Before
<1>2. Instruction(a.pc) \in InstructionType
  BY <1>1 DEF Turn, Instruction
<1>3. /\ Stage(Fresh, a.timestamp, a.registers, a.register_timestamps, log, u, replay.counted,
               snapshot)
      /\ replay.registers = a.registers /\ replay.pc = a.pc
  BY <1>1, FreshStage
<1>4. /\ a.timestamp \in Nat /\ a.registers \in [Registers -> Values] /\ a.registers[0] = 0
      /\ Behind(a.register_timestamps, a.timestamp)
  BY <1>1, SettledFields
<1> QED BY <1>1, <1>2, <1>3, <1>4

\* Instructions that access three registers and no word.
LEMMA PlainReplays ==
  ASSUME NEW a, NEW log, NEW u, NEW b, NEW v, NEW from, NEW snapshot,
         Before(a, log, u, b, v, from, snapshot), v = u,
         NEW r1 \in Registers, NEW r2 \in Registers, NEW r3 \in Registers, NEW value,
         NEW type \in Families, NEW pc, Plain(a, b, r1, r2, r3, value, type, pc),
         Advance(write_register_with_ts(
                   read_register_with_ts(read_register_with_ts(Fresh, 0, r1), 1, r2), 2, r3, value),
                 pc, type)
  PROVE  After(replay', a, log, b, v, from, snapshot)
<1> DEFINE v2 == read_register_with_ts(read_register_with_ts(Fresh, 0, r1), 1, r2)
           vm == write_register_with_ts(v2, 2, r3, value)
           registers == Written(a.registers, r3, value)
           stamps == Three(a.register_timestamps, r1, r2, r3, a.timestamp)
<1>1. Stage(vm, a.timestamp, registers, stamps, log, u, replay.counted, snapshot)
  BY Starts, ThreeAccesses
<1>2. PICK t : t = a.timestamp + 4 /\ Is(b, pc, t, registers, stamps, Plus(a.counters, type, 1))
  BY DEF Plain
<1>3. Settled(a) /\ from \in [CounterType -> Nat] /\ Stands(replay, a, log, u, from, snapshot)
  BY DEF Before
<1>4. Advance(vm, pc, type)
  OBVIOUS
<1> HIDE DEF v2, vm, registers, stamps
<1>6. PICK w, rs, ss : w = vm /\ rs = registers /\ ss = stamps
  OBVIOUS
<1>7. /\ Stage(w, a.timestamp, rs, ss, log, v, replay.counted, snapshot)
      /\ Advance(w, pc, type) /\ Is(b, pc, t, rs, ss, Plus(a.counters, type, 1))
  BY <1>1, <1>2, <1>4, <1>6
<1> QED BY <1>2, <1>3, <1>7, OneCycleStands

LEMMA AddReplays ==
  ASSUME NEW a, NEW log, NEW u, NEW b, NEW v, NEW from, NEW snapshot,
         Before(a, log, u, b, v, from, snapshot), ReplayAdd
  PROVE  After(replay', a, log, b, v, from, snapshot)
<1>0. PICK i : i = Instruction(a.pc)
  OBVIOUS
<1>1. replay.pc = a.pc /\ replay.registers = a.registers /\ i \in InstructionType
  BY <1>0, Starts
<1>2. /\ i.op = "add"
      /\ Advance(write_register_with_ts(
                   read_register_with_ts(read_register_with_ts(Fresh, 0, i.rs1), 1, i.rs2), 2, i.rd,
                   Wrap(a.registers[i.rs1] + a.registers[i.rs2])),
                 a.pc + 1, "AddSubLui")
  BY <1>0, <1>1 DEF ReplayAdd, Replays
<1>3. AddTurn(i, a, u, b, v)
  BY <1>0, <1>2, TurnByName DEF Before
<1>4. v = u /\ Plain(a, b, i.rs1, i.rs2, i.rd, Wrap(a.registers[i.rs1] + a.registers[i.rs2]),
                     "AddSubLui", a.pc + 1)
  BY <1>3 DEF AddTurn
<1>5. i.rd \in Registers /\ i.rs1 \in Registers /\ i.rs2 \in Registers /\ "AddSubLui" \in Families
  BY <1>1, InstructionFields DEF Families
<1> QED BY <1>2, <1>4, <1>5, PlainReplays

LEMMA LuiReplays ==
  ASSUME NEW a, NEW log, NEW u, NEW b, NEW v, NEW from, NEW snapshot,
         Before(a, log, u, b, v, from, snapshot), ReplayLui
  PROVE  After(replay', a, log, b, v, from, snapshot)
<1>0. PICK i : i = Instruction(a.pc)
  OBVIOUS
<1>1. replay.pc = a.pc /\ i \in InstructionType
  BY <1>0, Starts
<1>2. /\ i.op = "lui"
      /\ Advance(write_register_with_ts(
                   read_register_with_ts(read_register_with_ts(Fresh, 0, 0), 1, 0), 2, i.rd, i.imm),
                 a.pc + 1, "AddSubLui")
  BY <1>0, <1>1 DEF ReplayLui, Replays, touch_x0_twice
<1>3. LuiTurn(i, a, u, b, v)
  BY <1>0, <1>2, TurnByName DEF Before
<1>4. v = u /\ Plain(a, b, 0, 0, i.rd, i.imm, "AddSubLui", a.pc + 1)
  BY <1>3 DEF LuiTurn
<1>5. i.rd \in Registers /\ 0 \in Registers /\ "AddSubLui" \in Families
  BY <1>1, InstructionFields DEF Families, Registers
<1> QED BY <1>2, <1>4, <1>5, PlainReplays

LEMMA JalReplays ==
  ASSUME NEW a, NEW log, NEW u, NEW b, NEW v, NEW from, NEW snapshot,
         Before(a, log, u, b, v, from, snapshot), ReplayJal
  PROVE  After(replay', a, log, b, v, from, snapshot)
<1>0. PICK i : i = Instruction(a.pc)
  OBVIOUS
<1>1. replay.pc = a.pc /\ i \in InstructionType
  BY <1>0, Starts
<1>2. /\ i.op = "jal"
      /\ Advance(write_register_with_ts(
                   read_register_with_ts(read_register_with_ts(Fresh, 0, 0), 1, 0), 2, i.rd,
                   Wrap(a.pc + 1)),
                 i.imm, "BranchSlt")
  BY <1>0, <1>1 DEF ReplayJal, Replays, touch_x0_twice
<1>3. JalTurn(i, a, u, b, v)
  BY <1>0, <1>2, TurnByName DEF Before
<1>4. v = u /\ Plain(a, b, 0, 0, i.rd, Wrap(a.pc + 1), "BranchSlt", i.imm)
  BY <1>3 DEF JalTurn
<1>5. i.rd \in Registers /\ 0 \in Registers /\ "BranchSlt" \in Families
  BY <1>1, InstructionFields DEF Families, Registers
<1> QED BY <1>2, <1>4, <1>5, PlainReplays

LEMMA BeqReplays ==
  ASSUME NEW a, NEW log, NEW u, NEW b, NEW v, NEW from, NEW snapshot,
         Before(a, log, u, b, v, from, snapshot), ReplayBeq
  PROVE  After(replay', a, log, b, v, from, snapshot)
<1>0. PICK i : i = Instruction(a.pc)
  OBVIOUS
<1>1. replay.pc = a.pc /\ replay.registers = a.registers /\ i \in InstructionType
  BY <1>0, Starts
<1>6. PICK pc : pc = IF a.registers[i.rs1] = a.registers[i.rs2] THEN i.imm ELSE a.pc + 1
  OBVIOUS
<1>2. /\ i.op = "beq"
      /\ Advance(write_register_with_ts(
                   read_register_with_ts(read_register_with_ts(Fresh, 0, i.rs1), 1, i.rs2), 2, 0, 0),
                 pc, "BranchSlt")
  BY <1>0, <1>1, <1>6 DEF ReplayBeq, Replays
<1>3. BeqTurn(i, a, u, b, v)
  BY <1>0, <1>2, TurnByName DEF Before
<1>4. v = u /\ Plain(a, b, i.rs1, i.rs2, 0, 0, "BranchSlt", pc)
  BY <1>3, <1>6 DEF BeqTurn
<1>5. i.rs1 \in Registers /\ i.rs2 \in Registers /\ 0 \in Registers /\ "BranchSlt" \in Families
  BY <1>1, InstructionFields DEF Families, Registers
<1> QED BY <1>2, <1>4, <1>5, PlainReplays

-----------------------------------------------------------------------------
(* Instructions that take an entry of the log, and the output of values.   *)

LEMMA WriteReplays ==
  ASSUME NEW a, NEW log, NEW u, NEW b, NEW v, NEW from, NEW snapshot,
         Before(a, log, u, b, v, from, snapshot), ReplayWriteNonDeterminism
  PROVE  After(replay', a, log, b, v, from, snapshot)
<1>0. PICK i : i = Instruction(a.pc)
  OBVIOUS
<1>1. replay.pc = a.pc /\ i \in InstructionType
  BY <1>0, Starts
<1>2. /\ i.op = "nd_write"
      /\ Advance(read_register_with_ts(
                   read_register_with_ts(read_register_with_ts(Fresh, 0, i.rs1), 1, 0), 2, 0),
                 a.pc + 1, "ShiftBinaryCsr")
  BY <1>0, <1>1 DEF ReplayWriteNonDeterminism, Replays
<1>3. WriteTurn(i, a, u, b, v)
  BY <1>0, <1>2, TurnByName DEF Before
<1>4. v = u /\ Plain(a, b, i.rs1, 0, 0, 0, "ShiftBinaryCsr", a.pc + 1)
  BY <1>3 DEF WriteTurn
<1>5. i.rs1 \in Registers /\ 0 \in Registers /\ "ShiftBinaryCsr" \in Families
  BY <1>1, InstructionFields DEF Families, Registers
<1>6. PICK t \in Nat : t = a.timestamp
  BY Starts
<1>7. PICK s, rs : s = a.register_timestamps /\ rs = a.registers
  OBVIOUS
<1>8. /\ Stage(Fresh, t, rs, s, log, u, replay.counted, snapshot)
      /\ rs \in [Registers -> Values] /\ rs[0] = 0 /\ Behind(s, t)
  BY <1>6, <1>7, Starts
<1>9. PICK v2, s2 : /\ v2 = read_register_with_ts(read_register_with_ts(Fresh, 0, i.rs1), 1, 0)
                    /\ s2 = Stamp(Stamp(s, i.rs1, t), 0, t + 1)
  OBVIOUS
<1>10. Stage(v2, t, rs, s2, log, u, replay.counted, snapshot) /\ Behind(s2, t + 2)
  BY <1>5, <1>8, <1>9, TwoReads
<1>11. PICK vm, ss : vm = read_register_with_ts(v2, 2, 0) /\ ss = Stamp(s2, 0, t + 2)
  OBVIOUS
<1>12. Stage(vm, t, rs, ss, log, u, replay.counted, snapshot)
  <2>1. s2[0] < t + 2
    BY <1>5, <1>10 DEF Behind
  <2> QED BY <1>5, <1>8, <1>10, <1>11, <2>1, ReadStage
<1>13. Written(rs, 0, 0) = rs
  BY <1>8, PutZero
<1>14. PICK t4 : /\ t4 = a.timestamp + 4
                 /\ Is(b, a.pc + 1, t4, rs, ss, Plus(a.counters, "ShiftBinaryCsr", 1))
  BY <1>4, <1>6, <1>7, <1>9, <1>11, <1>13 DEF Plain, Three
<1>15. Settled(a) /\ from \in [CounterType -> Nat] /\ Stands(replay, a, log, u, from, snapshot)
  BY DEF Before
<1>16. Stage(vm, a.timestamp, rs, ss, log, v, replay.counted, snapshot)
  BY <1>4, <1>6, <1>12
<1>17. Advance(vm, a.pc + 1, "ShiftBinaryCsr")
  BY <1>2, <1>9, <1>11
<1> QED BY <1>5, <1>14, <1>15, <1>16, <1>17, OneCycleStands

\* The entry that an instruction of one entry takes.
LEMMA NextEntry ==
  ASSUME NEW a, NEW log, NEW u, NEW b, NEW v, NEW from, NEW snapshot,
         Before(a, log, u, b, v, from, snapshot), v = u + 1
  PROVE  u \in Nat /\ u < Len(log) /\ log[u + 1][2] < a.timestamp
<1>1. Consumes(log, u, v, a.timestamp)
  BY TurnByName DEF Before
<1>2. u \in Nat /\ Len(log) \in Nat
  BY DEF Before, Stands, Stage, Rest, Logs
<1>3. u + 1 \in (u + 1)..v
  BY <1>2
<1> QED BY <1>1, <1>2, <1>3 DEF Consumes

LEMMA LwReplays ==
  ASSUME NEW a, NEW log, NEW u, NEW b, NEW v, NEW from, NEW snapshot,
         Before(a, log, u, b, v, from, snapshot), ReplayLw
  PROVE  After(replay', a, log, b, v, from, snapshot)
<1>0. PICK i : i = Instruction(a.pc)
  OBVIOUS
<1>1. replay.pc = a.pc /\ replay.registers = a.registers /\ i \in InstructionType
  BY <1>0, Starts
<1>2. PICK v1 : v1 = read_register_with_ts(Fresh, 0, i.rs1)
  OBVIOUS
<1>3. PICK v2 : v2 = read_word(v1, 1, a.registers[i.rs1])
  OBVIOUS
<1>4. i.op = "lw" /\ Advance(write_register_with_ts(v2, 2, i.rd, Entry(v1)[1]), a.pc + 1, "MemWord")
  BY <1>0, <1>1, <1>2, <1>3 DEF ReplayLw, Replays
<1>5. LwTurn(i, log, a, u, b, v)
  BY <1>0, <1>4, TurnByName DEF Before
<1>6. v = u + 1 /\ i.rd \in Registers /\ i.rs1 \in Registers /\ "MemWord" \in Families
  BY <1>1, <1>5, InstructionFields DEF Families, LwTurn
<1>7. u \in Nat /\ u < Len(log) /\ log[u + 1][2] < a.timestamp
  BY <1>6, NextEntry
<1>8. PICK t \in Nat : t = a.timestamp
  BY Starts
<1>9. PICK s : s = a.register_timestamps
  OBVIOUS
<1>10. /\ Stage(Fresh, t, a.registers, s, log, u, replay.counted, snapshot)
       /\ a.registers \in [Registers -> Values] /\ a.registers[0] = 0 /\ Behind(s, t)
  BY <1>8, <1>9, Starts
<1>11. /\ Stage(v1, t, a.registers, Stamp(s, i.rs1, t), log, u, replay.counted, snapshot)
       /\ Behind(Stamp(s, i.rs1, t), t + 1)
  <2>1. PICK r : r = i.rs1 /\ r \in Registers
    BY <1>6
  <2>2. s[r] < t + 0 /\ t + 0 = t
    BY <1>10, <2>1 DEF Behind
  <2>3. Stage(v1, t, a.registers, Stamp(s, r, t), log, u, replay.counted, snapshot)
    BY <1>2, <1>10, <2>1, <2>2, ReadStage
  <2>4. t + 1 \in Nat /\ t < t + 1 /\ t <= t + 1
    OBVIOUS
  <2>5. Behind(s, t + 1)
    BY <1>10, <2>4, LaterBehind
  <2>6. Behind(Stamp(s, r, t), t + 1)
    BY <2>4, <2>5, StampBehind
  <2> QED BY <2>1, <2>3, <2>6
<1>12. log[u + 1][2] < t + 1
  <2>1. log[u + 1] \in Entries
    BY <1>7, <1>11, PoppedStage
  <2>2. log[u + 1][2] \in Nat
    BY <2>1 DEF Entries
  <2> QED BY <1>7, <1>8, <2>2
<1>13. Stage(v2, t, a.registers, Stamp(s, i.rs1, t), log, u + 1, replay.counted, snapshot)
  BY <1>3, <1>7, <1>11, <1>12, WordStage
<1>14. Entry(v1) = log[u + 1]
  <2>1. /\ Stage(Popped(v1), t, a.registers, Stamp(s, i.rs1, t), log, u + 1, replay.counted, snapshot)
        /\ Entry(v1) = log[u + 1]
    BY <1>7, <1>11, PoppedStage
  <2> QED BY <2>1
<1>15. PICK vm : vm = write_register_with_ts(v2, 2, i.rd, log[u + 1][1])
  OBVIOUS
<1>16. PICK ss : ss = Stamp(Stamp(s, i.rs1, t), i.rd, t + 2)
  OBVIOUS
<1>17. PICK rs : rs = Written(a.registers, i.rd, log[u + 1][1])
  OBVIOUS
<1>18. Stage(vm, t, rs, ss, log, v, replay.counted, snapshot)
  <2>1. PICK s1 : s1 = Stamp(s, i.rs1, t)
    OBVIOUS
  <2>2. s1[i.rd] < t + 2
    <3>1. s1[i.rd] \in Nat /\ s1[i.rd] < t + 1
      BY <1>6, <1>11, <2>1 DEF Behind
    <3> QED BY <3>1
  <2> QED BY <1>6, <1>13, <1>15, <1>16, <1>17, <2>1, <2>2, WriteStage
<1>19. PICK t4 : t4 = a.timestamp + 4 /\ Is(b, a.pc + 1, t4, rs, ss, Plus(a.counters, "MemWord", 1))
  BY <1>5, <1>8, <1>9, <1>16, <1>17 DEF LwTurn
<1>20. Advance(vm, a.pc + 1, "MemWord")
  BY <1>4, <1>14, <1>15
<1>21. Settled(a) /\ from \in [CounterType -> Nat] /\ Stands(replay, a, log, u, from, snapshot)
  BY DEF Before
<1>22. Stage(vm, a.timestamp, rs, ss, log, v, replay.counted, snapshot)
  BY <1>8, <1>18
<1> QED BY <1>6, <1>19, <1>20, <1>21, <1>22, OneCycleStands

LEMMA StoreReplays ==
  ASSUME NEW a, NEW log, NEW u, NEW b, NEW v, NEW from, NEW snapshot,
         Before(a, log, u, b, v, from, snapshot), ReplayStore
  PROVE  After(replay', a, log, b, v, from, snapshot)
<1>0. PICK i : i = Instruction(a.pc)
  OBVIOUS
<1>1. replay.pc = a.pc /\ replay.registers = a.registers /\ i \in InstructionType
  BY <1>0, Starts
<1>2. PICK v2 : v2 = read_register_with_ts(read_register_with_ts(Fresh, 0, i.rs1), 1, i.rs2)
  OBVIOUS
<1>3. PICK type : type = IF i.op = "sw" THEN "MemWord" ELSE "MemSubword"
  OBVIOUS
<1>4. PICK vm : /\ \E new_value : vm = write_word(v2, 2, a.registers[i.rs1], new_value)
                /\ Advance(vm, a.pc + 1, type)
  BY <1>0, <1>1, <1>2, <1>3 DEF ReplayStore, Replays
<1>5. StoreTurn(i, a, u, b, v)
  <2>1. i.op \in {"sw", "sb"}
    BY <1>0, <1>1 DEF ReplayStore, Replays
  <2> QED BY <1>0, <2>1, TurnByName DEF Before
<1>6. v = u + 1 /\ i.rs1 \in Registers /\ i.rs2 \in Registers /\ type \in Families
  BY <1>1, <1>3, <1>5, InstructionFields DEF Families, StoreTurn
<1>7. u \in Nat /\ u < Len(log) /\ log[u + 1][2] < a.timestamp
  BY <1>6, NextEntry
<1>8. PICK t \in Nat : t = a.timestamp
  BY Starts
<1>9. PICK s : s = a.register_timestamps
  OBVIOUS
<1>10. /\ Stage(Fresh, t, a.registers, s, log, u, replay.counted, snapshot)
       /\ a.registers \in [Registers -> Values] /\ a.registers[0] = 0 /\ Behind(s, t)
  BY <1>8, <1>9, Starts
<1>11. PICK ss : ss = Stamp(Stamp(s, i.rs1, t), i.rs2, t + 1)
  OBVIOUS
<1>12. Stage(v2, t, a.registers, ss, log, u, replay.counted, snapshot)
  BY <1>2, <1>6, <1>10, <1>11, TwoReads
<1>13. log[u + 1][2] < t + 2
  <2>1. log[u + 1] \in Entries
    BY <1>7, <1>12, PoppedStage
  <2>2. log[u + 1][2] \in Nat
    BY <2>1 DEF Entries
  <2> QED BY <1>7, <1>8, <2>2
<1>14. Stage(vm, t, a.registers, ss, log, u + 1, replay.counted, snapshot)
  BY <1>4, <1>7, <1>12, <1>13, WordStage
<1>15. PICK rs : rs = a.registers
  OBVIOUS
<1>16. PICK t4 : t4 = a.timestamp + 4 /\ Is(b, a.pc + 1, t4, rs, ss, Plus(a.counters, type, 1))
  BY <1>3, <1>5, <1>8, <1>9, <1>11, <1>15 DEF StoreTurn
<1>17. Settled(a) /\ from \in [CounterType -> Nat] /\ Stands(replay, a, log, u, from, snapshot)
  BY DEF Before
<1>18. Stage(vm, a.timestamp, rs, ss, log, v, replay.counted, snapshot)
  BY <1>6, <1>8, <1>14, <1>15
<1> QED BY <1>4, <1>6, <1>16, <1>17, <1>18, OneCycleStands

LEMMA ReadReplays ==
  ASSUME NEW a, NEW log, NEW u, NEW b, NEW v, NEW from, NEW snapshot,
         Before(a, log, u, b, v, from, snapshot), ReplayReadNonDeterminism
  PROVE  After(replay', a, log, b, v, from, snapshot)
<1>0. PICK i : i = Instruction(a.pc)
  OBVIOUS
<1>1. replay.pc = a.pc /\ i \in InstructionType
  BY <1>0, Starts
<1>2. PICK v1 : v1 = read_register_with_ts(read_register_with_ts(Fresh, 0, 0), 1, 0)
  OBVIOUS
<1>4. /\ i.op = "nd_read"
      /\ Advance(write_register_with_ts(Popped(Asserted(v1, Entry(replay)[2] = 0)), 2, i.rd,
                                        Entry(replay)[1]),
                 a.pc + 1, "ShiftBinaryCsr")
  BY <1>0, <1>1, <1>2 DEF ReplayReadNonDeterminism, Replays, touch_x0_twice
<1>5. ReadTurn(i, log, a, u, b, v)
  BY <1>0, <1>4, TurnByName DEF Before
<1>6. /\ v = u + 1 /\ i.rd \in Registers /\ 0 \in Registers /\ "ShiftBinaryCsr" \in Families
      /\ log[u + 1][2] = 0
  BY <1>1, <1>5, InstructionFields DEF Families, Registers, ReadTurn
<1>7. u \in Nat /\ u < Len(log)
  BY <1>6, NextEntry
<1>8. PICK t \in Nat : t = a.timestamp
  BY Starts
<1>9. PICK s : s = a.register_timestamps
  OBVIOUS
<1>10. /\ Stage(Fresh, t, a.registers, s, log, u, replay.counted, snapshot)
       /\ a.registers \in [Registers -> Values] /\ a.registers[0] = 0 /\ Behind(s, t)
  BY <1>8, <1>9, Starts
<1>11. PICK s2 : s2 = Stamp(Stamp(s, 0, t), 0, t + 1)
  OBVIOUS
<1>12. Stage(v1, t, a.registers, s2, log, u, replay.counted, snapshot) /\ Behind(s2, t + 2)
  BY <1>2, <1>6, <1>10, <1>11, TwoReads
<1>13. Entry(replay) = log[u + 1]
  <2>1. /\ Stage(replay, a.timestamp, a.registers, a.register_timestamps, log, u, replay.counted,
                 snapshot)
    BY DEF Before, Stands
  <2>2. /\ Stage(Popped(replay), a.timestamp, a.registers, a.register_timestamps, log, u + 1,
                 replay.counted, snapshot)
        /\ Entry(replay) = log[u + 1]
    BY <1>7, <2>1, PoppedStage
  <2> QED BY <2>2
<1>14. PICK condition : condition = (Entry(replay)[2] = 0) /\ condition
  BY <1>6, <1>13
<1>15. PICK va : va = Asserted(v1, condition)
  OBVIOUS
<1>16. Stage(va, t, a.registers, s2, log, u, replay.counted, snapshot)
  BY <1>12, <1>14, <1>15, AssertedStage
<1>17. PICK vp : vp = Popped(va)
  OBVIOUS
<1>18. Stage(vp, t, a.registers, s2, log, u + 1, replay.counted, snapshot)
  BY <1>7, <1>16, <1>17, PoppedStage
<1>19. PICK vm : vm = write_register_with_ts(vp, 2, i.rd, log[u + 1][1])
  OBVIOUS
<1>20. Advance(vm, a.pc + 1, "ShiftBinaryCsr")
  BY <1>4, <1>13, <1>14, <1>15, <1>17, <1>19
<1>21. PICK rs : rs = Written(a.registers, i.rd, log[u + 1][1])
  OBVIOUS
<1>22. PICK ss : ss = Stamp(s2, i.rd, t + 2)
  OBVIOUS
<1>23. Stage(vm, t, rs, ss, log, v, replay.counted, snapshot)
  <2>1. s2[i.rd] < t + 2
    BY <1>6, <1>12 DEF Behind
  <2> QED BY <1>6, <1>18, <1>19, <1>21, <1>22, <2>1, WriteStage
<1>24. PICK t4 : /\ t4 = a.timestamp + 4
                 /\ Is(b, a.pc + 1, t4, rs, ss, Plus(a.counters, "ShiftBinaryCsr", 1))
  BY <1>5, <1>8, <1>9, <1>11, <1>21, <1>22 DEF ReadTurn, Plain, Three
<1>25. Settled(a) /\ from \in [CounterType -> Nat] /\ Stands(replay, a, log, u, from, snapshot)
  BY DEF Before
<1>26. Stage(vm, a.timestamp, rs, ss, log, v, replay.counted, snapshot)
  BY <1>8, <1>23
<1> QED BY <1>6, <1>20, <1>24, <1>25, <1>26, OneCycleStands

-----------------------------------------------------------------------------
(* The replay of a call.                                                   *)

LEMMA RegistersOfACall ==
  /\ 0 \in Registers /\ 1 \in Registers /\ 2 \in Registers /\ 3 \in Registers
  /\ \A r \in Registers : r \in {0, 1, 2, 3}
BY DEF Registers

\* The row of a marker instruction and the pointers of the call.
LEMMA PointersStage ==
  ASSUME NEW w, NEW t \in Nat, NEW registers \in [Registers -> Values], registers[0] = 0,
         NEW stamps, Behind(stamps, t), NEW log, NEW u, NEW counted, NEW snapshot,
         Stage(w, t, registers, stamps, log, u, counted, snapshot)
  PROVE  LET s0 == Stamp(stamps, 0, t + 2)
             s2 == Stamp(Stamp(s0, 1, t + 3), 2, t + 3)
         IN /\ Stage(read_register_with_ts(read_register_with_ts(Marker(w), 3, 1), 3, 2),
                     t, registers, s2, log, u, counted, snapshot)
            /\ s2[3] < t + 3
<1> DEFINE v2 == read_register_with_ts(read_register_with_ts(w, 0, 0), 1, 0)
           z2 == Stamp(Stamp(stamps, 0, t), 0, t + 1)
           v3 == read_register_with_ts(v2, 2, 0)
           s0 == Stamp(stamps, 0, t + 2)
           v4 == read_register_with_ts(v3, 3, 1)
           s1 == Stamp(s0, 1, t + 3)
           v5 == read_register_with_ts(v4, 3, 2)
           s2 == Stamp(s1, 2, t + 3)
<1>1. Stage(v2, t, registers, z2, log, u, counted, snapshot) /\ Behind(z2, t + 2)
  BY TwoReads, RegistersOfACall
<1>2. stamps \in [Registers -> Nat] /\ \A r \in Registers : stamps[r] < t
  BY DEF Behind
<1>3. Stamp(z2, 0, t + 2) = s0
  BY <1>2 DEF Stamp
<1>4. v3 = read_register_with_ts(touch_x0_twice(w), 2, 0) /\ v3 = Marker(w)
  BY DEF touch_x0_twice, Marker
<1> HIDE DEF v2
<1>5. z2[0] < t + 2
  BY <1>1, RegistersOfACall DEF Behind
<1> HIDE DEF z2
<1>6. Stage(v3, t, registers, s0, log, u, counted, snapshot)
  <2>1. Stage(v3, t, registers, Stamp(z2, 0, t + 2), log, u, counted, snapshot)
    BY <1>1, <1>5, RegistersOfACall, ReadStage
  <2> QED BY <1>3, <2>1
<1> HIDE DEF v3
<1>7. s0[1] < t + 3 /\ s1[2] < t + 3 /\ s2[3] < t + 3
  <2>1. stamps[1] < t /\ stamps[2] < t /\ stamps[3] < t
    BY <1>2, RegistersOfACall
  <2>2. stamps[1] \in Nat /\ stamps[2] \in Nat /\ stamps[3] \in Nat
    BY <1>2, RegistersOfACall
  <2>3. stamps[1] < t + 3 /\ stamps[2] < t + 3 /\ stamps[3] < t + 3
    BY <2>1, <2>2
  <2>4. s0[1] = stamps[1] /\ s1[2] = stamps[2] /\ s2[3] = stamps[3]
    BY <1>2, RegistersOfACall DEF Stamp
  <2> QED BY <2>3, <2>4
<1> HIDE DEF s0
<1>8. Stage(v4, t, registers, s1, log, u, counted, snapshot)
  BY <1>6, <1>7, RegistersOfACall, ReadStage
<1> HIDE DEF v4, s1
<1>9. Stage(v5, t, registers, s2, log, u, counted, snapshot)
  BY <1>7, <1>8, RegistersOfACall, ReadStage
<1> QED BY <1>4, <1>7, <1>9 DEF s0, s1, v4

\* The stamps that a call leaves.
LEMMA CallStamps ==
  ASSUME NEW stamps \in [Registers -> Nat], NEW t \in Nat
  PROVE  Stamp(Stamp(Stamp(Stamp(stamps, 0, t + 2), 1, t + 3), 2, t + 3), 3, t + 3)
           = AbiStamps(Stamp(stamps, 0, t + 2), t + 3)
<1> DEFINE s1 == Stamp(stamps, 0, t + 2)
           s2 == Stamp(Stamp(Stamp(s1, 1, t + 3), 2, t + 3), 3, t + 3)
<1>0. PICK x \in Nat : x = t + 2
  OBVIOUS
<1>1. s1 \in [Registers -> Nat]
  BY <1>0 DEF Stamp
<1> HIDE DEF s1
<1>2. \A r \in Registers : s2[r] = IF r = 0 THEN s1[r] ELSE t + 3
  BY <1>1, RegistersOfACall DEF Stamp
<1>3. s2 = [r \in Registers |-> s2[r]]
  BY <1>1 DEF Stamp
<1> HIDE DEF s2
<1> QED BY <1>2, <1>3 DEF AbiStamps, s2, s1

LEMMA BigintReplays ==
  ASSUME NEW a, NEW log, NEW u, NEW b, NEW v, NEW from, NEW snapshot,
         Before(a, log, u, b, v, from, snapshot), ReplayBigint
  PROVE  After(replay', a, log, b, v, from, snapshot)
<1>0. PICK i : i = Instruction(a.pc)
  OBVIOUS
<1>1. replay.pc = a.pc /\ replay.registers = a.registers /\ i \in InstructionType
  BY <1>0, Starts
<1>2. PICK v1 : v1 = read_register_with_ts(read_register_with_ts(Marker(Fresh), 3, 1), 3, 2)
  OBVIOUS
<1>3. PICK v2 : v2 = read_word(v1, 3, a.registers[2])
  OBVIOUS
<1>4. PICK result : result = bigint_impl(Entry(v2)[1], Entry(v1)[1])
  OBVIOUS
<1>5. PICK v3 : v3 = write_word(v2, 3, a.registers[1], result[1])
  OBVIOUS
<1>6. PICK v4 : v4 = Popped(Asserted(v3, Entry(v3) = <<result[2], 0>>))
  OBVIOUS
<1>7. PICK v5 : v5 = write_register_with_ts(v4, 3, 3, result[2])
  OBVIOUS
<1>8. PICK vm : vm = [v5 EXCEPT !.counted["BigintDelegation"] = @ + 1]
  OBVIOUS
<1>9. i.op = "bigint" /\ Advance(vm, a.pc + 1, "ShiftBinaryCsr")
  <2>1. i.op = "bigint"
    BY <1>0, <1>1 DEF ReplayBigint, Replays
  <2>2. PICK x, y : x = replay.registers[1] /\ y = replay.registers[2]
    OBVIOUS
  <2>3. /\ v2 = read_word(v1, 3, y) /\ v3 = write_word(v2, 3, x, result[1])
        /\ replay.pc = a.pc
    BY <1>0, <1>1, <1>3, <1>5, <2>2
  <2>4. Advance([write_register_with_ts(v4, 3, 3, result[2]) EXCEPT !.counted["BigintDelegation"] = @ + 1],
                replay.pc + 1, "ShiftBinaryCsr")
    BY ONLY ReplayBigint, <1>2, <1>4, <1>6, <2>2, <2>3 DEF ReplayBigint
  <2> QED BY ONLY <1>7, <1>8, <2>1, <2>3, <2>4
<1>10. BigintTurn(i, log, a, u, b, v)
  BY <1>0, <1>9, TurnByName DEF Before
<1>11. Consumes(log, u, v, a.timestamp) /\ u \in Nat /\ Len(log) \in Nat
  <2>1. Consumes(log, u, v, a.timestamp)
    BY TurnByName DEF Before
  <2>2. u \in Nat /\ Len(log) \in Nat
    BY DEF Before, Stands, Stage, Rest, Logs
  <2> QED BY <2>1, <2>2
<1>12. v = u + 3 /\ log[u + 3] = <<Carry(log, u), 0>>
  BY <1>10 DEF BigintTurn
<1>13. PICK t \in Nat : t = a.timestamp
  BY Starts
<1>14. PICK s, rs, c : s = a.register_timestamps /\ rs = a.registers /\ c = replay.counted
  OBVIOUS
<1>15. /\ Stage(Fresh, t, rs, s, log, u, c, snapshot)
       /\ rs \in [Registers -> Values] /\ rs[0] = 0 /\ Behind(s, t)
  BY <1>13, <1>14, Starts
<1>16. PICK s2 : s2 = Stamp(Stamp(Stamp(s, 0, t + 2), 1, t + 3), 2, t + 3)
  OBVIOUS
<1>17. Stage(v1, t, rs, s2, log, u, c, snapshot) /\ s2[3] < t + 3
  BY <1>2, <1>15, <1>16, PointersStage
<1>18. PICK u1, u2 \in Nat : u1 = u + 1 /\ u2 = u + 2
  BY <1>11
<1>19. u < Len(log) /\ u1 < Len(log) /\ u2 < Len(log)
       /\ u + 1 = u1 /\ u1 + 1 = u2 /\ u2 + 1 = v
  BY <1>11, <1>12, <1>18 DEF Consumes
<1>20. log[u1][2] < t + 3 /\ log[u2][2] < t + 3
  <2>1. log[u1][2] < t /\ log[u2][2] < t
    <3>1. u1 \in (u + 1)..v /\ u2 \in (u + 1)..v
      BY <1>11, <1>12, <1>18
    <3> QED BY <1>11, <1>13, <3>1 DEF Consumes
  <2>2. log \in Seq(Entries)
    BY <1>17 DEF Stage, Rest, Logs, Entries
  <2>3. u1 \in 1..Len(log) /\ u2 \in 1..Len(log)
    BY <1>11, <1>18, <1>19
  <2>4. log[u1] \in Entries /\ log[u2] \in Entries
    BY <2>2, <2>3
  <2>5. log[u1][2] \in Nat /\ log[u2][2] \in Nat
    BY <2>4 DEF Entries
  <2> QED BY <2>1, <2>5
<1>21. Stage(v2, t, rs, s2, log, u1, c, snapshot) /\ Entry(v1) = log[u1]
  <2>1. /\ Stage(Popped(v1), t, rs, s2, log, u + 1, c, snapshot)
        /\ Entry(v1) = log[u + 1]
    BY <1>17, <1>19, PoppedStage
  <2>2. log[u + 1][2] < t + 3
    BY <1>18, <1>20
  <2>3. Stage(v2, t, rs, s2, log, u + 1, c, snapshot)
    BY <1>3, <1>17, <1>19, <2>2, WordStage
  <2> QED BY <1>18, <2>1, <2>3
<1>22. Stage(v3, t, rs, s2, log, u2, c, snapshot) /\ Entry(v2) = log[u2]
  <2>1. /\ Stage(Popped(v2), t, rs, s2, log, u1 + 1, c, snapshot)
        /\ Entry(v2) = log[u1 + 1]
    BY <1>19, <1>21, PoppedStage
  <2>2. log[u1 + 1][2] < t + 3
    BY <1>19, <1>20
  <2>3. Stage(v3, t, rs, s2, log, u1 + 1, c, snapshot)
    BY <1>5, <1>19, <1>21, <2>2, WordStage
  <2> QED BY <1>19, <2>1, <2>3
<1>23. result[2] = Carry(log, u)
  BY <1>4, <1>18, <1>21, <1>22 DEF Carry
<1>24. Entry(v3) = log[u + 3]
  <2>1. /\ Stage(Popped(v3), t, rs, s2, log, u2 + 1, c, snapshot)
        /\ Entry(v3) = log[u2 + 1]
    BY <1>19, <1>22, PoppedStage
  <2> QED BY <1>12, <1>19, <2>1
<1>25. PICK condition : condition = (Entry(v3) = <<result[2], 0>>) /\ condition
  BY <1>12, <1>23, <1>24
<1>26. PICK va : va = Asserted(v3, condition)
  OBVIOUS
<1>27. Stage(va, t, rs, s2, log, u2, c, snapshot)
  BY <1>22, <1>25, <1>26, AssertedStage
<1>28. v4 = Popped(va)
  BY <1>6, <1>25, <1>26
<1>29. Stage(v4, t, rs, s2, log, v, c, snapshot)
  <2>1. /\ Stage(Popped(va), t, rs, s2, log, u2 + 1, c, snapshot)
        /\ Entry(va) = log[u2 + 1]
    BY <1>19, <1>27, PoppedStage
  <2> QED BY <1>19, <1>28, <2>1
<1>30. PICK s3, rs3 : s3 = Stamp(s2, 3, t + 3) /\ rs3 = Written(rs, 3, result[2])
  OBVIOUS
<1>31. Stage(v5, t, rs3, s3, log, v, c, snapshot)
  BY <1>7, <1>17, <1>29, <1>30, RegistersOfACall, WriteStage
<1>32. PICK c2 : c2 = Plus(c, "BigintDelegation", 1)
  OBVIOUS
<1>33. Stage(vm, t, rs3, s3, log, v, c2, snapshot)
  BY <1>8, <1>31, <1>32 DEF Stage, VmFields, Plus
<1>34. s3 = AbiStamps(Stamp(s, 0, t + 2), t + 3)
  BY <1>15, <1>16, <1>30, CallStamps DEF Behind
<1>35. rs3 = Put(rs, 3, Carry(log, u))
  BY <1>23, <1>30 DEF Written
<1>36. /\ b.pc = a.pc + 1 /\ b.timestamp = t + 4 /\ b.registers = rs3
       /\ b.register_timestamps = s3
       /\ b.counters = Plus(Plus(a.counters, "BigintDelegation", 1), "ShiftBinaryCsr", 1)
  BY <1>10, <1>13, <1>14, <1>34, <1>35 DEF BigintTurn, Is
<1>37. "BigintDelegation" \in CounterType /\ "ShiftBinaryCsr" \in CounterType /\ 1 \in Nat
  BY DEF CounterType, Families
<1>38. /\ Settled(a) /\ from \in [CounterType -> Nat] /\ a.counters \in [CounterType -> Nat]
       /\ Tally(c, from, a.counters) /\ c \in [CounterType -> Nat]
  BY <1>14, SettledFields DEF Before, Stands, Tally
<1>39. PICK k2 : k2 = Plus(a.counters, "BigintDelegation", 1)
  OBVIOUS
<1>40. Tally(c2, from, k2) /\ k2 \in [CounterType -> Nat]
  BY <1>32, <1>37, <1>38, <1>39, TallyOn
<1>41. Tally(Plus(c2, "ShiftBinaryCsr", 1), from, b.counters)
  <2>1. /\ Tally(Plus(c2, "ShiftBinaryCsr", 1), from, Plus(k2, "ShiftBinaryCsr", 1))
        /\ Plus(k2, "ShiftBinaryCsr", 1) \in [CounterType -> Nat]
    BY <1>37, <1>38, <1>40, TallyOn
  <2> QED BY <1>36, <1>39, <2>1
<1>42. c2 \in [CounterType -> Nat] /\ Advance(vm, b.pc, "ShiftBinaryCsr")
  BY <1>9, <1>36, <1>40 DEF Tally
<1>43. Stage(vm, t, b.registers, b.register_timestamps, log, v, c2, snapshot)
  BY <1>33, <1>36
<1>44. Stands(replay', b, log, v, from, snapshot) /\ (replay'.stopped => b.pc = replay.pc)
  BY <1>36, <1>37, <1>41, <1>42, <1>43, AdvanceStands
<1> QED BY <1>1, <1>44 DEF After

-----------------------------------------------------------------------------
(* The replay of the rounds of a hash.                                     *)

Renewed(vm, address, old, old_ts, new) ==
  Row(vm, <<"ram", address, old, old_ts>>, <<"ram", address, new, vm.timestamp + 3>>)

\* The control word that a replayed hash starts with.
ControlWord == replay.registers[3]

\* A round, on a state at a and an input at b.
HashRound(vm, n, mixed, a, b, word, input) ==
  LET v1 == read_register_with_ts(read_register_with_ts(Marker(vm), 3, 1), 3, 2)
      v2 == write_register_with_ts(v1, 3, 3, Control(ControlWord, n))
      before == vm.timestamp - TIMESTAMP_STEP + 3
      v3 == Renewed(v2, a, mixed[n - 1], IF n = 1 THEN word[2] ELSE before, mixed[n])
  IN Renewed(v3, b, input[1], IF n = 1 THEN input[2] ELSE before, input[1])

NextTs(vm) == [vm EXCEPT !.timestamp = @ + TIMESTAMP_STEP]

\* The replayer after n rounds, given what it was after fewer.
AfterRounds(f, begun, n, mixed, a, b, word, input) ==
  IF n = 1 THEN HashRound(begun, 1, mixed, a, b, word, input)
           ELSE HashRound(NextTs(f[n - 1]), n, mixed, a, b, word, input)

SolvesRounds(f, begun, mixed, a, b, word, input) ==
  f = [n \in 1..Rounds |-> AfterRounds(f, begun, n, mixed, a, b, word, input)]

\* The equation that defines the rounds of a replay has a solution.
LEMMA RoundsExist ==
  ASSUME NEW begun, NEW mixed, NEW a, NEW b, NEW word, NEW input
  PROVE  \E f : SolvesRounds(f, begun, mixed, a, b, word, input)
<1> DEFINE Given(f, n) == AfterRounds(f, begun, n, mixed, a, b, word, input)
           Solves(f, m) == \A n \in 1..m : f[n] = Given(f, n)
           Solvable(m) == \E f : Solves(f, m)
           T == {m \in Nat : ~Solvable(m)}
<1>1. Solvable(0)
  <2>1. \A f : Solves(f, 0)
    OBVIOUS
  <2> QED BY <2>1
<1>2. ASSUME NEW m \in Nat, Solvable(m)
      PROVE  Solvable(m + 1)
  <2>1. PICK f : Solves(f, m)
    BY <1>2
  <2>2. PICK h : h = [n \in 1..(m + 1) |-> IF n = m + 1 THEN Given(f, n) ELSE f[n]]
    OBVIOUS
  <2>3. ASSUME NEW n \in 1..(m + 1)
        PROVE  h[n] = Given(h, n)
    <3>1. Given(h, n) = Given(f, n)
      <4>1. CASE n = 1
        BY <4>1 DEF AfterRounds
      <4>2. CASE n # 1
        <5>1. n - 1 \in 1..(m + 1) /\ n - 1 # m + 1
          BY <4>2
        <5>2. h[n - 1] = f[n - 1]
          BY <2>2, <5>1
        <5> QED BY <4>2, <5>2 DEF AfterRounds
      <4> QED BY <4>1, <4>2
    <3> HIDE DEF Given
    <3>2. CASE n = m + 1
      BY <2>2, <3>1, <3>2
    <3>3. CASE n # m + 1
      <4>1. n \in 1..m /\ h[n] = f[n]
        BY <2>2, <3>3
      <4> QED BY <2>1, <3>1, <4>1
    <3> QED BY <3>2, <3>3
  <2>4. Solves(h, m + 1)
    BY <2>3
  <2> QED BY <2>4
<1>3. T = {}
  <2>1. SUFFICES ASSUME T # {} PROVE FALSE
    OBVIOUS
  <2>2. PICK m \in T : \A k \in Nat : k < m => k \notin T
    BY <2>1, LeastNumber
  <2>3. m # 0
    BY <1>1
  <2>4. m - 1 \in Nat /\ m - 1 < m /\ m = (m - 1) + 1
    BY <2>3
  <2>5. Solvable(m - 1)
    BY <2>2, <2>4
  <2> HIDE DEF Solvable
  <2>6. Solvable((m - 1) + 1)
    BY <1>2, <2>4, <2>5
  <2> QED BY <2>4, <2>6
<1>4. PICK f : Solves(f, Rounds)
  BY <1>3, ReplayAssumption
<1>5. PICK g : g = [n \in 1..Rounds |-> f[n]]
  OBVIOUS
<1>6. \A n \in 1..Rounds : n # 1 => n - 1 \in 1..Rounds
  BY ReplayAssumption
<1>7. \A n \in 1..Rounds : Given(g, n) = Given(f, n)
  BY <1>5, <1>6 DEF AfterRounds
<1>8. g = [n \in 1..Rounds |-> Given(g, n)]
  BY <1>4, <1>5, <1>7
<1> QED BY <1>8 DEF SolvesRounds

LEMMA RoundStage ==
  ASSUME NEW vm, NEW t \in Nat, NEW registers \in [Registers -> Values], registers[0] = 0,
         NEW stamps, Behind(stamps, t), NEW log, NEW u, NEW counted, NEW snapshot,
         Stage(vm, t, registers, stamps, log, u, counted, snapshot),
         NEW n, NEW mixed, NEW a, NEW b, NEW word, NEW input,
         n = 1 => word[2] < t + 3 /\ input[2] < t + 3
  PROVE  Stage(HashRound(vm, n, mixed, a, b, word, input), t, Put(registers, 3, Control(ControlWord, n)),
               AbiStamps(Stamp(stamps, 0, t + 2), t + 3), log, u, counted, snapshot)
<1>1. PICK v1 : v1 = read_register_with_ts(read_register_with_ts(Marker(vm), 3, 1), 3, 2)
  OBVIOUS
<1>2. PICK v2 : v2 = write_register_with_ts(v1, 3, 3, Control(ControlWord, n))
  OBVIOUS
<1>3. PICK x, y : /\ x = IF n = 1 THEN word[2] ELSE t - TIMESTAMP_STEP + 3
                  /\ y = IF n = 1 THEN input[2] ELSE t - TIMESTAMP_STEP + 3
  OBVIOUS
<1>4. PICK v3 : v3 = Renewed(v2, a, mixed[n - 1], x, mixed[n])
  OBVIOUS
<1>5. PICK v4 : v4 = Renewed(v3, b, input[1], y, input[1])
  OBVIOUS
<1>6. vm.timestamp = t
  BY DEF Stage
<1>7. HashRound(vm, n, mixed, a, b, word, input) = v4
  BY <1>1, <1>2, <1>3, <1>4, <1>5, <1>6 DEF HashRound
<1>8. x < t + 3 /\ y < t + 3
  BY <1>3 DEF TIMESTAMP_STEP
<1>9. PICK s2 : s2 = Stamp(Stamp(Stamp(stamps, 0, t + 2), 1, t + 3), 2, t + 3)
  OBVIOUS
<1>10. Stage(v1, t, registers, s2, log, u, counted, snapshot) /\ s2[3] < t + 3
  BY <1>1, <1>9, PointersStage
<1>11. PICK rs, ss : rs = Written(registers, 3, Control(ControlWord, n)) /\ ss = Stamp(s2, 3, t + 3)
  OBVIOUS
<1>12. Stage(v2, t, rs, ss, log, u, counted, snapshot)
  BY <1>2, <1>10, <1>11, RegistersOfACall, WriteStage
<1>13. ASSUME NEW v, Stage(v, t, rs, ss, log, u, counted, snapshot), NEW address, NEW old, NEW new,
              NEW z, z < t + 3
       PROVE  Stage(Renewed(v, address, old, z, new), t, rs, ss, log, u, counted, snapshot)
  <2>1. PICK read, written : /\ read = <<"ram", address, old, z>>
                             /\ written = <<"ram", address, new, v.timestamp + 3>>
    OBVIOUS
  <2>2. v.timestamp = t
    BY <1>13 DEF Stage
  <2>3. read[4] < written[4]
    BY <1>13, <2>1, <2>2
  <2> QED BY <1>13, <2>1, <2>3, RowStage DEF Renewed
<1>14. Stage(v3, t, rs, ss, log, u, counted, snapshot)
  BY <1>4, <1>8, <1>12, <1>13
<1>15. Stage(v4, t, rs, ss, log, u, counted, snapshot)
  BY <1>5, <1>8, <1>13, <1>14
<1>16. rs = Put(registers, 3, Control(ControlWord, n))
  BY <1>11 DEF Written
<1>17. ss = AbiStamps(Stamp(stamps, 0, t + 2), t + 3)
  BY <1>9, <1>11, CallStamps DEF Behind
<1> QED BY <1>7, <1>15, <1>16, <1>17

LEMMA NextTsStage ==
  ASSUME NEW vm, NEW t, NEW registers, NEW stamps, NEW log, NEW u, NEW counted, NEW snapshot,
         Stage(vm, t, registers, stamps, log, u, counted, snapshot), NEW next, next = t + 4
  PROVE  Stage(NextTs(vm), next, registers, stamps, log, u, counted, snapshot)
BY DEF Stage, VmFields, NextTs, TIMESTAMP_STEP

\* The stamps of one round cover those of the round before.
LEMMA RoundStamps ==
  ASSUME NEW stamps \in [Registers -> Nat], NEW t \in Nat, NEW next \in Nat
  PROVE  AbiStamps(Stamp(AbiStamps(Stamp(stamps, 0, t + 2), t + 3), 0, next + 2), next + 3)
           = AbiStamps(Stamp(stamps, 0, next + 2), next + 3)
<1> DEFINE s1 == AbiStamps(Stamp(stamps, 0, t + 2), t + 3)
<1>1. DOMAIN s1 = Registers
  BY DEF AbiStamps
<1> HIDE DEF s1
<1>2. 0 \in Registers
  BY DEF Registers
<1>3. Stamp(s1, 0, next + 2)[0] = next + 2 /\ Stamp(stamps, 0, next + 2)[0] = next + 2
  BY <1>1, <1>2 DEF Stamp
<1>4. \A r \in Registers : AbiStamps(Stamp(s1, 0, next + 2), next + 3)[r]
                             = AbiStamps(Stamp(stamps, 0, next + 2), next + 3)[r]
  BY <1>3 DEF AbiStamps
<1> QED BY <1>4 DEF AbiStamps, s1

HashRounds(begun, mixed, a, b, word, input) ==
  LET rounds[n \in 1..Rounds] ==
        IF n = 1 THEN HashRound(begun, 1, mixed, a, b, word, input)
                 ELSE HashRound(NextTs(rounds[n - 1]), n, mixed, a, b, word, input)
  IN  rounds

LEMMA HashRoundsStep ==
  ASSUME NEW begun, NEW mixed, NEW a, NEW b, NEW word, NEW input, NEW n \in 1..Rounds
  PROVE  HashRounds(begun, mixed, a, b, word, input)[n]
           = IF n = 1 THEN HashRound(begun, 1, mixed, a, b, word, input)
             ELSE HashRound(NextTs(HashRounds(begun, mixed, a, b, word, input)[n - 1]), n, mixed,
                            a, b, word, input)
<1>1. PICK f : SolvesRounds(f, begun, mixed, a, b, word, input)
  BY RoundsExist
<1>2. f = [m \in 1..Rounds |-> IF m = 1 THEN HashRound(begun, 1, mixed, a, b, word, input)
                               ELSE HashRound(NextTs(f[m - 1]), m, mixed, a, b, word, input)]
  BY <1>1 DEF AfterRounds, SolvesRounds
<1>3. HashRounds(begun, mixed, a, b, word, input)
        = [m \in 1..Rounds |->
             IF m = 1 THEN HashRound(begun, 1, mixed, a, b, word, input)
             ELSE HashRound(NextTs(HashRounds(begun, mixed, a, b, word, input)[m - 1]), m, mixed,
                            a, b, word, input)]
  BY <1>2 DEF HashRounds
<1> HIDE DEF HashRounds
<1>4. PICK h : h = HashRounds(begun, mixed, a, b, word, input)
  OBVIOUS
<1>5. h = [m \in 1..Rounds |-> IF m = 1 THEN HashRound(begun, 1, mixed, a, b, word, input)
                               ELSE HashRound(NextTs(h[m - 1]), m, mixed, a, b, word, input)]
  BY <1>3, <1>4
<1> QED BY <1>4, <1>5

\* All rounds.
LEMMA RoundsStage ==
  ASSUME NEW begun, NEW t \in Nat, NEW registers \in [Registers -> Values], registers[0] = 0,
         NEW stamps, Behind(stamps, t), NEW log, NEW u, NEW counted, NEW snapshot,
         Stage(begun, t, registers, stamps, log, u, counted, snapshot),
         NEW mixed, NEW a, NEW b, NEW word, NEW input, word[2] < t + 3, input[2] < t + 3,
         ControlWord \in Values, NEW count \in 1..Rounds
  PROVE  Stage(HashRounds(begun, mixed, a, b, word, input)[count], LastRound(t, count),
               Put(registers, 3, Control(ControlWord, count)),
               AbiStamps(Stamp(stamps, 0, LastRound(t, count) + 2), LastRound(t, count) + 3), log, u, counted,
               snapshot)
<1>1. PICK f : f = HashRounds(begun, mixed, a, b, word, input)
  OBVIOUS
<1>2. ASSUME NEW n \in 1..Rounds
      PROVE  f[n] = IF n = 1 THEN HashRound(begun, 1, mixed, a, b, word, input)
                    ELSE HashRound(NextTs(f[n - 1]), n, mixed, a, b, word, input)
  BY <1>1, HashRoundsStep
<1> DEFINE P(n) == Stage(f[n], t + 4 * (n - 1), Put(registers, 3, Control(ControlWord, n)),
                         AbiStamps(Stamp(stamps, 0, (t + 4 * (n - 1)) + 2), (t + 4 * (n - 1)) + 3),
                         log, u, counted, snapshot)
           T == {n \in Nat : n \in 1..Rounds /\ ~P(n)}
<1>3. Rounds \in Nat \ {0}
  BY ReplayAssumption
<1>4. P(1)
  <2>1. f[1] = HashRound(begun, 1, mixed, a, b, word, input)
    BY <1>2, <1>3
  <2>2. Stage(f[1], t, Put(registers, 3, Control(ControlWord, 1)), AbiStamps(Stamp(stamps, 0, t + 2), t + 3),
              log, u, counted, snapshot)
    BY <2>1, RoundStage
  <2>3. t + 4 * (1 - 1) = t
    OBVIOUS
  <2> QED BY <2>2, <2>3
<1>5. ASSUME NEW n \in 1..Rounds, NEW m, m = n - 1, m \in 1..Rounds, P(m)
      PROVE  P(n)
  <2>1. PICK now \in Nat : now = t + 4 * (m - 1) /\ t <= now
    <3>1. m - 1 \in Nat
      BY <1>5
    <3>2. PICK k \in Nat : k = m - 1
      BY <3>1
    <3> QED BY <3>2
  <2>2. PICK next \in Nat : next = now + 4
    OBVIOUS
  <2>3. next = t + 4 * (n - 1)
    BY <1>5, <2>1, <2>2
  <2>4. PICK s1, rs : s1 = AbiStamps(Stamp(stamps, 0, now + 2), now + 3)
                      /\ rs = Put(registers, 3, Control(ControlWord, m))
    OBVIOUS
  <2>5. Stage(f[m], now, rs, s1, log, u, counted, snapshot)
    BY <1>5, <2>1, <2>4
  <2> HIDE DEF P
  <2>6. Stage(NextTs(f[m]), next, rs, s1, log, u, counted, snapshot)
    BY <2>2, <2>5, NextTsStage
  <2>7. Behind(s1, next)
    BY <2>1, <2>2, <2>4, AbiBehind
  <2>8. rs \in [Registers -> Values] /\ rs[0] = 0
    <3>1. m \in Nat
      BY <1>5
    <3>2. Control(ControlWord, m) \in Values
      BY <3>1, ControlIsValue
    <3> QED BY <2>4, <3>2, PutTyped
  <2>9. n # 1 /\ f[n] = HashRound(NextTs(f[m]), n, mixed, a, b, word, input)
    <3>1. n # 1
      BY <1>5
    <3> QED BY <1>2, <1>5, <3>1
  <2>10. PICK vm : vm = NextTs(f[m])
    OBVIOUS
  <2>11. Stage(HashRound(vm, n, mixed, a, b, word, input), next, Put(rs, 3, Control(ControlWord, n)),
               AbiStamps(Stamp(s1, 0, next + 2), next + 3), log, u, counted, snapshot)
    BY <2>6, <2>7, <2>8, <2>9, <2>10, RoundStage
  <2>12. Put(rs, 3, Control(ControlWord, n)) = Put(registers, 3, Control(ControlWord, n))
    BY <2>4, RegistersOfACall DEF Put
  <2>13. AbiStamps(Stamp(s1, 0, next + 2), next + 3)
           = AbiStamps(Stamp(stamps, 0, next + 2), next + 3)
    BY <2>4, RoundStamps DEF Behind
  <2>14. Stage(f[n], next, Put(registers, 3, Control(ControlWord, n)),
               AbiStamps(Stamp(stamps, 0, next + 2), next + 3), log, u, counted, snapshot)
    BY <2>9, <2>10, <2>11, <2>12, <2>13
  <2> QED BY <2>3, <2>14 DEF P
<1> HIDE DEF P
<1>6. T = {}
  <2>1. SUFFICES ASSUME T # {} PROVE FALSE
    OBVIOUS
  <2>2. PICK n \in T : \A k \in Nat : k < n => k \notin T
    BY <2>1, LeastNumber
  <2>3. n # 1
    BY <1>4
  <2>4. PICK m \in Nat : m = n - 1 /\ m \in 1..Rounds /\ m < n /\ n \in 1..Rounds
    BY <1>3, <2>2, <2>3
  <2>5. P(m)
    BY <2>2, <2>4
  <2> QED BY <1>5, <2>2, <2>4, <2>5
<1>7. P(count)
  BY <1>3, <1>6
<1> QED BY <1>1, <1>7 DEF P, LastRound

\* What the replay of a hash does, in the terms of the lemmas.
LEMMA HashReplayed ==
  ASSUME ReplayBlake
  PROVE  /\ Replays("blake")
         /\ LET count == num_rounds(ControlWord)
            IN  Advance([HashRounds(Asserted(Popped(Popped(Fresh)), ControlWord \in ControlWords),
                                    Mixed(Entry(replay)[1], Entry(Popped(replay))[1]),
                                    replay.registers[1], replay.registers[2],
                                    Entry(replay), Entry(Popped(replay)))[count]
                         EXCEPT !.counted["BlakeDelegation"] = @ + count,
                                !.counted["ShiftBinaryCsr"] = @ + count - 1],
                        replay.pc + count, "ShiftBinaryCsr")
BY Zenon DEF ReplayBlake, HashRounds, HashRound, Renewed, NextTs, Mixed, ControlWord

LEMMA BlakeReplays ==
  ASSUME NEW a, NEW log, NEW u, NEW b, NEW v, NEW from, NEW snapshot,
         Before(a, log, u, b, v, from, snapshot), ReplayBlake
  PROVE  After(replay', a, log, b, v, from, snapshot)
<1>0. PICK i : i = Instruction(a.pc)
  OBVIOUS
<1>1. replay.pc = a.pc /\ replay.registers = a.registers /\ i \in InstructionType
  BY <1>0, Starts
<1>c. PICK count \in Nat \ {0} : count = num_rounds(ControlWord) /\ count \in 1..Rounds
  BY RoundsTaken
<1>d. ControlWord = a.registers[3] /\ a.registers[3] \in Values
  <2>1. a.registers \in [Registers -> Values]
    BY Starts
  <2> QED BY <1>1, <2>1 DEF ControlWord, Registers
<1>2. PICK word, input : word = Entry(replay) /\ input = Entry(Popped(replay))
  OBVIOUS
<1>3. PICK v1 : v1 = Popped(Fresh)
  OBVIOUS
<1>4. PICK v2 : v2 = Popped(v1)
  OBVIOUS
<1>5. PICK begun : begun = Asserted(v2, ControlWord \in ControlWords)
  OBVIOUS
<1>6. PICK mixed, p, q : mixed = Mixed(word[1], input[1]) /\ p = a.registers[1] /\ q = a.registers[2]
  OBVIOUS
<1>7. PICK w : w = HashRounds(begun, mixed, p, q, word, input)[count]
  OBVIOUS
<1>8. PICK vm : vm = [w EXCEPT !.counted["BlakeDelegation"] = @ + count,
                               !.counted["ShiftBinaryCsr"] = @ + count - 1]
  OBVIOUS
<1>9. i.op = "blake" /\ Advance(vm, a.pc + count, "ShiftBinaryCsr")
  <2>1. Replays("blake")
    BY HashReplayed
  <2>2. Advance(vm, replay.pc + count, "ShiftBinaryCsr")
    BY <1>1, <1>c, <1>2, <1>3, <1>4, <1>5, <1>6, <1>7, <1>8, HashReplayed
  <2> QED BY <1>0, <1>1, <2>1, <2>2 DEF Replays
<1>10. BlakeTurn(i, a, u, b, v)
  BY <1>0, <1>9, TurnByName DEF Before
<1>11. Consumes(log, u, v, a.timestamp) /\ u \in Nat /\ Len(log) \in Nat
  <2>1. Consumes(log, u, v, a.timestamp)
    BY TurnByName DEF Before
  <2>2. u \in Nat /\ Len(log) \in Nat
    BY DEF Before, Stands, Stage, Rest, Logs
  <2> QED BY <2>1, <2>2
<1>12. v = u + 2 /\ ControlWord \in ControlWords
  BY <1>10, <1>d DEF BlakeTurn, HashTurn
<1>13. PICK t \in Nat : t = a.timestamp
  BY Starts
<1>14. PICK s, rs, c : s = a.register_timestamps /\ rs = a.registers /\ c = replay.counted
  OBVIOUS
<1>15. /\ Stage(Fresh, t, rs, s, log, u, c, snapshot)
       /\ rs \in [Registers -> Values] /\ rs[0] = 0 /\ Behind(s, t)
  BY <1>13, <1>14, Starts
<1>16. Stage(replay, t, rs, s, log, u, c, snapshot)
  BY <1>13, <1>14 DEF Before, Stands
<1>17. PICK u1 \in Nat : u1 = u + 1
  BY <1>11
<1>18. u < Len(log) /\ u1 < Len(log) /\ u + 1 = u1 /\ u1 + 1 = v
  BY <1>11, <1>12, <1>17 DEF Consumes
<1>19. Stage(v1, t, rs, s, log, u1, c, snapshot)
  <2>1. /\ Stage(Popped(Fresh), t, rs, s, log, u + 1, c, snapshot)
        /\ Entry(Fresh) = log[u + 1]
    BY <1>15, <1>18, PoppedStage
  <2> QED BY <1>3, <1>18, <2>1
<1>20. Stage(v2, t, rs, s, log, v, c, snapshot)
  <2>1. /\ Stage(Popped(v1), t, rs, s, log, u1 + 1, c, snapshot)
        /\ Entry(v1) = log[u1 + 1]
    BY <1>18, <1>19, PoppedStage
  <2> QED BY <1>4, <1>18, <2>1
<1>21. word = log[u1] /\ input = log[v]
  <2>1. /\ Stage(Popped(replay), t, rs, s, log, u + 1, c, snapshot)
        /\ Entry(replay) = log[u + 1]
    BY <1>16, <1>18, PoppedStage
  <2>2. PICK x : x = Popped(replay)
    OBVIOUS
  <2>3. Stage(x, t, rs, s, log, u1, c, snapshot)
    BY <1>18, <2>1, <2>2
  <2>4. /\ Stage(Popped(x), t, rs, s, log, u1 + 1, c, snapshot)
        /\ Entry(x) = log[u1 + 1]
    BY <1>18, <2>3, PoppedStage
  <2> QED BY <1>2, <1>18, <2>1, <2>2, <2>4
<1>22. word[2] < t + 3 /\ input[2] < t + 3
  <2>1. log[u1][2] < t /\ log[v][2] < t
    <3>1. u1 \in (u + 1)..v /\ v \in (u + 1)..v
      BY <1>11, <1>12, <1>17
    <3> QED BY <1>11, <1>13, <3>1 DEF Consumes
  <2>2. log \in Seq(Entries)
    BY <1>16 DEF Stage, Rest, Logs, Entries
  <2>3. u1 \in 1..Len(log) /\ v \in 1..Len(log)
    BY <1>11, <1>12, <1>17, <1>18 DEF Consumes
  <2>4. log[u1] \in Entries /\ log[v] \in Entries
    BY <2>2, <2>3
  <2>5. log[u1][2] \in Nat /\ log[v][2] \in Nat
    BY <2>4 DEF Entries
  <2> QED BY <1>21, <2>1, <2>5
<1>23. Stage(begun, t, rs, s, log, v, c, snapshot)
  <2>1. PICK condition : condition = (ControlWord \in ControlWords) /\ condition
    BY <1>12
  <2>2. begun = Asserted(v2, condition)
    BY <1>5, <2>1
  <2> QED BY <1>20, <2>1, <2>2, AssertedStage
<1>24. PICK top \in Nat : top = LastRound(t, count) /\ top + 4 = t + 4 * count
  <2>1. PICK n \in Nat : n = count - 1 /\ count = n + 1
    BY <1>c
  <2> QED BY <2>1 DEF LastRound
<1>25. PICK rs3, s3 : /\ rs3 = Put(rs, 3, Control(ControlWord, count))
                      /\ s3 = AbiStamps(Stamp(s, 0, top + 2), top + 3)
  OBVIOUS
<1>26. Stage(w, top, rs3, s3, log, v, c, snapshot)
  <2>1. Stage(HashRounds(begun, mixed, p, q, word, input)[count], LastRound(t, count),
              Put(rs, 3, Control(ControlWord, count)),
              AbiStamps(Stamp(s, 0, LastRound(t, count) + 2), LastRound(t, count) + 3), log, v, c, snapshot)
    BY <1>c, <1>d, <1>15, <1>22, <1>23, RoundsStage
  <2> QED BY <1>7, <1>24, <1>25, <2>1
<1>27. PICK n \in Nat : n = count - 1 /\ count = n + 1
  BY <1>c
<1>28. PICK c1, c2 : c1 = Plus(c, "BlakeDelegation", count) /\ c2 = Plus(c1, "ShiftBinaryCsr", n)
  OBVIOUS
<1>29. /\ Settled(a) /\ from \in [CounterType -> Nat] /\ a.counters \in [CounterType -> Nat]
       /\ Tally(c, from, a.counters) /\ c \in [CounterType -> Nat]
  BY <1>14, SettledFields DEF Before, Stands, Tally
<1>30. "BlakeDelegation" \in CounterType /\ "ShiftBinaryCsr" \in CounterType /\ 1 \in Nat
       /\ count \in Nat
  BY <1>27 DEF CounterType, Families
<1>31. PICK k1, k2, k3 : /\ k1 = Plus(a.counters, "BlakeDelegation", count)
                         /\ k2 = Plus(k1, "ShiftBinaryCsr", n)
                         /\ k3 = Plus(k2, "ShiftBinaryCsr", 1)
  OBVIOUS
<1>32. Tally(c1, from, k1) /\ k1 \in [CounterType -> Nat]
  BY <1>28, <1>29, <1>30, <1>31, TallyOn
<1>33. Tally(c2, from, k2) /\ k2 \in [CounterType -> Nat]
  BY <1>27, <1>28, <1>29, <1>30, <1>31, <1>32, TallyOn
<1>34. Tally(Plus(c2, "ShiftBinaryCsr", 1), from, k3)
  <2>1. /\ Tally(Plus(c2, "ShiftBinaryCsr", 1), from, Plus(k2, "ShiftBinaryCsr", 1))
        /\ Plus(k2, "ShiftBinaryCsr", 1) \in [CounterType -> Nat]
    BY <1>29, <1>30, <1>33, TallyOn
  <2> QED BY <1>31, <2>1
<1>35. k3 = Plus(k1, "ShiftBinaryCsr", count)
  <2>1. PICK k : k = Plus(k1, "ShiftBinaryCsr", count)
    OBVIOUS
  <2>2. \A x \in CounterType : k3[x] = k[x]
    <3>1. \A x \in CounterType : k1[x] \in Nat
      BY <1>32
    <3>2. \A x \in CounterType : k2[x] = IF x = "ShiftBinaryCsr" THEN k1[x] + n ELSE k1[x]
      <4>0. k1 \in [CounterType -> Nat] /\ "ShiftBinaryCsr" \in CounterType /\ n \in Nat
        BY <1>27, <1>30, <1>31, <1>32
      <4>1. /\ Plus(k1, "ShiftBinaryCsr", n) \in [CounterType -> Nat]
            /\ \A x \in CounterType :
                 Plus(k1, "ShiftBinaryCsr", n)[x]
                   = IF x = "ShiftBinaryCsr" THEN k1[x] + n ELSE k1[x]
        BY <4>0, CountersGrow
      <4> QED BY <4>1, <1>27, <1>30, <1>31, <1>32
    <3>3. \A x \in CounterType : k3[x] = IF x = "ShiftBinaryCsr" THEN k2[x] + 1 ELSE k2[x]
      <4>0. k2 \in [CounterType -> Nat] /\ "ShiftBinaryCsr" \in CounterType /\ 1 \in Nat
        BY <1>30, <1>31, <1>33
      <4>1. /\ Plus(k2, "ShiftBinaryCsr", 1) \in [CounterType -> Nat]
            /\ \A x \in CounterType :
                 Plus(k2, "ShiftBinaryCsr", 1)[x]
                   = IF x = "ShiftBinaryCsr" THEN k2[x] + 1 ELSE k2[x]
        BY <4>0, CountersGrow
      <4> QED BY <4>1, <1>30, <1>31, <1>33
    <3>4. \A x \in CounterType : k[x] = IF x = "ShiftBinaryCsr" THEN k1[x] + count ELSE k1[x]
      <4>1. /\ Plus(k1, "ShiftBinaryCsr", count) \in [CounterType -> Nat]
            /\ \A x \in CounterType :
                 Plus(k1, "ShiftBinaryCsr", count)[x]
                   = IF x = "ShiftBinaryCsr" THEN k1[x] + count ELSE k1[x]
        BY ONLY <1>30, <1>32, CountersGrow
      <4> QED BY <4>1, <1>30, <1>32, <2>1
    <3> QED BY <1>27, <3>1, <3>2, <3>3, <3>4
  <2>3. k3 \in [CounterType -> Nat] /\ k \in [CounterType -> Nat]
    BY <1>30, <1>31, <1>32, <1>33, <2>1, CountersGrow
  <2> QED BY <2>1, <2>2, <2>3
<1>36. Stage(vm, top, rs3, s3, log, v, c2, snapshot)
  <2>1. PICK d : d = w.counted
    OBVIOUS
  <2>2. d = c /\ DOMAIN w = VmFields
    BY <1>26, <2>1 DEF Stage
  <2>3. /\ vm.counted = [d EXCEPT !["BlakeDelegation"] = @ + count,
                                  !["ShiftBinaryCsr"] = @ + count - 1]
        /\ vm.timestamp = w.timestamp /\ vm.registers = w.registers
        /\ vm.register_timestamps = w.register_timestamps /\ vm.log = w.log
        /\ vm.intact = w.intact /\ vm.rows = w.rows /\ vm.snapshot = w.snapshot
        /\ DOMAIN vm = VmFields /\ vm = [x \in DOMAIN vm |-> vm[x]]
    BY <1>8, <2>1, <2>2 DEF VmFields
  <2>4. vm.counted = c2
    <3>1. c1 \in [CounterType -> Nat] /\ c1["ShiftBinaryCsr"] = c["ShiftBinaryCsr"]
          /\ c["ShiftBinaryCsr"] \in Nat
      <4>0. c \in [CounterType -> Nat] /\ "BlakeDelegation" \in CounterType /\ count \in Nat
        BY ONLY <1>29, <1>30
      <4>1. /\ Plus(c, "BlakeDelegation", count) \in [CounterType -> Nat]
            /\ \A x \in CounterType :
                 Plus(c, "BlakeDelegation", count)[x]
                   = IF x = "BlakeDelegation" THEN c[x] + count ELSE c[x]
        BY ONLY <4>0, CountersGrow
      <4> QED BY <1>28, <1>29, <1>30, <4>1
    <3>2. PICK x \in Nat : x = c["ShiftBinaryCsr"]
      BY <3>1
    <3>3. x + count - 1 = x + n
      BY <1>27
    <3>4. vm.counted = [c1 EXCEPT !["ShiftBinaryCsr"] = x + count - 1]
      <4>1. c1 = [c EXCEPT !["BlakeDelegation"] = @ + count]
        BY ONLY <1>28 DEF Plus
      <4>2. vm.counted = [c1 EXCEPT !["ShiftBinaryCsr"] = @ + count - 1]
        BY ONLY <2>2, <2>3, <4>1
      <4>3. c1["ShiftBinaryCsr"] = x
        BY ONLY <3>1, <3>2
      <4> QED BY ONLY <4>2, <4>3
    <3> QED BY <1>28, <3>1, <3>2, <3>3, <3>4 DEF Plus
  <2> QED BY <1>26, <2>3, <2>4 DEF Stage
<1>37. /\ b.pc = a.pc + count /\ b.timestamp = top + 4 /\ b.registers = rs3
       /\ b.register_timestamps = s3 /\ b.counters = k3
  BY <1>10, <1>13, <1>14, <1>24, <1>25, <1>31, <1>35, <1>c, <1>d DEF BlakeTurn, HashTurn, Is
<1>38. c2 \in [CounterType -> Nat] /\ Advance(vm, b.pc, "ShiftBinaryCsr")
  BY <1>9, <1>33, <1>37 DEF Tally
<1>39. Stage(vm, top, b.registers, b.register_timestamps, log, v, c2, snapshot)
  BY <1>36, <1>37
<1>40. Tally(Plus(c2, "ShiftBinaryCsr", 1), from, b.counters)
  BY <1>34, <1>37
<1>41. Stands(replay', b, log, v, from, snapshot) /\ (replay'.stopped => b.pc = replay.pc)
  BY <1>30, <1>37, <1>38, <1>39, <1>40, AdvanceStands
<1> QED BY <1>1, <1>41 DEF After

-----------------------------------------------------------------------------
(* The replay in progress.                                                 *)

OnPath(r, code, n, f, g, k) ==
  /\ Path(code, r.snapshot.trace, f, g, n)
  /\ f[0] = r.snapshot.initial_state /\ f[n] = r.snapshot.final_state
  /\ Stands(r, f[k], r.snapshot.trace, g[k], f[0].counters, r.snapshot)
  /\ BranchesMove /\ r.stopped => k = n

Follows(r, code) == \E n \in Nat : \E k \in 0..n : \E f, g : OnPath(r, code, n, f, g, k)

Replaying == replay # None => Follows(replay, program)

LEMMA SettledCycles ==
  ASSUME NEW a, Settled(a), NEW b, Settled(b)
  PROVE  /\ a.timestamp \in Nat /\ b.timestamp \in Nat
         /\ CountedCycles(a.counters) \in Nat /\ CountedCycles(b.counters) \in Nat
         /\ (b.timestamp - a.timestamp) \div 4 = CountedCycles(b.counters) - CountedCycles(a.counters)
         /\ a.timestamp + 4 * ((b.timestamp - a.timestamp) \div 4) = b.timestamp
<1>1. PICK n \in Nat : n = CountedCycles(a.counters)
  BY DEF Settled
<1>2. PICK m \in Nat : m = CountedCycles(b.counters)
  BY DEF Settled
<1>3. a.timestamp = 4 + 4 * n /\ b.timestamp = 4 + 4 * m
  BY <1>1, <1>2 DEF Settled
<1>4. PICK d \in Int : d = m - n
  OBVIOUS
<1>5. b.timestamp - a.timestamp = 4 * d
  BY <1>3, <1>4
<1>6. (4 * d) \div 4 = d
  OBVIOUS
<1> QED BY <1>1, <1>2, <1>3, <1>4, <1>5, <1>6

\* The replay ends where the last snapshot was taken, and not before.
LEMMA BoundIsTheEnd ==
  ASSUME NEW n \in Nat, NEW k \in 0..n, NEW f, NEW g, OnPath(replay, program, n, f, g, k)
  PROVE  /\ BoundReached <=> k = n
         /\ BranchesMove /\ Finished => k = n
<1>1. /\ Settled(f[0]) /\ Settled(f[n]) /\ Settled(f[k])
      /\ k < n => f[k].timestamp < f[n].timestamp
  <2>1. 0 \in 0..n /\ n \in 0..n /\ (k < n => k \in 0..(n - 1))
    OBVIOUS
  <2> QED BY <2>1 DEF OnPath, Path
<1>2. /\ f[0].timestamp \in Nat /\ f[n].timestamp \in Nat /\ f[k].timestamp \in Nat
      /\ f[0].timestamp + 4 * ((f[n].timestamp - f[0].timestamp) \div 4) = f[n].timestamp
  BY <1>1, SettledCycles
<1>3. /\ replay.timestamp = f[k].timestamp
      /\ replay.snapshot.initial_state = f[0] /\ replay.snapshot.final_state = f[n]
  BY DEF OnPath, Stands, Stage
<1>4. BoundReached <=> f[k].timestamp >= f[n].timestamp
  BY <1>2, <1>3 DEF BoundReached, Cycles, TIMESTAMP_STEP
<1>5. BoundReached <=> k = n
  BY <1>1, <1>2, <1>4
<1> QED BY <1>5 DEF Finished, OnPath

LEMMA ReplayKept ==
  ASSUME Replaying, replay' = replay, program' = program
  PROVE  Replaying'
BY DEF Replaying

LEMMA StepsOfOthers ==
  ASSUME Simulate \/ Abort \/ UNCHANGED vars
  PROVE  replay' = replay /\ program' = program
<1>1. CASE Compile \/ Load \/ EarlyExit \/ Quit \/ CollectInitsAndTeardowns \/ Reset
  BY <1>1 DEF Compile, Load, EarlyExit, Quit, CollectInitsAndTeardowns, Reset, inputVars
<1>2. CASE Add \/ Lui \/ Jal \/ Beq \/ WriteNonDeterminism
  BY <1>2 DEF Add, Lui, Jal, Beq, WriteNonDeterminism, Retire, inputVars
<1>3. CASE Lw \/ Store \/ ReadNonDeterminism
  BY <1>3 DEF Lw, Store, ReadNonDeterminism, Record, inputVars
<1>4. CASE Bigint \/ Blake
  BY <1>4 DEF Bigint, Blake, Delegated, inputVars
<1>5. CASE Abort \/ UNCHANGED vars
  BY <1>5 DEF Abort, vars, inputVars
<1> QED BY <1>1, <1>2, <1>3, <1>4, <1>5 DEF Simulate

LEMMA BeginKeepsReplaying ==
  ASSUME Typed, Recorded, Replaying, BeginReplay
  PROVE  Replaying'
<1>1. PICK s \in snapshots : replay' = IF abort THEN None ELSE TakeSnapshot(s)
  BY DEF BeginReplay
<1>2. program' = program
  BY DEF BeginReplay, inputVars
<1>3. CASE abort
  BY <1>1, <1>3 DEF Replaying
<1>4. CASE ~abort
  <2>1. s.trace \in Logs /\ Reaches(program, s.initial_state, s.final_state, s.trace)
    BY DEF Recorded
  <2>2. PICK n \in Nat : \E f, g : /\ Path(program, s.trace, f, g, n)
                                   /\ f[0] = s.initial_state /\ f[n] = s.final_state
    BY <2>1 DEF Reaches
  <2>3. PICK f, g : Path(program, s.trace, f, g, n) /\ f[0] = s.initial_state /\ f[n] = s.final_state
    BY <2>2
  <2>4. PICK zero : zero = [c \in CounterType |-> 0]
    OBVIOUS
  <2>5. PICK r : r = TakeSnapshot(s)
    OBVIOUS
  <2>6. /\ DOMAIN r = VmFields /\ r = [x \in DOMAIN r |-> r[x]]
        /\ r.pc = f[0].pc /\ r.timestamp = f[0].timestamp /\ r.registers = f[0].registers
        /\ r.register_timestamps = f[0].register_timestamps /\ r.log = s.trace
        /\ r.intact = TRUE /\ r.stopped = FALSE /\ r.rows = <<>>
        /\ r.counted = zero /\ r.snapshot = s
    BY <2>3, <2>4, <2>5 DEF TakeSnapshot, VmFields
  <2>7. g[0] = 0 /\ Settled(f[0])
    BY <2>3 DEF Path
  <2>8. Rest(r.log, s.trace, g[0])
    BY <2>1, <2>6, <2>7, RestBegins
  <2>9. Forward(r.rows)
    BY <2>6, NoRows
  <2>10. Tally(r.counted, f[0].counters, f[0].counters)
    <3>1. f[0].counters \in [CounterType -> Nat]
      BY <2>7, SettledFields
    <3> QED BY <2>4, <2>6, <3>1 DEF Tally
  <2>11. Stands(r, f[0], s.trace, g[0], f[0].counters, s)
    BY <2>6, <2>8, <2>9, <2>10 DEF Stands, Stage
  <2>12. OnPath(r, program, n, f, g, 0) /\ 0 \in 0..n
    BY <2>3, <2>6, <2>11 DEF OnPath
  <2>13. Follows(r, program)
    BY <2>12 DEF Follows
  <2> QED BY <1>1, <1>2, <1>4, <2>5, <2>13 DEF Replaying
<1> QED BY <1>3, <1>4

Instructed ==
  \/ ReplayAdd \/ ReplayLui \/ ReplayJal \/ ReplayBeq \/ ReplayLw \/ ReplayStore
  \/ ReplayReadNonDeterminism \/ ReplayWriteNonDeterminism \/ ReplayBigint \/ ReplayBlake

LEMMA InstructionReplays ==
  ASSUME NEW a, NEW log, NEW u, NEW b, NEW v, NEW from, NEW snapshot,
         Before(a, log, u, b, v, from, snapshot), Instructed
  PROVE  After(replay', a, log, b, v, from, snapshot)
<1>1. CASE ReplayAdd \/ ReplayLui \/ ReplayJal \/ ReplayBeq
  BY <1>1, AddReplays, LuiReplays, JalReplays, BeqReplays
<1>2. CASE ReplayLw \/ ReplayStore \/ ReplayReadNonDeterminism \/ ReplayWriteNonDeterminism
  BY <1>2, LwReplays, StoreReplays, ReadReplays, WriteReplays
<1>3. CASE ReplayBigint \/ ReplayBlake
  BY <1>3, BigintReplays, BlakeReplays
<1> QED BY <1>1, <1>2, <1>3 DEF Instructed

LEMMA InstructedStarts ==
  ASSUME Instructed
  PROVE  replay # None /\ ~Finished /\ program' = program
<1>1. CASE ReplayAdd \/ ReplayLui \/ ReplayJal \/ ReplayBeq
  BY <1>1 DEF ReplayAdd, ReplayLui, ReplayJal, ReplayBeq, Replays, Advance, inputVars
<1>2. CASE ReplayLw \/ ReplayStore
  BY <1>2 DEF ReplayLw, ReplayStore, Replays, Advance, inputVars
<1>3. CASE ReplayReadNonDeterminism \/ ReplayWriteNonDeterminism
  BY <1>3 DEF ReplayReadNonDeterminism, ReplayWriteNonDeterminism, Replays, Advance, inputVars
<1>4. CASE ReplayBigint
  BY <1>4 DEF ReplayBigint, Replays, Advance, inputVars
<1>5. CASE ReplayBlake
  BY <1>5, HashReplayed DEF Replays, Advance, inputVars
<1> QED BY <1>1, <1>2, <1>3, <1>4, <1>5 DEF Instructed

LEMMA InstructionKeepsReplaying ==
  ASSUME Replaying, Instructed
  PROVE  Replaying'
<1>1. replay # None /\ ~Finished /\ program' = program
  BY InstructedStarts
<1>2. PICK n \in Nat : \E k \in 0..n : \E f, g : OnPath(replay, program, n, f, g, k)
  BY <1>1 DEF Replaying, Follows
<1>3. PICK k \in 0..n : \E f, g : OnPath(replay, program, n, f, g, k)
  BY <1>2
<1>4. PICK f, g : OnPath(replay, program, n, f, g, k)
  BY <1>3
<1>5. k # n
  <2>1. ~BoundReached
    BY <1>1 DEF Finished
  <2> QED BY <1>4, <2>1, BoundIsTheEnd
<1>6. PICK m \in 0..n : m = k + 1 /\ k \in 0..(n - 1) /\ k \in 0..n
  BY <1>5
<1>7. PICK s : s = replay.snapshot
  OBVIOUS
<1>8. /\ Path(program, s.trace, f, g, n)
      /\ f[0] = s.initial_state /\ f[n] = s.final_state
      /\ Stands(replay, f[k], s.trace, g[k], f[0].counters, s)
  BY <1>4, <1>7 DEF OnPath
<1>9. PICK a, b, u, v : a = f[k] /\ b = f[m] /\ u = g[k] /\ v = g[m]
  OBVIOUS
<1>10. /\ Turn(program, s.trace, a, u, b, v) /\ Settled(a) /\ Settled(f[0])
       /\ BranchesMove /\ b.pc = a.pc => k = n - 1
  <2>1. 0 \in 0..n
    OBVIOUS
  <2> QED BY <1>6, <1>8, <1>9, <2>1 DEF Path
<1>11. PICK from : from = f[0].counters /\ from \in [CounterType -> Nat]
  BY <1>10, SettledFields
<1>12. Before(a, s.trace, u, b, v, from, s)
  BY <1>8, <1>9, <1>10, <1>11 DEF Before
<1>13. PICK log : log = s.trace
  OBVIOUS
<1>14. After(replay', a, log, b, v, from, s)
  BY <1>12, <1>13, InstructionReplays
<1>15. PICK r : r = replay'
  OBVIOUS
<1>16. Stands(r, b, log, v, from, s) /\ (r.stopped => b.pc = a.pc)
  BY <1>14, <1>15 DEF After
<1>17. r.snapshot = s
  BY <1>16 DEF Stands, Stage
<1>18. BranchesMove /\ r.stopped => m = n
  BY <1>6, <1>10, <1>16
<1>19. OnPath(r, program, n, f, g, m)
  BY <1>8, <1>9, <1>11, <1>13, <1>16, <1>17, <1>18 DEF OnPath
<1>20. Follows(r, program)
  BY <1>19 DEF Follows
<1> QED BY <1>1, <1>15, <1>20 DEF Replaying

LEMMA SpecReplays == Spec => []Replaying
<1>1. Init => Replaying
  BY DEF Init, Replaying
<1>2. Typed /\ Recorded /\ Replaying /\ [Next]_vars => Replaying'
  <2> SUFFICES ASSUME Typed, Recorded, Replaying, [Next]_vars PROVE Replaying'
    OBVIOUS
  <2>1. CASE Simulate \/ Abort \/ UNCHANGED vars
    BY <2>1, StepsOfOthers, ReplayKept
  <2>2. CASE BeginReplay
    BY <2>2, BeginKeepsReplaying
  <2>3. CASE EndReplay
    BY <2>3 DEF EndReplay, Replaying
  <2>4. CASE Instructed
    BY <2>4, InstructionKeepsReplaying
  <2> QED BY <2>1, <2>2, <2>3, <2>4 DEF Next, Replayer, Instructed
<1> QED BY <1>1, <1>2, SpecRecords, PTL DEF Spec

-----------------------------------------------------------------------------
(* The theorems.                                                           *)

\* Every access that a replay writes a row of reads what an earlier access wrote,
\* for every program: the timestamps of the rows, which the memory argument
\* compares, grow along the accesses of a word or a register.
THEOREM AccessesStayForward == Spec => []AccessesGoForward
<1>1. Replaying => AccessesGoForward
  <2> SUFFICES ASSUME Replaying, replay # None, NEW m \in DOMAIN replay.rows
               PROVE  replay.rows[m][1][4] < replay.rows[m][2][4]
    BY DEF AccessesGoForward
  <2>1. PICK n \in Nat : \E k \in 0..n : \E f, g : OnPath(replay, program, n, f, g, k)
    BY DEF Replaying, Follows
  <2>2. PICK k, f, g : OnPath(replay, program, n, f, g, k)
    BY <2>1
  <2>3. Forward(replay.rows)
    BY <2>2 DEF OnPath, Stands, Stage
  <2> QED BY <2>3 DEF Forward
<1> QED BY <1>1, SpecReplays, PTL

\* A replay of a snapshot, with nothing but its log, fails no assertion of the
\* replayed instructions and ends exactly where the simulator took the next
\* snapshot: run_replayer's assertions hold for every program without a branch to
\* itself, which the two stop at differently.
THEOREM ReplaysReachRecorded ==
  ASSUME BranchesMove
  PROVE  Spec => []ReplayReachesRecorded
<1>1. Replaying => ReplayReachesRecorded
  <2> SUFFICES ASSUME Replaying, replay # None PROVE ReplayReachesRecorded
    BY DEF ReplayReachesRecorded
  <2>1. PICK n \in Nat : \E k \in 0..n : \E f, g : OnPath(replay, program, n, f, g, k)
    BY DEF Replaying, Follows
  <2>2. PICK k \in 0..n : \E f, g : OnPath(replay, program, n, f, g, k)
    BY <2>1
  <2>3. PICK f, g : OnPath(replay, program, n, f, g, k)
    BY <2>2
  <2>4. PICK s : s = replay.snapshot
    OBVIOUS
  <2>5. /\ Stands(replay, f[k], s.trace, g[k], f[0].counters, s) /\ f[n] = s.final_state
        /\ g[n] = Len(s.trace)
    BY <2>3, <2>4 DEF OnPath, Path
  <2>6. replay.intact
    BY <2>5 DEF Stands, Stage
  <2>7. ASSUME Finished
        PROVE  /\ replay.pc = s.final_state.pc
               /\ replay.timestamp = s.final_state.timestamp
               /\ replay.registers = s.final_state.registers
               /\ replay.register_timestamps = s.final_state.register_timestamps
               /\ replay.log = <<>>
    <3>1. k = n
      BY <2>3, <2>7, BoundIsTheEnd
    <3>2. /\ replay.pc = f[n].pc /\ replay.timestamp = f[n].timestamp
          /\ replay.registers = f[n].registers
          /\ replay.register_timestamps = f[n].register_timestamps
          /\ Rest(replay.log, s.trace, g[n])
      BY <2>5, <3>1 DEF Stands, Stage
    <3>3. replay.log = <<>>
      BY <2>5, <3>2, RestEnds
    <3> QED BY <2>5, <3>2, <3>3
  <2> QED BY <2>4, <2>6, <2>7 DEF ReplayReachesRecorded
<1> QED BY <1>1, SpecReplays, PTL

\* The cycles of a snapshot are those its counters tell of.
LEMMA CyclesAreCounted ==
  ASSUME NEW s, Settled(s.initial_state), Settled(s.final_state)
  PROVE  Cycles(s) = SumFunction([c \in Families |->
                                    s.final_state.counters[c] - s.initial_state.counters[c]])
<1>1. PICK a, b : a = s.initial_state /\ b = s.final_state
  OBVIOUS
<1>2. Settled(a) /\ Settled(b)
  BY <1>1
<1>3. /\ Cycles(s) = CountedCycles(b.counters) - CountedCycles(a.counters)
      /\ CountedCycles(a.counters) \in Nat /\ CountedCycles(b.counters) \in Nat
  BY <1>1, <1>2, SettledCycles DEF Cycles, TIMESTAMP_STEP
<1>4. a.counters \in [CounterType -> Nat] /\ b.counters \in [CounterType -> Nat]
      /\ Families \subseteq CounterType
  BY <1>2, SettledFields DEF CounterType
<1>5. PICK d : d = [c \in Families |-> b.counters[c] - a.counters[c]]
  OBVIOUS
<1>6. PICK e : e = [c \in Families |-> a.counters[c]]
  OBVIOUS
<1>7. d \in [Families -> Int] /\ e \in [Families -> Int]
  <2>1. \A c \in Families : b.counters[c] \in Nat /\ a.counters[c] \in Nat
    BY <1>4
  <2> QED BY <1>5, <1>6, <2>1
<1>8. [c \in Families |-> d[c] + e[c]] = [c \in Families |-> b.counters[c]]
  <2>1. \A c \in Families : d[c] + e[c] = b.counters[c]
    BY <1>4, <1>5, <1>6
  <2> QED BY <2>1
<1>9. SumFunction([c \in Families |-> d[c] + e[c]]) = SumFunction(d) + SumFunction(e)
  BY <1>7, FamiliesAreFinite, SumPlus
<1>10. CountedCycles(b.counters) = SumFunction(d) + CountedCycles(a.counters)
  BY <1>6, <1>8, <1>9 DEF CountedCycles
<1>11. SumFunction(d) \in Int
  BY <1>7, FamiliesAreFinite, SumInt
<1>12. Cycles(s) = SumFunction(d)
  BY <1>3, <1>10, <1>11
<1> QED BY <1>1, <1>5, <1>12

\* The counters by which process_snapshot lays out the tracing data are the numbers
\* of the rows that the replay of the chunk writes, and the cycles of the chunk.
THEOREM RowsStayCounted ==
  ASSUME BranchesMove
  PROVE  Spec => []RowsMatchCounters
<1>1. Typed /\ Recorded /\ Replaying => RowsMatchCounters
  <2> SUFFICES ASSUME Typed, Recorded, Replaying PROVE RowsMatchCounters
    OBVIOUS
  <2>1. ASSUME replay # None, Finished
        PROVE  replay.counted = [c \in CounterType |->
                                   replay.snapshot.final_state.counters[c]
                                     - replay.snapshot.initial_state.counters[c]]
    <3>1. PICK n \in Nat : \E k \in 0..n : \E f, g : OnPath(replay, program, n, f, g, k)
      BY <2>1 DEF Replaying, Follows
    <3>2. PICK k \in 0..n : \E f, g : OnPath(replay, program, n, f, g, k)
      BY <3>1
    <3>3. PICK f, g : OnPath(replay, program, n, f, g, k)
      BY <3>2
    <3>4. k = n
      BY <2>1, <3>3, BoundIsTheEnd
    <3>5. PICK a, b, c : a = f[0].counters /\ b = f[n].counters /\ c = replay.counted
      OBVIOUS
    <3>6. Tally(c, a, b) /\ a = replay.snapshot.initial_state.counters
          /\ b = replay.snapshot.final_state.counters
      BY <3>3, <3>4, <3>5 DEF OnPath, Stands
    <3>7. a \in [CounterType -> Nat] /\ b \in [CounterType -> Nat]
      <4>1. 0 \in 0..n /\ n \in 0..n
        OBVIOUS
      <4>2. Settled(f[0]) /\ Settled(f[n])
        BY <3>3, <4>1 DEF OnPath, Path
      <4> QED BY <3>5, <4>2, SettledFields
    <3>8. \A x \in CounterType : c[x] = b[x] - a[x]
      <4>1. \A x \in CounterType : a[x] \in Nat /\ b[x] \in Nat /\ c[x] \in Nat /\ a[x] + c[x] = b[x]
        BY <3>6, <3>7 DEF Tally
      <4> QED BY <4>1
    <3>9. c = [x \in CounterType |-> b[x] - a[x]]
      BY <3>6, <3>8 DEF Tally
    <3> QED BY <3>5, <3>6, <3>9
  <2>2. ASSUME NEW s \in snapshots
        PROVE  Cycles(s) = SumFunction([c \in Families |->
                             s.final_state.counters[c] - s.initial_state.counters[c]])
    <3>1. Reaches(program, s.initial_state, s.final_state, s.trace)
      BY DEF Recorded
    <3>2. PICK n \in Nat : \E f, g : /\ Path(program, s.trace, f, g, n)
                                     /\ f[0] = s.initial_state /\ f[n] = s.final_state
      BY <3>1 DEF Reaches
    <3>3. 0 \in 0..n /\ n \in 0..n
      OBVIOUS
    <3>4. Settled(s.initial_state) /\ Settled(s.final_state)
      BY <3>2, <3>3 DEF Path
    <3> QED BY <3>4, CyclesAreCounted
  <2> QED BY <2>1, <2>2 DEF RowsMatchCounters
<1> QED BY <1>1, SpecRecords, SpecReplays, PTL

-----------------------------------------------------------------------------
(* What rows add to the balance of an entry.                               *)

Same(e, x) == IF e = x THEN 1 ELSE 0

Writes(rows, e) == {n \in DOMAIN rows : rows[n][2] = e}
Reads(rows, e) == {n \in DOMAIN rows : rows[n][1] = e}
Net(rows, e) == Cardinality(Writes(rows, e)) - Cardinality(Reads(rows, e))

LEMMA NetIsInt ==
  ASSUME NEW rows, IsFiniteSet(DOMAIN rows), NEW e
  PROVE  /\ IsFiniteSet(Writes(rows, e)) /\ IsFiniteSet(Reads(rows, e))
         /\ Cardinality(Writes(rows, e)) \in Nat /\ Cardinality(Reads(rows, e)) \in Nat
         /\ Net(rows, e) \in Int
<1>1. Writes(rows, e) \subseteq DOMAIN rows /\ Reads(rows, e) \subseteq DOMAIN rows
  BY DEF Writes, Reads
<1>2. IsFiniteSet(Writes(rows, e)) /\ IsFiniteSet(Reads(rows, e))
  BY <1>1, FS_Subset
<1>3. Cardinality(Writes(rows, e)) \in Nat /\ Cardinality(Reads(rows, e)) \in Nat
  BY <1>2, FS_CardinalityType
<1> QED BY <1>2, <1>3 DEF Net

\* A balance holds what is not zero.
Balanced(b) ==
  /\ b = [e \in DOMAIN b |-> b[e]]
  /\ \A e \in DOMAIN b : b[e] \in Int /\ b[e] # 0

LEMMA HeldIsInt ==
  ASSUME NEW b, Balanced(b), NEW e
  PROVE  Held(b, e) \in Int
BY DEF Balanced, Held

LEMMA SettleAdds ==
  ASSUME NEW b, Balanced(b), NEW rows, IsFiniteSet(DOMAIN rows)
  PROVE  /\ Balanced(Settle(b, rows))
         /\ \A e : Held(Settle(b, rows), e) = Held(b, e) + Net(rows, e)
<1>1. ASSUME NEW e
      PROVE  Total(b, rows, e) = Held(b, e) + Net(rows, e) /\ Total(b, rows, e) \in Int
  <2>1. /\ Held(b, e) \in Int /\ Cardinality(Writes(rows, e)) \in Nat
        /\ Cardinality(Reads(rows, e)) \in Nat
    BY HeldIsInt, NetIsInt
  <2>2. Total(b, rows, e) = Held(b, e) + Cardinality(Writes(rows, e)) - Cardinality(Reads(rows, e))
    BY DEF Total, Writes, Reads
  <2> QED BY <2>1, <2>2 DEF Net
<1> DEFINE entries == DOMAIN b \cup {rows[n][1] : n \in DOMAIN rows} \cup {rows[n][2] : n \in DOMAIN rows}
<1>2. PICK c : c = Settle(b, rows)
  OBVIOUS
<1>3. c = [x \in {y \in entries : Total(b, rows, y) # 0} |-> Total(b, rows, x)]
  BY <1>2 DEF Settle
<1>4. ASSUME NEW e, e \notin entries
      PROVE  Held(b, e) = 0 /\ Net(rows, e) = 0
  <2>1. e \notin DOMAIN b /\ \A n \in DOMAIN rows : rows[n][1] # e /\ rows[n][2] # e
    BY <1>4
  <2>2. Writes(rows, e) = {} /\ Reads(rows, e) = {}
    BY <2>1 DEF Writes, Reads
  <2> QED BY <2>1, <2>2, FS_EmptySet DEF Held, Net
<1> HIDE DEF entries
<1>5. /\ DOMAIN c = {y \in entries : Total(b, rows, y) # 0}
      /\ \A x \in DOMAIN c : c[x] = Total(b, rows, x) /\ x \in entries /\ Total(b, rows, x) # 0
      /\ c = [x \in DOMAIN c |-> c[x]]
  BY <1>3
<1>6. ASSUME NEW e
      PROVE  Held(c, e) = Held(b, e) + Net(rows, e)
  <2>1. CASE e \in DOMAIN c
    BY <1>1, <1>5, <2>1 DEF Held
  <2>2. CASE e \notin DOMAIN c
    <3>1. Held(c, e) = 0
      BY <2>2 DEF Held
    <3>2. CASE e \in entries
      <4>1. Total(b, rows, e) = 0
        BY <1>5, <2>2, <3>2
      <4> QED BY <1>1, <3>1, <4>1
    <3>3. CASE e \notin entries
      BY <1>4, <3>1, <3>3
    <3> QED BY <3>2, <3>3
  <2> QED BY <2>1, <2>2
<1>7. Balanced(c)
  BY <1>1, <1>5 DEF Balanced
<1> QED BY <1>2, <1>6, <1>7

LEMMA NetAppends ==
  ASSUME NEW S, NEW rows \in Seq(S), NEW row, NEW e
  PROVE  /\ Net(Append(rows, row), e) = Net(rows, e) + Same(e, row[2]) - Same(e, row[1])
         /\ Net(rows, e) \in Int
<1>1. PICK n \in Nat : n = Len(rows) /\ DOMAIN rows = 1..n
  OBVIOUS
<1>2. PICK more : more = Append(rows, row)
  OBVIOUS
<1>3. DOMAIN more = 1..(n + 1) /\ more[n + 1] = row /\ \A k \in 1..n : more[k] = rows[k]
  <2>1. PICK T : T = S \cup {row}
    OBVIOUS
  <2>2. rows \in Seq(T) /\ row \in T
    BY <2>1
  <2> QED BY <1>1, <1>2, <2>2
<1>4. 1..(n + 1) = (1..n) \cup {n + 1} /\ n + 1 \notin 1..n
  OBVIOUS
<1>5. IsFiniteSet(DOMAIN rows)
  BY <1>1, FS_Interval
<1>6. Cardinality(Writes(more, e)) = Cardinality(Writes(rows, e)) + Same(e, row[2])
  <2>1. CASE row[2] = e
    <3>1. Writes(more, e) = Writes(rows, e) \cup {n + 1} /\ n + 1 \notin Writes(rows, e)
      BY <1>1, <1>3, <1>4, <2>1 DEF Writes
    <3>2. Cardinality(Writes(rows, e) \cup {n + 1}) = Cardinality(Writes(rows, e)) + 1
      BY <1>5, <3>1, NetIsInt, FS_AddElement
    <3> QED BY <2>1, <3>1, <3>2 DEF Same
  <2>2. CASE row[2] # e
    <3>1. Writes(more, e) = Writes(rows, e)
      BY <1>1, <1>3, <1>4, <2>2 DEF Writes
    <3> QED BY <1>5, <2>2, <3>1, NetIsInt DEF Same
  <2> QED BY <2>1, <2>2
<1>7. Cardinality(Reads(more, e)) = Cardinality(Reads(rows, e)) + Same(e, row[1])
  <2>1. CASE row[1] = e
    <3>1. Reads(more, e) = Reads(rows, e) \cup {n + 1} /\ n + 1 \notin Reads(rows, e)
      BY <1>1, <1>3, <1>4, <2>1 DEF Reads
    <3>2. Cardinality(Reads(rows, e) \cup {n + 1}) = Cardinality(Reads(rows, e)) + 1
      BY <1>5, <3>1, NetIsInt, FS_AddElement
    <3> QED BY <2>1, <3>1, <3>2 DEF Same
  <2>2. CASE row[1] # e
    <3>1. Reads(more, e) = Reads(rows, e)
      BY <1>1, <1>3, <1>4, <2>2 DEF Reads
    <3> QED BY <1>5, <2>2, <3>1, NetIsInt DEF Same
  <2> QED BY <2>1, <2>2
<1>8. Same(e, row[2]) \in Int /\ Same(e, row[1]) \in Int
  BY DEF Same
<1>9. /\ Cardinality(Writes(rows, e)) \in Nat /\ Cardinality(Reads(rows, e)) \in Nat
      /\ Net(rows, e) \in Int
  BY <1>5, NetIsInt
<1> QED BY <1>2, <1>6, <1>7, <1>8, <1>9 DEF Net

-----------------------------------------------------------------------------
(* The entries that stand: what the words and registers hold, and since    *)
(* when.                                                                   *)

Standing(S, entry, e) == IF \E x \in S : e = entry[x] THEN 1 ELSE 0

\* Two ways that entries stand differ in one, and an entry tells where it stands.
Differ(S, f, g, a) ==
  /\ a \in S
  /\ \A x \in S : x # a => g[x] = f[x]
  /\ \A x \in S : f[x][2] = x /\ g[x][2] = x

LEMMA StandingMoves ==
  ASSUME NEW S, NEW f, NEW g, NEW a, Differ(S, f, g, a), NEW e
  PROVE  /\ Standing(S, g, e) = Standing(S, f, e) + Same(e, g[a]) - Same(e, f[a])
         /\ Standing(S, f, e) \in Int /\ Standing(S, g, e) \in Int
<1>1. /\ a \in S
      /\ \A x \in S : x # a => g[x] = f[x]
      /\ \A x \in S : f[x][2] = x /\ g[x][2] = x
  BY DEF Differ
<1>2. CASE \E x \in S : x # a /\ e = f[x]
  <2>1. PICK x \in S : x # a /\ e = f[x]
    BY <1>2
  <2>2. e = g[x] /\ e[2] = x
    BY <1>1, <2>1
  <2>3. e # f[a] /\ e # g[a]
    BY <1>1, <2>1, <2>2
  <2>4. Standing(S, f, e) = 1 /\ Standing(S, g, e) = 1
    BY ONLY <2>1, <2>2 DEF Standing
  <2>5. Same(e, g[a]) = 0 /\ Same(e, f[a]) = 0
    BY ONLY <2>3 DEF Same
  <2> QED BY ONLY <2>4, <2>5
<1>3. CASE \A x \in S : x # a => e # f[x]
  <2>1. Standing(S, f, e) = Same(e, f[a])
    BY <1>1, <1>3 DEF Standing, Same
  <2>2. Standing(S, g, e) = Same(e, g[a])
    BY <1>1, <1>3 DEF Standing, Same
  <2> QED BY <2>1, <2>2 DEF Same
<1> QED BY <1>2, <1>3

RegisterEntries(registers, stamps) == [r \in Registers |-> <<"reg", r, registers[r], stamps[r]>>]

WordEntries(words, ts) == [w \in Words |-> <<"ram", w, mask_read_for_witness(w, words[w]), ts[w]>>]

OfRegisters(registers, stamps, e) == Standing(Registers, RegisterEntries(registers, stamps), e)

OfWords(words, ts, e) == Standing(Words, WordEntries(words, ts), e)

LEMMA StandingIsInt ==
  ASSUME NEW e
  PROVE  /\ \A x, y : OfRegisters(x, y, e) \in Int /\ OfWords(x, y, e) \in Int
         /\ \A x : Same(e, x) \in Int
BY DEF OfRegisters, OfWords, Standing, Same

LEMMA RegisterMoves ==
  ASSUME NEW registers, DOMAIN registers = Registers, NEW stamps, DOMAIN stamps = Registers,
         NEW r \in Registers, NEW value, NEW t, NEW e
  PROVE  OfRegisters(Put(registers, r, value), Stamp(stamps, r, t), e)
           = OfRegisters(registers, stamps, e) + Same(e, <<"reg", r, value, t>>)
               - Same(e, <<"reg", r, registers[r], stamps[r]>>)
<1>1. PICK f, g : /\ f = RegisterEntries(registers, stamps)
                  /\ g = RegisterEntries(Put(registers, r, value), Stamp(stamps, r, t))
  OBVIOUS
<1>2. /\ \A x \in Registers : x # r => g[x] = f[x]
      /\ \A x \in Registers : f[x][2] = x /\ g[x][2] = x
      /\ f[r] = <<"reg", r, registers[r], stamps[r]>> /\ g[r] = <<"reg", r, value, t>>
  BY <1>1 DEF RegisterEntries, Put, Stamp
<1>3. Standing(Registers, g, e) = Standing(Registers, f, e) + Same(e, g[r]) - Same(e, f[r])
  <2>1. Differ(Registers, f, g, r)
    BY <1>2 DEF Differ
  <2> QED BY ONLY <2>1, StandingMoves
<1> QED BY <1>1, <1>2, <1>3 DEF OfRegisters

\* What the access of a word adds to the balance.
Renewal(e, w, old, since, new, t) == Same(e, <<"ram", w, new, t>>) - Same(e, <<"ram", w, old, since>>)

\* One word is set.
Sets(new, old, w, x) == DOMAIN old = Words /\ new = [old EXCEPT ![w] = x]

LEMMA WordMoves ==
  ASSUME NEW w \in Words, NEW words, NEW words2, NEW value, Sets(words2, words, w, value),
         NEW ts, NEW ts2, NEW t, Sets(ts2, ts, w, t), NEW e
  PROVE  OfWords(words2, ts2, e)
           = OfWords(words, ts, e)
               + Renewal(e, w, mask_read_for_witness(w, words[w]), ts[w],
                         mask_read_for_witness(w, value), t)
<1>1. PICK f, g : f = WordEntries(words, ts) /\ g = WordEntries(words2, ts2)
  OBVIOUS
<1>2. /\ \A x \in Words : x # w => g[x] = f[x]
      /\ \A x \in Words : f[x][2] = x /\ g[x][2] = x
      /\ f[w] = <<"ram", w, mask_read_for_witness(w, words[w]), ts[w]>>
      /\ g[w] = <<"ram", w, mask_read_for_witness(w, value), t>>
  BY <1>1 DEF WordEntries, Sets
<1>3. /\ Standing(Words, g, e) = Standing(Words, f, e) + Same(e, g[w]) - Same(e, f[w])
      /\ Standing(Words, f, e) \in Int
  <2>1. Differ(Words, f, g, w)
    BY <1>2 DEF Differ
  <2> QED BY ONLY <2>1, StandingMoves
<1>4. Same(e, g[w]) \in Int /\ Same(e, f[w]) \in Int
  BY StandingIsInt
<1> QED BY <1>1, <1>2, <1>3, <1>4 DEF OfWords, Renewal

-----------------------------------------------------------------------------
(* What the rows of a replayed instruction add.                            *)

\* But for what its registers hold, the rows of v add n to the balance of e.
Adds(v, e, n, log, t) ==
  /\ DOMAIN v = VmFields /\ v.log = log /\ v.timestamp = t
  /\ DOMAIN v.registers = Registers /\ DOMAIN v.register_timestamps = Registers
  /\ \E S : v.rows \in Seq(S)
  /\ n \in Int
  /\ Net(v.rows, e) = n + OfRegisters(v.registers, v.register_timestamps, e)

LEMMA RegisterAdds ==
  ASSUME NEW v, NEW e, NEW n, NEW log, NEW t, Adds(v, e, n, log, t),
         NEW offset, NEW r \in Registers
  PROVE  /\ \A value : Adds(write_register_with_ts(v, offset, r, value), e, n, log, t)
         /\ Adds(read_register_with_ts(v, offset, r), e, n, log, t)
<1>1. ASSUME NEW value
      PROVE  Adds(write_register_with_ts(v, offset, r, value), e, n, log, t)
  <2>1. PICK x, now : x = (IF r = 0 THEN 0 ELSE value) /\ now = t + offset
    OBVIOUS
  <2>2. PICK read, written : /\ read = <<"reg", r, v.registers[r], v.register_timestamps[r]>>
                             /\ written = <<"reg", r, x, now>>
    OBVIOUS
  <2>3. PICK row, rows : row = <<read, written>> /\ rows = Append(v.rows, row)
    OBVIOUS
  <2>4. PICK after : after = write_register_with_ts(v, offset, r, value)
    OBVIOUS
  <2>5. v.timestamp = t /\ DOMAIN v = VmFields
    BY DEF Adds
  <2>6. after = [[v EXCEPT !.rows = rows] EXCEPT !.registers[r] = x, !.register_timestamps[r] = now]
    BY <2>1, <2>2, <2>3, <2>4, <2>5 DEF write_register_with_ts, Row
  <2>7. /\ DOMAIN after = VmFields /\ after.rows = rows /\ after.log = v.log
        /\ after.timestamp = v.timestamp
        /\ after.registers = Put(v.registers, r, x)
        /\ after.register_timestamps = Stamp(v.register_timestamps, r, now)
    BY <2>5, <2>6 DEF VmFields, Put, Stamp
  <2>8. DOMAIN after.registers = Registers /\ DOMAIN after.register_timestamps = Registers
    BY <2>7 DEF Adds, Put, Stamp
  <2>9. PICK S : v.rows \in Seq(S)
    BY DEF Adds
  <2>10. \E T : rows \in Seq(T)
    <3>1. PICK T : T = S \cup {row}
      OBVIOUS
    <3>2. v.rows \in Seq(T) /\ row \in T
      BY <2>9, <3>1
    <3> QED BY <2>3, <3>2
  <2>11. Net(rows, e) = Net(v.rows, e) + Same(e, written) - Same(e, read)
    <3>1. row[1] = read /\ row[2] = written
      BY <2>3
    <3> QED BY <2>3, <2>9, <3>1, NetAppends
  <2>12. OfRegisters(after.registers, after.register_timestamps, e)
           = OfRegisters(v.registers, v.register_timestamps, e) + Same(e, written) - Same(e, read)
    BY <2>2, <2>7, RegisterMoves DEF Adds
  <2>13. /\ Same(e, written) \in Int /\ Same(e, read) \in Int
         /\ OfRegisters(v.registers, v.register_timestamps, e) \in Int
    BY StandingIsInt
  <2>14. Net(after.rows, e) = n + OfRegisters(after.registers, after.register_timestamps, e)
    BY <2>7, <2>11, <2>12, <2>13 DEF Adds
  <2>15. Adds(after, e, n, log, t)
    BY <2>7, <2>8, <2>10, <2>14 DEF Adds
  <2> QED BY <2>4, <2>15
<1>2. read_register_with_ts(v, offset, r) = write_register_with_ts(v, offset, r, v.registers[r])
  BY DEF read_register_with_ts
<1> QED BY <1>1, <1>2

LEMMA RowAdds ==
  ASSUME NEW v, NEW e, NEW n, NEW log, NEW t, Adds(v, e, n, log, t),
         NEW w, NEW old, NEW since, NEW new, NEW now
  PROVE  Adds(Row(v, <<"ram", w, old, since>>, <<"ram", w, new, now>>), e,
              n + Renewal(e, w, old, since, new, now), log, t)
<1>1. PICK read, written : read = <<"ram", w, old, since>> /\ written = <<"ram", w, new, now>>
  OBVIOUS
<1>2. PICK row, rows : row = <<read, written>> /\ rows = Append(v.rows, row)
  OBVIOUS
<1>3. PICK after : after = Row(v, read, written)
  OBVIOUS
<1>4. after = [v EXCEPT !.rows = rows] /\ DOMAIN v = VmFields
  BY <1>2, <1>3 DEF Row, Adds
<1>5. /\ DOMAIN after = VmFields /\ after.rows = rows /\ after.log = v.log
      /\ after.timestamp = v.timestamp /\ after.registers = v.registers
      /\ after.register_timestamps = v.register_timestamps
  BY <1>4 DEF VmFields
<1>6. PICK S : v.rows \in Seq(S)
  BY DEF Adds
<1>7. \E T : rows \in Seq(T)
  <2>1. PICK T : T = S \cup {row}
    OBVIOUS
  <2>2. v.rows \in Seq(T) /\ row \in T
    BY <1>6, <2>1
  <2> QED BY <1>2, <2>2
<1>8. Net(rows, e) = Net(v.rows, e) + Same(e, written) - Same(e, read)
  <2>1. row[1] = read /\ row[2] = written
    BY <1>2
  <2> QED BY <1>2, <1>6, <2>1, NetAppends
<1>9. PICK d \in Int : d = Renewal(e, w, old, since, new, now) /\ d = Same(e, written) - Same(e, read)
  BY <1>1, StandingIsInt DEF Renewal
<1>10. /\ Same(e, written) \in Int /\ Same(e, read) \in Int
       /\ OfRegisters(v.registers, v.register_timestamps, e) \in Int
  BY StandingIsInt
<1>11. /\ n + d \in Int
       /\ Net(after.rows, e) = (n + d) + OfRegisters(after.registers, after.register_timestamps, e)
  BY <1>5, <1>8, <1>9, <1>10 DEF Adds
<1>12. Adds(after, e, n + d, log, t)
  BY <1>5, <1>7, <1>11 DEF Adds
<1> QED BY <1>1, <1>3, <1>9, <1>12

\* Two accesses of a word, one after the other.
LEMMA RenewalsJoin ==
  ASSUME NEW e, NEW w, NEW old, NEW since, NEW new, NEW t
  PROVE  /\ Renewal(e, w, old, since, new, t) \in Int
         /\ \A x, s : Renewal(e, w, old, since, x, s) + Renewal(e, w, x, s, new, t)
                        = Renewal(e, w, old, since, new, t)
<1>1. \A x, y : Same(e, <<"ram", w, x, y>>) \in Int
  BY StandingIsInt
<1> QED BY <1>1 DEF Renewal

\* What is not the log, the timestamp, a register or a row does not matter.
LEMMA OtherFieldsAdd ==
  ASSUME NEW v, NEW e, NEW n, NEW log, NEW t, Adds(v, e, n, log, t), NEW x,
         DOMAIN x = VmFields, x.rows = v.rows, x.registers = v.registers,
         x.register_timestamps = v.register_timestamps, NEW l, x.log = l, NEW s, x.timestamp = s
  PROVE  Adds(x, e, n, l, s)
BY DEF Adds

LEMMA PoppedAdds ==
  ASSUME NEW v, NEW e, NEW n, NEW log, NEW t, Adds(v, e, n, log, t), log # <<>>
  PROVE  Adds(Popped(v), e, n, Tail(log), t) /\ Entry(v) = Head(log)
<1>1. DOMAIN v = VmFields /\ v.log = log /\ v.timestamp = t
  BY DEF Adds
<1>2. PICK x : x = Popped(v)
  OBVIOUS
<1>3. x = [v EXCEPT !.log = Tail(log)]
  BY <1>1, <1>2 DEF Popped
<1>4. /\ DOMAIN x = VmFields /\ x.rows = v.rows /\ x.registers = v.registers
      /\ x.register_timestamps = v.register_timestamps /\ x.log = Tail(log) /\ x.timestamp = t
  BY <1>1, <1>3 DEF VmFields
<1>5. Adds(x, e, n, Tail(log), t)
  BY ONLY <1>4, OtherFieldsAdd, Adds(v, e, n, log, t)
<1> QED BY <1>1, <1>2, <1>5 DEF Entry

LEMMA AssertedAdds ==
  ASSUME NEW v, NEW e, NEW n, NEW log, NEW t, Adds(v, e, n, log, t), NEW condition
  PROVE  Adds(Asserted(v, condition), e, n, log, t)
<1>1. DOMAIN v = VmFields /\ v.log = log /\ v.timestamp = t
  BY DEF Adds
<1>2. PICK x : x = Asserted(v, condition)
  OBVIOUS
<1>3. /\ DOMAIN x = VmFields /\ x.rows = v.rows /\ x.registers = v.registers
      /\ x.register_timestamps = v.register_timestamps /\ x.log = log /\ x.timestamp = t
  BY <1>1, <1>2 DEF Asserted, VmFields
<1>4. Adds(x, e, n, log, t)
  BY ONLY <1>3, OtherFieldsAdd, Adds(v, e, n, log, t)
<1> QED BY <1>2, <1>4

LEMMA NextTsAdds ==
  ASSUME NEW v, NEW e, NEW n, NEW log, NEW t, Adds(v, e, n, log, t), NEW next, next = t + 4
  PROVE  Adds(NextTs(v), e, n, log, next)
<1>1. DOMAIN v = VmFields /\ v.log = log /\ v.timestamp = t
  BY DEF Adds
<1>2. PICK x : x = NextTs(v)
  OBVIOUS
<1>3. /\ DOMAIN x = VmFields /\ x.rows = v.rows /\ x.registers = v.registers
      /\ x.register_timestamps = v.register_timestamps /\ x.log = log /\ x.timestamp = next
  BY <1>1, <1>2 DEF NextTs, VmFields, TIMESTAMP_STEP
<1>4. Adds(x, e, n, log, next)
  BY ONLY <1>3, OtherFieldsAdd, Adds(v, e, n, log, t)
<1> QED BY <1>2, <1>4

\* An access of a word that the log tells the old value of.
LEMMA AccessAdds ==
  ASSUME NEW v, NEW e, NEW n, NEW log, NEW t, Adds(v, e, n, log, t), log # <<>>,
         NEW offset, NEW w, NEW value, NEW old, old = Head(log)[1], NEW since, since = Head(log)[2],
         NEW x, x = mask_read_for_witness(w, old), NEW now, now = t + offset
  PROVE  /\ Adds(read_word(v, offset, w), e, n + Renewal(e, w, x, since, x, now), Tail(log), t)
         /\ Adds(write_word(v, offset, w, value), e, n + Renewal(e, w, old, since, value, now),
                 Tail(log), t)
<1>1. Entry(v)[1] = old /\ Entry(v)[2] = since /\ v.timestamp = t
  <2>1. Entry(v) = Head(log)
    BY PoppedAdds
  <2> QED BY <2>1 DEF Adds
<1>2. PICK p : p = Popped(v) /\ Adds(p, e, n, Tail(log), t)
  BY PoppedAdds
<1>3. /\ read_word(v, offset, w) = Row(p, <<"ram", w, x, since>>, <<"ram", w, x, now>>)
      /\ write_word(v, offset, w, value) = Row(p, <<"ram", w, old, since>>, <<"ram", w, value, now>>)
  BY <1>1, <1>2 DEF read_word, write_word
<1>4. Adds(Row(p, <<"ram", w, x, since>>, <<"ram", w, x, now>>), e,
           n + Renewal(e, w, x, since, x, now), Tail(log), t)
  BY ONLY <1>2, RowAdds
<1>5. Adds(Row(p, <<"ram", w, old, since>>, <<"ram", w, value, now>>), e,
           n + Renewal(e, w, old, since, value, now), Tail(log), t)
  BY ONLY <1>2, RowAdds
<1> QED BY <1>3, <1>4, <1>5

OfMachine(m, e) == OfRegisters(m.registers, m.register_timestamps, e)

\* The rows of an instruction are settled at its end.
LEMMA AdvanceAdds ==
  ASSUME Balanced(balance), NEW vm, NEW e, NEW n, NEW log, NEW t, Adds(vm, e, n, log, t),
         NEW pc, NEW type, Advance(vm, pc, type)
  PROVE  /\ Balanced(balance')
         /\ Held(balance', e) = Held(balance, e) + n + OfMachine(replay', e)
<1>1. PICK rows : rows = vm.rows
  OBVIOUS
<1>2. IsFiniteSet(DOMAIN rows)
  <2>1. PICK S : rows \in Seq(S)
    BY <1>1 DEF Adds
  <2>2. PICK m \in Nat : DOMAIN rows = 1..m
    BY <2>1
  <2> QED BY <2>2, FS_Interval
<1>3. balance' = Settle(balance, rows)
  BY <1>1 DEF Advance
<1>4. /\ Balanced(Settle(balance, rows))
      /\ Held(Settle(balance, rows), e) = Held(balance, e) + Net(rows, e)
  BY <1>2, SettleAdds
<1>5. PICK registers, stamps : registers = vm.registers /\ stamps = vm.register_timestamps
  OBVIOUS
<1>6. replay'.registers = registers /\ replay'.register_timestamps = stamps
  <2>1. DOMAIN vm = VmFields
    BY DEF Adds
  <2>2. PICK s : s = (pc = replay.pc)
    OBVIOUS
  <2>3. replay' = [vm EXCEPT !.pc = pc, !.timestamp = @ + TIMESTAMP_STEP, !.stopped = s,
                             !.counted[type] = @ + 1]
    BY <2>2 DEF Advance
  <2> QED BY ONLY <1>5, <2>1, <2>3 DEF VmFields
<1>7. Net(rows, e) = n + OfRegisters(registers, stamps, e) /\ n \in Int
  BY <1>1, <1>5 DEF Adds
<1>8. OfRegisters(registers, stamps, e) \in Int /\ Held(balance, e) \in Int
  BY StandingIsInt, HeldIsInt
<1> QED BY <1>3, <1>4, <1>6, <1>7, <1>8 DEF OfMachine

-----------------------------------------------------------------------------
(* What an instruction adds for the words it accesses, told by the log.    *)

LoadNet(i, log, a, u, e) ==
  LET w == a.registers[i.rs1]
      x == mask_read_for_witness(w, log[u + 1][1])
  IN  Renewal(e, w, x, log[u + 1][2], x, a.timestamp + 1)

StoreNet(i, log, a, u, e) ==
  LET old == log[u + 1][1]
      value == a.registers[i.rs2]
  IN  Renewal(e, a.registers[i.rs1], old, log[u + 1][2],
              IF i.op = "sw" THEN value ELSE Merge(old, value), a.timestamp + 2)

SumNet(log, a, u, e) ==
  LET q == a.registers[2]
      x == mask_read_for_witness(q, log[u + 1][1])
      y == log[u + 2][1]
  IN  Renewal(e, q, x, log[u + 1][2], x, a.timestamp + 3)
        + Renewal(e, a.registers[1], y, log[u + 2][2], bigint_impl(y, log[u + 1][1])[1],
                  a.timestamp + 3)

HashNet(log, a, u, e) ==
  LET count == num_rounds(a.registers[3])
      last == LastRound(a.timestamp, count) + 3
      x == log[u + 1][1]
      y == log[u + 2][1]
  IN  Renewal(e, a.registers[1], x, log[u + 1][2], Mixed(x, y)[count], last)
        + Renewal(e, a.registers[2], y, log[u + 2][2], y, last)

WordsNet(i, log, a, u, e) ==
  CASE i.op = "lw" -> LoadNet(i, log, a, u, e)
    [] i.op \in {"sw", "sb"} -> StoreNet(i, log, a, u, e)
    [] i.op = "bigint" -> SumNet(log, a, u, e)
    [] i.op = "blake" -> HashNet(log, a, u, e)
    [] OTHER -> 0

LEMMA WordsNetByName ==
  ASSUME NEW i, NEW log, NEW a, NEW u, NEW e
  PROVE  /\ WordsNet(i, log, a, u, e) \in Int
         /\ i.op = "lw" => WordsNet(i, log, a, u, e) = LoadNet(i, log, a, u, e)
         /\ i.op \in {"sw", "sb"} => WordsNet(i, log, a, u, e) = StoreNet(i, log, a, u, e)
         /\ i.op = "bigint" => WordsNet(i, log, a, u, e) = SumNet(log, a, u, e)
         /\ i.op = "blake" => WordsNet(i, log, a, u, e) = HashNet(log, a, u, e)
         /\ i.op \notin {"lw", "sw", "sb", "bigint", "blake"} => WordsNet(i, log, a, u, e) = 0
<1>1. \A w, old, since, new, t : Renewal(e, w, old, since, new, t) \in Int
  BY RenewalsJoin
<1>2. /\ LoadNet(i, log, a, u, e) \in Int /\ StoreNet(i, log, a, u, e) \in Int
      /\ SumNet(log, a, u, e) \in Int /\ HashNet(log, a, u, e) \in Int
  BY <1>1 DEF LoadNet, StoreNet, SumNet, HashNet
<1>3. PICK n : n = WordsNet(i, log, a, u, e)
  OBVIOUS
<1>4. CASE i.op = "lw"
  BY <1>2, <1>4 DEF WordsNet
<1>5. CASE i.op \in {"sw", "sb"}
  BY <1>2, <1>5 DEF WordsNet
<1>6. CASE i.op = "bigint"
  BY <1>2, <1>6 DEF WordsNet
<1>7. CASE i.op = "blake"
  BY <1>2, <1>7 DEF WordsNet
<1>8. CASE i.op \notin {"lw", "sw", "sb", "bigint", "blake"}
  BY <1>8 DEF WordsNet
<1> QED BY <1>4, <1>5, <1>6, <1>7, <1>8

-----------------------------------------------------------------------------
(* The rows of a replayed instruction.                                     *)

LEMMA FreshAdds ==
  ASSUME NEW a, Settled(a), NEW log, NEW u, NEW from, NEW snapshot, Stands(replay, a, log, u, from, snapshot),
         NEW e
  PROVE  Adds(Fresh, e, 0 - OfMachine(a, e), replay.log, a.timestamp)
<1>1. DOMAIN replay = VmFields /\ replay.timestamp = a.timestamp
      /\ replay.registers = a.registers /\ replay.register_timestamps = a.register_timestamps
  BY DEF Stands, Stage
<1>2. PICK v : v = Fresh
  OBVIOUS
<1>3. /\ DOMAIN v = VmFields /\ v.rows = <<>> /\ v.registers = a.registers
      /\ v.register_timestamps = a.register_timestamps /\ v.log = replay.log
      /\ v.timestamp = a.timestamp
  BY <1>1, <1>2 DEF Fresh, VmFields
<1>4. v.rows \in Seq({})
  BY <1>3
<1>5. Net(v.rows, e) = 0
  <2>1. DOMAIN v.rows = {}
    BY <1>3
  <2>2. Writes(v.rows, e) = {} /\ Reads(v.rows, e) = {}
    BY <2>1 DEF Writes, Reads
  <2> QED BY <2>2, FS_EmptySet DEF Net
<1>6. OfMachine(a, e) = OfRegisters(v.registers, v.register_timestamps, e)
      /\ OfMachine(a, e) \in Int
  BY <1>3, StandingIsInt DEF OfMachine
<1>7. DOMAIN v.registers = Registers /\ DOMAIN v.register_timestamps = Registers
  BY <1>3 DEF Settled
<1> QED BY <1>2, <1>3, <1>4, <1>5, <1>6, <1>7 DEF Adds

\* The rows that an instruction settles are those of its words and registers.
Settles(a, log, u, e) ==
  \E vm, pc, type, n, l, t :
    /\ Advance(vm, pc, type) /\ Adds(vm, e, n, l, t)
    /\ n = WordsNet(Instruction(a.pc), log, a, u, e) - OfMachine(a, e)

LEMMA ThreeAccessesAdd ==
  ASSUME NEW w, NEW e, NEW n, NEW log, NEW t, Adds(w, e, n, log, t),
         NEW r1 \in Registers, NEW r2 \in Registers, NEW r3 \in Registers, NEW value
  PROVE  /\ Adds(read_register_with_ts(read_register_with_ts(w, 0, r1), 1, r2), e, n, log, t)
         /\ Adds(write_register_with_ts(
                   read_register_with_ts(read_register_with_ts(w, 0, r1), 1, r2), 2, r3, value),
                 e, n, log, t)
<1>1. PICK v1 : v1 = read_register_with_ts(w, 0, r1) /\ Adds(v1, e, n, log, t)
  BY RegisterAdds
<1>2. PICK v2 : v2 = read_register_with_ts(v1, 1, r2) /\ Adds(v2, e, n, log, t)
  BY <1>1, RegisterAdds
<1>3. Adds(write_register_with_ts(v2, 2, r3, value), e, n, log, t)
  BY <1>2, RegisterAdds
<1> QED BY <1>1, <1>2, <1>3

\* Instructions that access three registers and no word.
LEMMA PlainSettled ==
  ASSUME NEW a, Settled(a), NEW log, NEW u, NEW from, NEW snapshot,
         Stands(replay, a, log, u, from, snapshot), NEW e,
         NEW r1 \in Registers, NEW r2 \in Registers, NEW r3 \in Registers, NEW value,
         NEW type, NEW pc,
         Advance(write_register_with_ts(
                   read_register_with_ts(read_register_with_ts(Fresh, 0, r1), 1, r2), 2, r3, value),
                 pc, type),
         Instruction(a.pc).op \notin {"lw", "sw", "sb", "bigint", "blake"}
  PROVE  Settles(a, log, u, e)
<1>1. PICK n : n = 0 - OfMachine(a, e) /\ OfMachine(a, e) \in Int
  BY StandingIsInt DEF OfMachine
<1>2. Adds(Fresh, e, n, replay.log, a.timestamp)
  BY <1>1, FreshAdds
<1>3. PICK vm : /\ vm = write_register_with_ts(
                          read_register_with_ts(read_register_with_ts(Fresh, 0, r1), 1, r2), 2, r3,
                          value)
                /\ Adds(vm, e, n, replay.log, a.timestamp)
  BY <1>2, ThreeAccessesAdd
<1>4. n = WordsNet(Instruction(a.pc), log, a, u, e) - OfMachine(a, e)
  BY <1>1, WordsNetByName
<1>5. Advance(vm, pc, type)
  BY <1>3
<1> QED BY ONLY <1>3, <1>4, <1>5 DEF Settles

LEMMA PlainInstructionsSettle ==
  ASSUME NEW a, NEW log, NEW u, NEW b, NEW v, NEW from, NEW snapshot,
         Before(a, log, u, b, v, from, snapshot), NEW e,
         ReplayAdd \/ ReplayLui \/ ReplayJal \/ ReplayBeq \/ ReplayWriteNonDeterminism
  PROVE  Settles(a, log, u, e)
<1>1. PICK i : i = Instruction(a.pc)
  OBVIOUS
<1>2. /\ replay.pc = a.pc /\ i \in InstructionType
      /\ Settled(a) /\ Stands(replay, a, log, u, from, snapshot)
  BY <1>1, Starts DEF Before
<1>3. 0 \in Registers /\ i.rd \in Registers /\ i.rs1 \in Registers /\ i.rs2 \in Registers
  BY <1>2, InstructionFields DEF Registers
<1>4. PICK plain : plain = {"add", "lui", "jal", "beq", "nd_write"}
  OBVIOUS
<1>5. \E r1, r2, r3 \in Registers : \E value, pc, type :
        /\ i.op \in plain
        /\ Advance(write_register_with_ts(
                     read_register_with_ts(read_register_with_ts(Fresh, 0, r1), 1, r2), 2, r3, value),
                   pc, type)
  <2>1. CASE ReplayAdd
    <3>1. PICK x : x = Wrap(replay.registers[i.rs1] + replay.registers[i.rs2])
      OBVIOUS
    <3>2. /\ i.op \in plain
          /\ Advance(write_register_with_ts(
                       read_register_with_ts(read_register_with_ts(Fresh, 0, i.rs1), 1, i.rs2), 2,
                       i.rd, x),
                     a.pc + 1, "AddSubLui")
      BY <1>1, <1>2, <1>4, <2>1, <3>1 DEF ReplayAdd, Replays
    <3> QED BY <1>3, <3>2
  <2>2. CASE ReplayLui
    <3>1. /\ i.op \in plain
          /\ Advance(write_register_with_ts(
                       read_register_with_ts(read_register_with_ts(Fresh, 0, 0), 1, 0), 2,
                       i.rd, i.imm),
                     a.pc + 1, "AddSubLui")
      BY <1>1, <1>2, <1>4, <2>2 DEF ReplayLui, Replays, touch_x0_twice
    <3> QED BY <1>3, <3>1
  <2>3. CASE ReplayJal
    <3>1. PICK x : x = Wrap(a.pc + 1)
      OBVIOUS
    <3>2. /\ i.op \in plain
          /\ Advance(write_register_with_ts(
                       read_register_with_ts(read_register_with_ts(Fresh, 0, 0), 1, 0), 2, i.rd, x),
                     i.imm, "BranchSlt")
      BY <1>1, <1>2, <1>4, <2>3, <3>1 DEF ReplayJal, Replays, touch_x0_twice
    <3> QED BY <1>3, <3>2
  <2>4. CASE ReplayBeq
    <3>1. PICK x : x = IF replay.registers[i.rs1] = replay.registers[i.rs2] THEN i.imm ELSE a.pc + 1
      OBVIOUS
    <3>2. /\ i.op \in plain
          /\ Advance(write_register_with_ts(
                       read_register_with_ts(read_register_with_ts(Fresh, 0, i.rs1), 1, i.rs2), 2,
                       0, 0),
                     x, "BranchSlt")
      BY <1>1, <1>2, <1>4, <2>4, <3>1 DEF ReplayBeq, Replays
    <3> QED BY <1>3, <3>2
  <2>5. CASE ReplayWriteNonDeterminism
    <3>1. PICK v2 : v2 = read_register_with_ts(read_register_with_ts(Fresh, 0, i.rs1), 1, 0)
      OBVIOUS
    <3>2. /\ i.op \in plain
          /\ Advance(read_register_with_ts(v2, 2, 0), a.pc + 1, "ShiftBinaryCsr")
      BY <1>1, <1>2, <1>4, <2>5, <3>1 DEF ReplayWriteNonDeterminism, Replays
    <3>3. PICK x : x = v2.registers[0]
      OBVIOUS
    <3>4. Advance(write_register_with_ts(v2, 2, 0, x), a.pc + 1, "ShiftBinaryCsr")
      BY <3>2, <3>3 DEF read_register_with_ts
    <3> QED BY <1>3, <3>1, <3>2, <3>4
  <2> QED BY <2>1, <2>2, <2>3, <2>4, <2>5
<1>6. PICK r1 \in Registers, r2 \in Registers, r3 \in Registers :
        \E value, pc, type :
          /\ i.op \in plain
          /\ Advance(write_register_with_ts(
                       read_register_with_ts(read_register_with_ts(Fresh, 0, r1), 1, r2), 2, r3, value),
                     pc, type)
  BY <1>5
<1>7. PICK value, pc, type :
        /\ i.op \in plain
        /\ Advance(write_register_with_ts(
                     read_register_with_ts(read_register_with_ts(Fresh, 0, r1), 1, r2), 2, r3, value),
                   pc, type)
  BY <1>6
<1>8. Instruction(a.pc).op \notin {"lw", "sw", "sb", "bigint", "blake"}
  BY <1>1, <1>4, <1>7
<1> QED BY ONLY <1>2, <1>6, <1>7, <1>8, PlainSettled

\* The replayer is about to take the entry that an instruction of one entry logged.
LEMMA EntryAhead ==
  ASSUME NEW a, NEW log, NEW u, NEW b, NEW v, NEW from, NEW snapshot,
         Before(a, log, u, b, v, from, snapshot), v = u + 1
  PROVE  /\ replay.log # <<>> /\ Head(replay.log) = log[u + 1] /\ Entry(replay) = log[u + 1]
         /\ Settled(a) /\ Stands(replay, a, log, u, from, snapshot)
<1>1. u < Len(log)
  BY NextEntry
<1>2. Rest(replay.log, log, u)
  BY DEF Before, Stands, Stage
<1>3. replay.log # <<>> /\ Head(replay.log) = log[u + 1]
  BY ONLY <1>1, <1>2, RestGoesOn
<1> QED BY <1>3 DEF Before, Entry

LEMMA ReadSettles ==
  ASSUME NEW a, NEW log, NEW u, NEW b, NEW v, NEW from, NEW snapshot,
         Before(a, log, u, b, v, from, snapshot), NEW e, ReplayReadNonDeterminism
  PROVE  Settles(a, log, u, e)
<1>1. PICK i : i = Instruction(a.pc)
  OBVIOUS
<1>2. replay.pc = a.pc /\ i \in InstructionType
  BY <1>1, Starts
<1>3. PICK v1 : v1 = read_register_with_ts(read_register_with_ts(Fresh, 0, 0), 1, 0)
  OBVIOUS
<1>4. PICK condition, x : condition = (Entry(replay)[2] = 0) /\ x = Entry(replay)[1]
  OBVIOUS
<1>5. PICK va : va = Asserted(v1, condition)
  OBVIOUS
<1>6. PICK vm : vm = write_register_with_ts(Popped(va), 2, i.rd, x)
  OBVIOUS
<1>7. i.op = "nd_read" /\ Advance(vm, a.pc + 1, "ShiftBinaryCsr")
  BY <1>1, <1>2, <1>3, <1>4, <1>5, <1>6 DEF ReplayReadNonDeterminism, Replays, touch_x0_twice
<1>8. v = u + 1
  <2>1. ReadTurn(i, log, a, u, b, v)
    BY <1>1, <1>7, TurnByName DEF Before
  <2> QED BY <2>1 DEF ReadTurn
<1>9. replay.log # <<>> /\ Settled(a) /\ Stands(replay, a, log, u, from, snapshot)
  BY <1>8, EntryAhead
<1>10. 0 \in Registers /\ i.rd \in Registers
  BY <1>2, InstructionFields DEF Registers
<1>11. PICK n : n = 0 - OfMachine(a, e) /\ OfMachine(a, e) \in Int
  BY StandingIsInt DEF OfMachine
<1>12. PICK l, t : l = replay.log /\ t = a.timestamp
  OBVIOUS
<1>13. Adds(Fresh, e, n, l, t)
  BY <1>9, <1>11, <1>12, FreshAdds
<1>14. Adds(v1, e, n, l, t)
  BY <1>3, <1>10, <1>13, ThreeAccessesAdd
<1>15. Adds(va, e, n, l, t)
  BY <1>5, <1>14, AssertedAdds
<1>16. PICK vp : vp = Popped(va) /\ Adds(vp, e, n, Tail(l), t)
  BY <1>9, <1>12, <1>15, PoppedAdds
<1>17. Adds(vm, e, n, Tail(l), t)
  BY <1>6, <1>10, <1>16, RegisterAdds
<1>18. n = WordsNet(Instruction(a.pc), log, a, u, e) - OfMachine(a, e)
  BY <1>1, <1>7, <1>11, WordsNetByName
<1> QED BY ONLY <1>7, <1>17, <1>18 DEF Settles

LEMMA LwSettles ==
  ASSUME NEW a, NEW log, NEW u, NEW b, NEW v, NEW from, NEW snapshot,
         Before(a, log, u, b, v, from, snapshot), NEW e, ReplayLw
  PROVE  Settles(a, log, u, e)
<1>1. PICK i : i = Instruction(a.pc)
  OBVIOUS
<1>2. replay.pc = a.pc /\ replay.registers = a.registers /\ i \in InstructionType
  BY <1>1, Starts
<1>3. PICK v1 : v1 = read_register_with_ts(Fresh, 0, i.rs1)
  OBVIOUS
<1>4. PICK w : w = a.registers[i.rs1]
  OBVIOUS
<1>5. PICK v2 : v2 = read_word(v1, 1, w)
  OBVIOUS
<1>6. PICK vm : vm = write_register_with_ts(v2, 2, i.rd, Entry(v1)[1])
  OBVIOUS
<1>7. i.op = "lw" /\ Advance(vm, a.pc + 1, "MemWord")
  BY <1>1, <1>2, <1>3, <1>4, <1>5, <1>6 DEF ReplayLw, Replays
<1>8. v = u + 1
  <2>1. LwTurn(i, log, a, u, b, v)
    BY <1>1, <1>7, TurnByName DEF Before
  <2> QED BY <2>1 DEF LwTurn
<1>9. /\ replay.log # <<>> /\ Head(replay.log) = log[u + 1]
      /\ Settled(a) /\ Stands(replay, a, log, u, from, snapshot)
  BY <1>8, EntryAhead
<1>10. i.rs1 \in Registers /\ i.rd \in Registers
  BY <1>2, InstructionFields
<1>11. PICK n : n = 0 - OfMachine(a, e) /\ OfMachine(a, e) \in Int
  BY StandingIsInt DEF OfMachine
<1>12. PICK l, t, now : l = replay.log /\ t = a.timestamp /\ now = t + 1
  OBVIOUS
<1>13. Adds(Fresh, e, n, l, t)
  BY <1>9, <1>11, <1>12, FreshAdds
<1>14. Adds(v1, e, n, l, t)
  BY <1>3, <1>10, <1>13, RegisterAdds
<1>15. PICK old, since : old = log[u + 1][1] /\ since = log[u + 1][2]
  OBVIOUS
<1>16. PICK x : x = mask_read_for_witness(w, old)
  OBVIOUS
<1>17. PICK d \in Int : d = Renewal(e, w, x, since, x, now)
  BY RenewalsJoin
<1>18. Adds(v2, e, n + d, Tail(l), t)
  <2>1. l # <<>> /\ old = Head(l)[1] /\ since = Head(l)[2]
    BY <1>9, <1>12, <1>15
  <2>2. Adds(read_word(v1, 1, w), e, n + Renewal(e, w, x, since, x, now), Tail(l), t)
    BY ONLY <1>12, <1>14, <1>16, <2>1, AccessAdds
  <2> QED BY <1>5, <1>17, <2>2
<1>19. Adds(vm, e, n + d, Tail(l), t)
  BY <1>6, <1>10, <1>18, RegisterAdds
<1>20. WordsNet(i, log, a, u, e) = d
  BY <1>4, <1>7, <1>12, <1>15, <1>16, <1>17, WordsNetByName DEF LoadNet
<1>21. n + d = WordsNet(Instruction(a.pc), log, a, u, e) - OfMachine(a, e)
  BY <1>1, <1>11, <1>17, <1>20
<1> QED BY ONLY <1>7, <1>19, <1>21 DEF Settles

LEMMA StoreSettles ==
  ASSUME NEW a, NEW log, NEW u, NEW b, NEW v, NEW from, NEW snapshot,
         Before(a, log, u, b, v, from, snapshot), NEW e, ReplayStore
  PROVE  Settles(a, log, u, e)
<1>1. PICK i : i = Instruction(a.pc)
  OBVIOUS
<1>2. replay.pc = a.pc /\ replay.registers = a.registers /\ i \in InstructionType
  BY <1>1, Starts
<1>3. PICK v2 : v2 = read_register_with_ts(read_register_with_ts(Fresh, 0, i.rs1), 1, i.rs2)
  OBVIOUS
<1>4. PICK w, value : w = a.registers[i.rs1] /\ value = a.registers[i.rs2]
  OBVIOUS
<1>5. PICK new, type : /\ new = IF i.op = "sw" THEN value ELSE Merge(Entry(v2)[1], value)
                       /\ type = IF i.op = "sw" THEN "MemWord" ELSE "MemSubword"
  OBVIOUS
<1>6. PICK vm : vm = write_word(v2, 2, w, new)
  OBVIOUS
<1>7. i.op \in {"sw", "sb"} /\ Advance(vm, a.pc + 1, type)
  BY <1>1, <1>2, <1>3, <1>4, <1>5, <1>6 DEF ReplayStore, Replays
<1>8. v = u + 1
  <2>1. StoreTurn(i, a, u, b, v)
    BY <1>1, <1>7, TurnByName DEF Before
  <2> QED BY <2>1 DEF StoreTurn
<1>9. /\ replay.log # <<>> /\ Head(replay.log) = log[u + 1]
      /\ Settled(a) /\ Stands(replay, a, log, u, from, snapshot)
  BY <1>8, EntryAhead
<1>10. i.rs1 \in Registers /\ i.rs2 \in Registers
  BY <1>2, InstructionFields
<1>11. PICK n : n = 0 - OfMachine(a, e) /\ OfMachine(a, e) \in Int
  BY StandingIsInt DEF OfMachine
<1>12. PICK l, t, now : l = replay.log /\ t = a.timestamp /\ now = t + 2
  OBVIOUS
<1>13. Adds(Fresh, e, n, l, t)
  BY <1>9, <1>11, <1>12, FreshAdds
<1>14. Adds(v2, e, n, l, t)
  BY <1>3, <1>10, <1>13, ThreeAccessesAdd
<1>15. PICK old, since : old = log[u + 1][1] /\ since = log[u + 1][2]
  OBVIOUS
<1>16. l # <<>> /\ old = Head(l)[1] /\ since = Head(l)[2]
  BY <1>9, <1>12, <1>15
<1>17. new = IF i.op = "sw" THEN value ELSE Merge(old, value)
  <2>1. Entry(v2) = Head(l)
    BY <1>14, <1>16, PoppedAdds
  <2> QED BY <1>5, <1>16, <2>1
<1>18. PICK d \in Int : d = Renewal(e, w, old, since, new, now)
  BY RenewalsJoin
<1>19. Adds(vm, e, n + d, Tail(l), t)
  <2>1. PICK x : x = mask_read_for_witness(w, old)
    OBVIOUS
  <2>2. Adds(write_word(v2, 2, w, new), e, n + Renewal(e, w, old, since, new, now), Tail(l), t)
    BY ONLY <1>12, <1>14, <1>16, <2>1, AccessAdds
  <2> QED BY <1>6, <1>18, <2>2
<1>20. WordsNet(i, log, a, u, e) = d
  BY <1>4, <1>7, <1>12, <1>15, <1>17, <1>18, WordsNetByName DEF StoreNet
<1>21. n + d = WordsNet(Instruction(a.pc), log, a, u, e) - OfMachine(a, e)
  BY <1>1, <1>11, <1>18, <1>20
<1> QED BY ONLY <1>7, <1>19, <1>21 DEF Settles

\* The entries that a call logged are ahead.
LEMMA EntriesAhead ==
  ASSUME NEW a, NEW log, NEW u, NEW b, NEW v, NEW from, NEW snapshot,
         Before(a, log, u, b, v, from, snapshot), v = u + 2 \/ v = u + 3
  PROVE  LET l == replay.log
         IN  /\ l # <<>> /\ Head(l) = log[u + 1]
             /\ Tail(l) # <<>> /\ Head(Tail(l)) = log[u + 2]
             /\ v = u + 3 => Tail(Tail(l)) # <<>>
             /\ Settled(a) /\ Stands(replay, a, log, u, from, snapshot)
<1>1. PICK l : l = replay.log
  OBVIOUS
<1>2. Rest(l, log, u)
  BY <1>1 DEF Before, Stands, Stage
<1>3. PICK n \in Nat : n = Len(log) /\ u \in Nat
  BY <1>2 DEF Rest, Logs
<1>4. v <= n
  <2>1. Consumes(log, u, v, a.timestamp)
    BY TurnByName DEF Before
  <2> QED BY <1>3, <2>1 DEF Consumes
<1>5. PICK u1, u2 \in Nat : u1 = u + 1 /\ u2 = u + 2 /\ u1 + 1 = u2 /\ u2 + 1 = u + 3
  BY <1>3
<1>6. u < n /\ u1 < n /\ (v = u + 3 => u2 < n)
  BY <1>3, <1>4, <1>5
<1>7. l # <<>> /\ Head(l) = log[u1] /\ Rest(Tail(l), log, u1)
  BY <1>2, <1>3, <1>5, <1>6, RestGoesOn
<1>8. PICK l1 : l1 = Tail(l)
  OBVIOUS
<1>9. l1 # <<>> /\ Head(l1) = log[u2] /\ Rest(Tail(l1), log, u2)
  <2>1. Rest(l1, log, u1) /\ u1 < Len(log)
    BY <1>3, <1>6, <1>7, <1>8
  <2>2. l1 # <<>> /\ Head(l1) = log[u1 + 1] /\ Rest(Tail(l1), log, u1 + 1)
    BY ONLY <2>1, RestGoesOn
  <2> QED BY <1>5, <2>2
<1>10. v = u + 3 => Tail(l1) # <<>>
  <2> SUFFICES ASSUME v = u + 3 PROVE Tail(l1) # <<>>
    OBVIOUS
  <2>1. PICK l2 : l2 = Tail(l1)
    OBVIOUS
  <2>2. Rest(l2, log, u2) /\ u2 < Len(log)
    BY <1>3, <1>6, <1>9, <2>1
  <2>3. l2 # <<>>
    BY ONLY <2>2, RestGoesOn
  <2> QED BY <2>1, <2>3
<1> QED BY <1>1, <1>5, <1>7, <1>8, <1>9, <1>10 DEF Before

\* The row of a marker instruction and the pointers of the call.
LEMMA PointersAdd ==
  ASSUME NEW w, NEW e, NEW n, NEW log, NEW t, Adds(w, e, n, log, t)
  PROVE  Adds(read_register_with_ts(read_register_with_ts(Marker(w), 3, 1), 3, 2), e, n, log, t)
<1>1. PICK v1 : /\ v1 = read_register_with_ts(read_register_with_ts(w, 0, 0), 1, 0)
                /\ Adds(v1, e, n, log, t)
  BY RegistersOfACall, ThreeAccessesAdd
<1>2. PICK v2 : v2 = read_register_with_ts(v1, 2, 0) /\ Adds(v2, e, n, log, t)
  BY <1>1, RegistersOfACall, RegisterAdds
<1>3. v2 = Marker(w)
  BY <1>1, <1>2 DEF Marker, touch_x0_twice
<1>4. PICK v3 : v3 = read_register_with_ts(v2, 3, 1) /\ Adds(v3, e, n, log, t)
  BY <1>2, RegistersOfACall, RegisterAdds
<1>5. Adds(read_register_with_ts(v3, 3, 2), e, n, log, t)
  BY <1>4, RegistersOfACall, RegisterAdds
<1> QED BY <1>3, <1>4, <1>5

LEMMA BigintSettles ==
  ASSUME NEW a, NEW log, NEW u, NEW b, NEW v, NEW from, NEW snapshot,
         Before(a, log, u, b, v, from, snapshot), NEW e, ReplayBigint
  PROVE  Settles(a, log, u, e)
<1>1. PICK i : i = Instruction(a.pc)
  OBVIOUS
<1>2. replay.pc = a.pc /\ replay.registers = a.registers
  BY Starts
<1>3. PICK v1 : v1 = read_register_with_ts(read_register_with_ts(Marker(Fresh), 3, 1), 3, 2)
  OBVIOUS
<1>4. PICK p, q : p = a.registers[1] /\ q = a.registers[2]
  OBVIOUS
<1>5. PICK v2 : v2 = read_word(v1, 3, q)
  OBVIOUS
<1>6. PICK result : result = bigint_impl(Entry(v2)[1], Entry(v1)[1])
  OBVIOUS
<1>7. PICK v3 : v3 = write_word(v2, 3, p, result[1])
  OBVIOUS
<1>8. PICK condition : condition = (Entry(v3) = <<result[2], 0>>)
  OBVIOUS
<1>9. PICK va : va = Asserted(v3, condition)
  OBVIOUS
<1>10. PICK v4 : v4 = Popped(va)
  OBVIOUS
<1>11. PICK v5 : v5 = write_register_with_ts(v4, 3, 3, result[2])
  OBVIOUS
<1>12. PICK vm : vm = [v5 EXCEPT !.counted["BigintDelegation"] = @ + 1]
  OBVIOUS
<1>13. i.op = "bigint" /\ Advance(vm, a.pc + 1, "ShiftBinaryCsr")
  <2>1. i.op = "bigint"
    BY <1>1, <1>2 DEF ReplayBigint, Replays
  <2>2. PICK x, y : x = replay.registers[1] /\ y = replay.registers[2]
    OBVIOUS
  <2>3. v2 = read_word(v1, 3, y) /\ v3 = write_word(v2, 3, x, result[1])
    BY <1>2, <1>4, <1>5, <1>7, <2>2
  <2>4. v4 = Popped(Asserted(v3, Entry(v3) = <<result[2], 0>>))
    BY <1>8, <1>9, <1>10
  <2>5. Advance([write_register_with_ts(v4, 3, 3, result[2]) EXCEPT !.counted["BigintDelegation"] = @ + 1],
                replay.pc + 1, "ShiftBinaryCsr")
    BY ONLY ReplayBigint, <1>3, <1>6, <2>2, <2>3, <2>4 DEF ReplayBigint
  <2> QED BY ONLY <1>2, <1>11, <1>12, <2>1, <2>5
<1>14. v = u + 3
  <2>1. BigintTurn(i, log, a, u, b, v)
    BY <1>1, <1>13, TurnByName DEF Before
  <2> QED BY <2>1 DEF BigintTurn
<1>15. PICK l : l = replay.log
  OBVIOUS
<1>16. PICK l1 : l1 = Tail(l)
  OBVIOUS
<1>17. PICK l2 : l2 = Tail(l1)
  OBVIOUS
<1>18. /\ l # <<>> /\ Head(l) = log[u + 1] /\ l1 # <<>> /\ Head(l1) = log[u + 2] /\ l2 # <<>>
       /\ Settled(a) /\ Stands(replay, a, log, u, from, snapshot)
  BY <1>14, <1>15, <1>16, <1>17, EntriesAhead
<1>19. PICK n : n = 0 - OfMachine(a, e) /\ OfMachine(a, e) \in Int
  BY StandingIsInt DEF OfMachine
<1>20. PICK t, now : t = a.timestamp /\ now = t + 3
  OBVIOUS
<1>21. Adds(Fresh, e, n, l, t)
  BY <1>15, <1>18, <1>19, <1>20, FreshAdds
<1>22. Adds(v1, e, n, l, t)
  BY <1>3, <1>21, PointersAdd
<1>23. PICK y, ys, z, zs : /\ y = log[u + 1][1] /\ ys = log[u + 1][2]
                           /\ z = log[u + 2][1] /\ zs = log[u + 2][2]
  OBVIOUS
<1>24. /\ y = Head(l)[1] /\ ys = Head(l)[2] /\ z = Head(l1)[1] /\ zs = Head(l1)[2]
  BY <1>18, <1>23
<1>25. PICK x : x = mask_read_for_witness(q, y)
  OBVIOUS
<1>26. PICK d \in Int : d = Renewal(e, q, x, ys, x, now)
  BY RenewalsJoin
<1>27. Adds(v2, e, n + d, l1, t)
  <2>1. PICK value : value = result[1]
    OBVIOUS
  <2>2. Adds(read_word(v1, 3, q), e, n + Renewal(e, q, x, ys, x, now), Tail(l), t)
    BY ONLY <1>18, <1>20, <1>22, <1>24, <1>25, <2>1, AccessAdds
  <2> QED BY <1>5, <1>16, <1>26, <2>2
<1>28. result = bigint_impl(z, y)
  <2>1. Entry(v1) = Head(l)
    BY <1>18, <1>22, PoppedAdds
  <2>2. Entry(v2) = Head(l1)
    BY <1>18, <1>27, PoppedAdds
  <2> QED BY <1>6, <1>24, <2>1, <2>2
<1>29. PICK d2 \in Int : d2 = Renewal(e, p, z, zs, result[1], now)
  BY RenewalsJoin
<1>30. PICK m : m = n + d /\ m \in Int /\ m + d2 = n + (d + d2)
  BY <1>19, <1>26, <1>29
<1>31. Adds(v3, e, m + d2, l2, t)
  <2>1. PICK value, x2 : value = result[1] /\ x2 = mask_read_for_witness(p, z)
    OBVIOUS
  <2>2. Adds(v2, e, m, l1, t)
    BY <1>27, <1>30
  <2>3. Adds(write_word(v2, 3, p, value), e, m + Renewal(e, p, z, zs, value, now), Tail(l1), t)
    BY ONLY <1>18, <1>20, <1>24, <2>1, <2>2, AccessAdds
  <2> QED BY <1>7, <1>17, <1>29, <2>1, <2>3
<1>32. Adds(va, e, m + d2, l2, t)
  BY <1>9, <1>31, AssertedAdds
<1>33. Adds(v4, e, m + d2, Tail(l2), t)
  BY <1>10, <1>18, <1>32, PoppedAdds
<1>34. Adds(v5, e, m + d2, Tail(l2), t)
  BY <1>11, <1>33, RegistersOfACall, RegisterAdds
<1>35. Adds(vm, e, m + d2, Tail(l2), t)
  <2>1. DOMAIN v5 = VmFields /\ v5.log = Tail(l2) /\ v5.timestamp = t
    BY <1>34 DEF Adds
  <2>2. /\ DOMAIN vm = VmFields /\ vm.rows = v5.rows /\ vm.registers = v5.registers
        /\ vm.register_timestamps = v5.register_timestamps /\ vm.log = Tail(l2) /\ vm.timestamp = t
    BY <1>12, <2>1 DEF VmFields
  <2> QED BY ONLY <1>34, <2>2, OtherFieldsAdd
<1>36. WordsNet(i, log, a, u, e) = d + d2
  BY <1>4, <1>13, <1>20, <1>23, <1>25, <1>26, <1>28, <1>29, WordsNetByName DEF SumNet
<1>37. m + d2 = WordsNet(Instruction(a.pc), log, a, u, e) - OfMachine(a, e)
  BY <1>1, <1>19, <1>26, <1>29, <1>30, <1>36
<1> QED BY ONLY <1>13, <1>35, <1>37 DEF Settles

\* What the rows of the rounds up to one at t add.
HashedNet(e, p, q, word, input, new, t) ==
  Renewal(e, p, word[1], word[2], new, t + 3) + Renewal(e, q, input[1], input[2], input[1], t + 3)

LEMMA RenewedAdds ==
  ASSUME NEW v, NEW e, NEW n, NEW log, NEW t, Adds(v, e, n, log, t),
         NEW w, NEW old, NEW since, NEW new
  PROVE  Adds(Renewed(v, w, old, since, new), e, n + Renewal(e, w, old, since, new, t + 3), log, t)
<1>1. PICK now : now = t + 3
  OBVIOUS
<1>2. v.timestamp = t
  BY DEF Adds
<1>3. Renewed(v, w, old, since, new) = Row(v, <<"ram", w, old, since>>, <<"ram", w, new, now>>)
  BY <1>1, <1>2 DEF Renewed
<1>4. Adds(Row(v, <<"ram", w, old, since>>, <<"ram", w, new, now>>), e,
           n + Renewal(e, w, old, since, new, now), log, t)
  BY ONLY Adds(v, e, n, log, t), RowAdds
<1> QED BY <1>1, <1>3, <1>4

LEMMA RoundAdds ==
  ASSUME NEW vm, NEW e, NEW m \in Int, NEW log, NEW t, Adds(vm, e, m, log, t),
         NEW n, NEW mixed, NEW p, NEW q, NEW word, NEW input,
         NEW s1, s1 = (IF n = 1 THEN word[2] ELSE t - 4 + 3),
         NEW s2, s2 = (IF n = 1 THEN input[2] ELSE t - 4 + 3)
  PROVE  Adds(HashRound(vm, n, mixed, p, q, word, input), e,
              m + (Renewal(e, p, mixed[n - 1], s1, mixed[n], t + 3)
                     + Renewal(e, q, input[1], s2, input[1], t + 3)), log, t)
<1>1. PICK v1 : /\ v1 = read_register_with_ts(read_register_with_ts(Marker(vm), 3, 1), 3, 2)
                /\ Adds(v1, e, m, log, t)
  BY PointersAdd
<1>2. PICK v2 : v2 = write_register_with_ts(v1, 3, 3, Control(ControlWord, n)) /\ Adds(v2, e, m, log, t)
  BY <1>1, RegistersOfACall, RegisterAdds
<1>3. PICK d \in Int : d = Renewal(e, p, mixed[n - 1], s1, mixed[n], t + 3)
  BY RenewalsJoin
<1>4. PICK v3 : v3 = Renewed(v2, p, mixed[n - 1], s1, mixed[n]) /\ Adds(v3, e, m + d, log, t)
  BY <1>2, <1>3, RenewedAdds
<1>5. PICK d2 \in Int : d2 = Renewal(e, q, input[1], s2, input[1], t + 3)
  BY RenewalsJoin
<1>6. PICK v4 : v4 = Renewed(v3, q, input[1], s2, input[1]) /\ Adds(v4, e, (m + d) + d2, log, t)
  BY <1>4, <1>5, RenewedAdds
<1>7. (m + d) + d2 = m + (d + d2)
  BY <1>3, <1>5
<1>8. v4 = HashRound(vm, n, mixed, p, q, word, input)
  <2>1. vm.timestamp = t
    BY DEF Adds
  <2>2. PICK before : before = t - 4 + 3 /\ before = vm.timestamp - TIMESTAMP_STEP + 3
    BY <2>1 DEF TIMESTAMP_STEP
  <2>3. s1 = (IF n = 1 THEN word[2] ELSE before) /\ s2 = (IF n = 1 THEN input[2] ELSE before)
    BY <2>2
  <2> QED BY ONLY <1>1, <1>2, <1>4, <1>6, <2>2, <2>3 DEF HashRound
<1> QED BY <1>3, <1>5, <1>6, <1>7, <1>8

\* All rounds: the first reads what the log says, every other what the one before wrote.
LEMMA RoundsAdd ==
  ASSUME NEW begun, NEW e, NEW m \in Int, NEW log, NEW t \in Nat, Adds(begun, e, m, log, t),
         NEW mixed, NEW p, NEW q, NEW word, NEW input, mixed[0] = word[1],
         NEW count \in 1..Rounds
  PROVE  Adds(HashRounds(begun, mixed, p, q, word, input)[count], e,
              m + HashedNet(e, p, q, word, input, mixed[count], LastRound(t, count)), log, LastRound(t, count))
<1>1. PICK f : f = HashRounds(begun, mixed, p, q, word, input)
  OBVIOUS
<1>2. ASSUME NEW n \in 1..Rounds
      PROVE  f[n] = IF n = 1 THEN HashRound(begun, 1, mixed, p, q, word, input)
                    ELSE HashRound(NextTs(f[n - 1]), n, mixed, p, q, word, input)
  BY <1>1, HashRoundsStep
<1> DEFINE now(n) == t + 4 * (n - 1)
           P(n) == Adds(f[n], e, m + HashedNet(e, p, q, word, input, mixed[n], now(n)), log, now(n))
           T == {n \in Nat : n \in 1..Rounds /\ ~P(n)}
<1>3. Rounds \in Nat \ {0}
  BY ReplayAssumption
<1>4. P(1)
  <2>1. f[1] = HashRound(begun, 1, mixed, p, q, word, input)
    BY <1>2, <1>3
  <2>2. PICK s1, s2 : s1 = word[2] /\ s2 = input[2]
    OBVIOUS
  <2>3. PICK one : one = 1
    OBVIOUS
  <2>4. /\ s1 = (IF one = 1 THEN word[2] ELSE t - 4 + 3)
        /\ s2 = (IF one = 1 THEN input[2] ELSE t - 4 + 3)
    BY <2>2, <2>3
  <2>5. Adds(HashRound(begun, one, mixed, p, q, word, input), e,
             m + (Renewal(e, p, mixed[one - 1], s1, mixed[one], t + 3)
                    + Renewal(e, q, input[1], s2, input[1], t + 3)), log, t)
    BY ONLY m \in Int, Adds(begun, e, m, log, t), <2>4, RoundAdds
  <2>6. one - 1 = 0 /\ now(1) = t
    BY <2>3
  <2>7. Adds(f[1], e, m + HashedNet(e, p, q, word, input, mixed[1], t), log, t)
    BY <2>1, <2>2, <2>3, <2>5, <2>6 DEF HashedNet
  <2> QED BY <2>6, <2>7
<1>5. ASSUME NEW n \in 1..Rounds, NEW k, k = n - 1, k \in 1..Rounds, P(k)
      PROVE  P(n)
  <2>1. PICK before \in Nat : before = now(k)
    <3>1. PICK j \in Nat : j = k - 1
      BY <1>5
    <3> QED BY <3>1
  <2>2. PICK next \in Nat : next = before + 4 /\ next - 4 + 3 = before + 3
    OBVIOUS
  <2>3. next = now(n)
    BY <1>5, <2>1, <2>2
  <2>4. PICK x, y : x = mixed[k] /\ y = mixed[n]
    OBVIOUS
  <2>5. PICK d \in Int : d = HashedNet(e, p, q, word, input, x, before)
    BY RenewalsJoin DEF HashedNet
  <2>6. Adds(f[k], e, m + d, log, before)
    BY <1>5, <2>1, <2>4, <2>5
  <2> HIDE DEF P
  <2>7. PICK vm : vm = NextTs(f[k]) /\ Adds(vm, e, m + d, log, next)
    BY <2>2, <2>6, NextTsAdds
  <2>8. n # 1 /\ f[n] = HashRound(vm, n, mixed, p, q, word, input)
    <3>1. n # 1
      BY <1>5
    <3> QED BY <1>2, <1>5, <2>7, <3>1
  <2>9. PICK s : s = before + 3
    OBVIOUS
  <2>10. PICK d2 \in Int : d2 = Renewal(e, p, x, s, y, next + 3)
                                  + Renewal(e, q, input[1], s, input[1], next + 3)
    BY RenewalsJoin
  <2>11. Adds(f[n], e, (m + d) + d2, log, next)
    <3>1. /\ s = (IF n = 1 THEN word[2] ELSE next - 4 + 3)
          /\ s = (IF n = 1 THEN input[2] ELSE next - 4 + 3)
      BY <2>2, <2>8, <2>9
    <3>2. m + d \in Int
      BY <2>5
    <3>3. PICK md \in Int : md = m + d
      BY <3>2
    <3>4. Adds(vm, e, md, log, next)
      BY <2>7, <3>3
    <3>5. Adds(HashRound(vm, n, mixed, p, q, word, input), e,
               md + (Renewal(e, p, mixed[n - 1], s, mixed[n], next + 3)
                       + Renewal(e, q, input[1], s, input[1], next + 3)), log, next)
      BY ONLY md \in Int, <3>1, <3>4, RoundAdds
    <3> QED BY <1>5, <2>4, <2>8, <2>10, <3>3, <3>5
  <2>12. d + d2 = HashedNet(e, p, q, word, input, y, next)
    <3>1. /\ Renewal(e, p, word[1], word[2], x, s) + Renewal(e, p, x, s, y, next + 3)
               = Renewal(e, p, word[1], word[2], y, next + 3)
          /\ Renewal(e, q, input[1], input[2], input[1], s)
               + Renewal(e, q, input[1], s, input[1], next + 3)
               = Renewal(e, q, input[1], input[2], input[1], next + 3)
      BY RenewalsJoin
    <3>2. /\ Renewal(e, p, word[1], word[2], x, s) \in Int /\ Renewal(e, p, x, s, y, next + 3) \in Int
          /\ Renewal(e, q, input[1], input[2], input[1], s) \in Int
          /\ Renewal(e, q, input[1], s, input[1], next + 3) \in Int
      BY RenewalsJoin
    <3> QED BY <2>5, <2>9, <2>10, <3>1, <3>2 DEF HashedNet
  <2>13. (m + d) + d2 = m + HashedNet(e, p, q, word, input, y, next)
    BY <2>5, <2>10, <2>12
  <2> QED BY <2>3, <2>4, <2>11, <2>13 DEF P
<1> HIDE DEF P
<1>6. T = {}
  <2>1. SUFFICES ASSUME T # {} PROVE FALSE
    OBVIOUS
  <2>2. PICK n \in T : \A k \in Nat : k < n => k \notin T
    BY <2>1, LeastNumber
  <2>3. n # 1
    BY <1>4
  <2>4. PICK k \in Nat : k = n - 1 /\ k \in 1..Rounds /\ k < n /\ n \in 1..Rounds
    BY <1>3, <2>2, <2>3
  <2>5. P(k)
    BY <2>2, <2>4
  <2> QED BY <1>5, <2>2, <2>4, <2>5
<1>7. P(count)
  BY <1>3, <1>6
<1> QED BY <1>1, <1>7 DEF P, LastRound

LEMMA MixedStarts ==
  ASSUME NEW w, NEW x
  PROVE  Mixed(w, x)[0] = w
<1>1. PICK f : MixedBy(f, w, x)
  BY MixedExists
<1>2. f = [n \in 0..Rounds |-> IF n = 0 THEN w ELSE Mix(f[n - 1], x)]
  BY <1>1 DEF MixedBy, AfterRound
<1>3. Mixed(w, x) = [n \in 0..Rounds |-> IF n = 0 THEN w ELSE Mix(Mixed(w, x)[n - 1], x)]
  BY <1>2 DEF Mixed
<1> HIDE DEF Mixed
<1>4. 0 \in 0..Rounds
  BY ReplayAssumption
<1> QED BY <1>3, <1>4

LEMMA BlakeSettles ==
  ASSUME NEW a, NEW log, NEW u, NEW b, NEW v, NEW from, NEW snapshot,
         Before(a, log, u, b, v, from, snapshot), NEW e, ReplayBlake
  PROVE  Settles(a, log, u, e)
<1>1. PICK i : i = Instruction(a.pc)
  OBVIOUS
<1>2. replay.pc = a.pc /\ replay.registers = a.registers
  BY Starts
<1>c. PICK count \in Nat \ {0} : count = num_rounds(ControlWord) /\ count \in 1..Rounds
  BY RoundsTaken
<1>3. PICK word, input : word = Entry(replay) /\ input = Entry(Popped(replay))
  OBVIOUS
<1>4. PICK condition : condition = (ControlWord \in ControlWords)
  OBVIOUS
<1>5. PICK v1 : v1 = Popped(Fresh)
  OBVIOUS
<1>6. PICK v2 : v2 = Popped(v1)
  OBVIOUS
<1>7. PICK begun : begun = Asserted(v2, condition)
  OBVIOUS
<1>8. PICK mixed, p, q : mixed = Mixed(word[1], input[1]) /\ p = a.registers[1] /\ q = a.registers[2]
  OBVIOUS
<1>9. PICK w : w = HashRounds(begun, mixed, p, q, word, input)[count]
  OBVIOUS
<1>10. PICK vm : vm = [w EXCEPT !.counted["BlakeDelegation"] = @ + count,
                               !.counted["ShiftBinaryCsr"] = @ + count - 1]
  OBVIOUS
<1>11. i.op = "blake" /\ Advance(vm, a.pc + count, "ShiftBinaryCsr")
  <2>1. Replays("blake")
    BY HashReplayed
  <2>2. Advance(vm, replay.pc + count, "ShiftBinaryCsr")
    BY <1>2, <1>c, <1>3, <1>4, <1>5, <1>6, <1>7, <1>8, <1>9, <1>10, HashReplayed
  <2> QED BY <1>1, <1>2, <2>1, <2>2 DEF Replays
<1>12. v = u + 2
  <2>1. BlakeTurn(i, a, u, b, v)
    BY <1>1, <1>11, TurnByName DEF Before
  <2> QED BY <2>1 DEF BlakeTurn, HashTurn
<1>13. PICK l : l = replay.log
  OBVIOUS
<1>14. PICK l1 : l1 = Tail(l)
  OBVIOUS
<1>15. /\ l # <<>> /\ Head(l) = log[u + 1] /\ l1 # <<>> /\ Head(l1) = log[u + 2]
       /\ Settled(a) /\ Stands(replay, a, log, u, from, snapshot)
  BY <1>12, <1>13, <1>14, EntriesAhead
<1>16. word = log[u + 1] /\ input = log[u + 2]
  <2>1. DOMAIN replay = VmFields
    BY <1>15 DEF Stands, Stage
  <2>2. PICK r : r = Popped(replay)
    OBVIOUS
  <2>3. r = [replay EXCEPT !.log = l1]
    BY <1>13, <1>14, <1>15, <2>2 DEF Popped
  <2>4. r.log = l1
    BY <2>1, <2>3 DEF VmFields
  <2>5. word = Head(l) /\ input = Head(l1)
    BY <1>3, <1>13, <1>15, <2>2, <2>4 DEF Entry
  <2> QED BY <1>15, <2>5
<1>17. PICK n : n = 0 - OfMachine(a, e) /\ OfMachine(a, e) \in Int /\ n \in Int
  BY StandingIsInt DEF OfMachine
<1>18. PICK t \in Nat : t = a.timestamp
  BY <1>15, SettledFields
<1>19. Adds(Fresh, e, n, l, t)
  BY <1>13, <1>15, <1>17, <1>18, FreshAdds
<1>20. Adds(v1, e, n, l1, t)
  BY <1>5, <1>14, <1>15, <1>19, PoppedAdds
<1>21. PICK l2 : l2 = Tail(l1) /\ Adds(v2, e, n, l2, t)
  BY <1>6, <1>15, <1>20, PoppedAdds
<1>22. Adds(begun, e, n, l2, t)
  BY <1>7, <1>21, AssertedAdds
<1>23. PICK d \in Int : d = HashedNet(e, p, q, word, input, mixed[count], LastRound(t, count))
  BY RenewalsJoin DEF HashedNet
<1>24. PICK last : last = LastRound(t, count) /\ Adds(w, e, n + d, l2, last)
  <2>1. mixed[0] = word[1]
    BY <1>8, MixedStarts
  <2>2. Adds(HashRounds(begun, mixed, p, q, word, input)[count], e,
             n + HashedNet(e, p, q, word, input, mixed[count], LastRound(t, count)), l2, LastRound(t, count))
    BY ONLY <1>c, <1>17, t \in Nat, <1>22, <2>1, RoundsAdd
  <2> QED BY <1>9, <1>23, <2>2
<1>25. Adds(vm, e, n + d, l2, last)
  <2>1. DOMAIN w = VmFields /\ w.log = l2 /\ w.timestamp = last
    BY <1>24 DEF Adds
  <2>2. /\ DOMAIN vm = VmFields /\ vm.rows = w.rows /\ vm.registers = w.registers
        /\ vm.register_timestamps = w.register_timestamps /\ vm.log = l2 /\ vm.timestamp = last
    BY <1>10, <2>1 DEF VmFields
  <2> QED BY ONLY <1>24, <2>2, OtherFieldsAdd
<1>26. WordsNet(i, log, a, u, e) = d
  <2>1. WordsNet(i, log, a, u, e) = HashNet(log, a, u, e)
    BY <1>11, WordsNetByName
  <2> QED BY <1>2, <1>c, <1>8, <1>16, <1>18, <1>23, <2>1 DEF HashNet, HashedNet, ControlWord
<1>27. n + d = WordsNet(Instruction(a.pc), log, a, u, e) - OfMachine(a, e)
  BY <1>1, <1>17, <1>23, <1>26
<1> QED BY ONLY <1>11, <1>25, <1>27 DEF Settles

\* What a replayed instruction adds to the balance: what it does to the registers,
\* and what the log says of the words.
LEMMA InstructionSettles ==
  ASSUME NEW a, NEW log, NEW u, NEW b, NEW v, NEW from, NEW snapshot,
         Before(a, log, u, b, v, from, snapshot), Instructed, Balanced(balance), NEW e
  PROVE  /\ Balanced(balance')
         /\ Held(balance', e) = Held(balance, e) + WordsNet(Instruction(a.pc), log, a, u, e)
                                  + OfMachine(b, e) - OfMachine(a, e)
<1>1. Settles(a, log, u, e)
  <2>1. CASE ReplayAdd \/ ReplayLui \/ ReplayJal \/ ReplayBeq \/ ReplayWriteNonDeterminism
    BY <2>1, PlainInstructionsSettle
  <2>2. CASE ReplayLw \/ ReplayStore \/ ReplayReadNonDeterminism
    BY <2>2, LwSettles, StoreSettles, ReadSettles
  <2>3. CASE ReplayBigint \/ ReplayBlake
    BY <2>3, BigintSettles, BlakeSettles
  <2> QED BY <2>1, <2>2, <2>3 DEF Instructed
<1>2. PICK vm, pc, type, n, l, t :
        /\ Advance(vm, pc, type) /\ Adds(vm, e, n, l, t)
        /\ n = WordsNet(Instruction(a.pc), log, a, u, e) - OfMachine(a, e)
  BY <1>1 DEF Settles
<1>3. /\ Balanced(balance')
      /\ Held(balance', e) = Held(balance, e) + n + OfMachine(replay', e)
  BY ONLY <1>2, Balanced(balance), AdvanceAdds
<1>4. OfMachine(replay', e) = OfMachine(b, e)
  <2>1. After(replay', a, log, b, v, from, snapshot)
    BY InstructionReplays
  <2> QED BY <2>1 DEF After, Stands, Stage, OfMachine
<1>5. /\ WordsNet(Instruction(a.pc), log, a, u, e) \in Int
      /\ OfMachine(a, e) \in Int /\ OfMachine(b, e) \in Int /\ Held(balance, e) \in Int
  BY WordsNetByName, StandingIsInt, HeldIsInt DEF OfMachine
<1> QED BY <1>2, <1>3, <1>4, <1>5

-----------------------------------------------------------------------------
(* What the turns of a path add.                                           *)

LEMMA WordsNetInLongerLog ==
  ASSUME NEW code, NEW log, Len(log) \in Nat, NEW more, Len(more) \in Nat, Begins(log, more),
         NEW a, NEW u \in Nat, NEW b, NEW v \in Nat, Turn(code, log, a, u, b, v), NEW e
  PROVE  WordsNet(code[a.pc + 1], more, a, u, e) = WordsNet(code[a.pc + 1], log, a, u, e)
<1>1. PICK i : i = code[a.pc + 1]
  OBVIOUS
<1>2. /\ i \in InstructionType /\ u <= v /\ v <= Len(log)
      /\ \/ AddTurn(i, a, u, b, v) \/ LuiTurn(i, a, u, b, v) \/ JalTurn(i, a, u, b, v)
         \/ BeqTurn(i, a, u, b, v) \/ LwTurn(i, log, a, u, b, v) \/ StoreTurn(i, a, u, b, v)
         \/ ReadTurn(i, log, a, u, b, v) \/ WriteTurn(i, a, u, b, v)
         \/ BigintTurn(i, log, a, u, b, v) \/ BlakeTurn(i, a, u, b, v)
  BY <1>1 DEF Turn, Consumes
<1>3. \A j \in (u + 1)..v : more[j] = log[j]
  BY <1>2 DEF Begins
<1>4. CASE i.op \in {"lw", "sw", "sb"}
  <2>1. v = u + 1
    BY <1>2, <1>4 DEF AddTurn, LuiTurn, JalTurn, BeqTurn, LwTurn, StoreTurn, ReadTurn, WriteTurn,
                      BigintTurn, BlakeTurn, HashTurn
  <2>2. more[u + 1] = log[u + 1]
    BY <1>3, <2>1
  <2> QED BY <1>1, <1>4, <2>2, WordsNetByName DEF LoadNet, StoreNet
<1>5. CASE i.op \in {"bigint", "blake"}
  <2>1. v = u + 2 \/ v = u + 3
    BY <1>2, <1>5 DEF AddTurn, LuiTurn, JalTurn, BeqTurn, LwTurn, StoreTurn, ReadTurn, WriteTurn,
                      BigintTurn, BlakeTurn, HashTurn
  <2>2. more[u + 1] = log[u + 1] /\ more[u + 2] = log[u + 2]
    BY <1>3, <2>1
  <2>3. SumNet(more, a, u, e) = SumNet(log, a, u, e)
    BY <2>2 DEF SumNet
  <2>4. HashNet(more, a, u, e) = HashNet(log, a, u, e)
    BY <2>2 DEF HashNet
  <2> QED BY <1>1, <1>5, <2>3, <2>4, WordsNetByName
<1>6. CASE i.op \notin {"lw", "sw", "sb", "bigint", "blake"}
  BY <1>1, <1>6, WordsNetByName
<1> QED BY <1>4, <1>5, <1>6

\* What a turn adds to the balance of an entry.
TurnNet(code, log, a, u, b, e) ==
  WordsNet(code[a.pc + 1], log, a, u, e) + OfMachine(b, e) - OfMachine(a, e)

\* c tells what the turns before a state of the path have added.
Counts(code, log, f, g, c, n, e) ==
  /\ c[0] = 0
  /\ \A k \in 0..n : c[k] \in Int
  /\ \A k \in 0..(n - 1) : c[k + 1] = c[k] + TurnNet(code, log, f[k], g[k], f[k + 1], e)

CountedPath(code, log, f, g, c, n, e) == Path(code, log, f, g, n) /\ Counts(code, log, f, g, c, n, e)

\* As Reaches and Runs, with what the path adds.
Gains(code, a, b, log, d, e) ==
  \E n \in Nat : \E f, g, c :
    CountedPath(code, log, f, g, c, n, e) /\ f[0] = a /\ f[n] = b /\ c[n] = d

GainsOn(code, a, b, log, d, e) ==
  \E n \in Nat : \E f, g, c :
    /\ CountedPath(code, log, f, g, c, n, e) /\ f[0] = a /\ f[n] = b /\ c[n] = d
    /\ Onward(f, n)

LEMMA GainsOnGains ==
  ASSUME NEW code, NEW a, NEW b, NEW log, NEW d, NEW e, GainsOn(code, a, b, log, d, e)
  PROVE  Gains(code, a, b, log, d, e)
BY DEF GainsOn, Gains

LEMMA GainIsInt ==
  ASSUME NEW code, NEW a, NEW b, NEW log, NEW d, NEW e, Gains(code, a, b, log, d, e)
  PROVE  d \in Int /\ Settled(a) /\ Settled(b) /\ (a.timestamp < b.timestamp \/ a = b)
<1>1. PICK n \in Nat : \E f, g, c :
        CountedPath(code, log, f, g, c, n, e) /\ f[0] = a /\ f[n] = b /\ c[n] = d
  BY DEF Gains
<1>2. PICK f, g, c : CountedPath(code, log, f, g, c, n, e) /\ f[0] = a /\ f[n] = b /\ c[n] = d
  BY <1>1
<1>3. 0 \in 0..n /\ n \in 0..n /\ (n # 0 => 0 \in 0..(n - 1))
  OBVIOUS
<1> QED BY <1>2, <1>3 DEF CountedPath, Counts, Path

LEMMA GainsNowhere ==
  ASSUME NEW code, NEW a, Settled(a), NEW e
  PROVE  GainsOn(code, a, a, <<>>, 0, e)
<1>1. PICK f, g, c : f = [k \in {0} |-> a] /\ g = [k \in {0} |-> 0] /\ c = [k \in {0} |-> 0]
  OBVIOUS
<1>2. /\ f[0] = a /\ g[0] = 0 /\ c[0] = 0
      /\ 0..0 = {0} /\ 0..(0 - 1) = {} /\ Len(<<>>) = 0
  BY <1>1
<1>3. CountedPath(code, <<>>, f, g, c, 0, e)
  BY <1>2 DEF CountedPath, Path, Counts
<1>4. Onward(f, 0)
  BY <1>2 DEF Onward
<1> QED BY <1>2, <1>3, <1>4 DEF GainsOn

LEMMA TurnNetIsInt ==
  ASSUME NEW code, NEW log, NEW a, NEW u, NEW b, NEW e
  PROVE  TurnNet(code, log, a, u, b, e) \in Int
BY WordsNetByName, StandingIsInt DEF TurnNet, OfMachine

LEMMA GainsMore ==
  ASSUME NEW code, NEW m, NEW log, NEW b, NEW more, NextTurn(code, m, log, b, more),
         NEW a, NEW d, NEW e, GainsOn(code, a, m, log, d, e),
         NEW d2, d2 = d + TurnNet(code, more, m, Len(log), b, e)
  PROVE  /\ Gains(code, a, b, more, d2, e)
         /\ (BranchesMove => b.pc # m.pc) => GainsOn(code, a, b, more, d2, e)
<1>1. PICK n \in Nat : \E f, g, c :
        /\ CountedPath(code, log, f, g, c, n, e) /\ f[0] = a /\ f[n] = m /\ c[n] = d
        /\ Onward(f, n)
  BY DEF GainsOn
<1>2. PICK f, g, c : /\ CountedPath(code, log, f, g, c, n, e) /\ f[0] = a /\ f[n] = m /\ c[n] = d
                     /\ Onward(f, n)
  BY <1>1
<1>3. PICK f2 : Longer(f2, f, n, b)
  BY LongerExists
<1>4. PICK g2 : Longer(g2, g, n, Len(more))
  BY LongerExists
<1>5. PICK c2 : Longer(c2, c, n, d2)
  BY LongerExists
<1>6. Path(code, log, f, g, n) /\ Counts(code, log, f, g, c, n, e)
  BY <1>2 DEF CountedPath
<1>7. /\ Path(code, more, f2, g2, n + 1) /\ f2[0] = f[0] /\ f2[n + 1] = b
      /\ (BranchesMove => b.pc # m.pc) => Onward(f2, n + 1)
  BY ONLY <1>2, <1>3, <1>4, <1>6, NextTurn(code, m, log, b, more), n \in Nat, PathGoesOn
<1>8. /\ \A k \in 0..n : f2[k] = f[k] /\ g2[k] = g[k] /\ c2[k] = c[k]
      /\ f2[n + 1] = b /\ c2[n + 1] = d2 /\ 0 \in 0..n /\ n \in 0..n
  BY <1>3, <1>4, <1>5 DEF Longer
<1>9. /\ Len(log) \in Nat /\ Len(more) \in Nat /\ Begins(log, more)
  BY DEF NextTurn
<1>10. /\ c[0] = 0 /\ \A k \in 0..n : c[k] \in Int
       /\ \A k \in 0..(n - 1) : c[k + 1] = c[k] + TurnNet(code, log, f[k], g[k], f[k + 1], e)
  BY <1>6 DEF Counts
<1>11. /\ g[n] = Len(log) /\ \A k \in 0..n : g[k] \in Nat
       /\ \A k \in 0..(n - 1) : Turn(code, log, f[k], g[k], f[k + 1], g[k + 1])
  BY <1>6 DEF Path
<1>12. d2 \in Int
  <2>1. d \in Int
    BY <1>2, <1>8, <1>10
  <2> QED BY <2>1, TurnNetIsInt
<1>13. ASSUME NEW k \in 0..n
       PROVE  c2[k + 1] = c2[k] + TurnNet(code, more, f2[k], g2[k], f2[k + 1], e)
  <2>1. CASE k = n
    BY <1>2, <1>8, <1>11, <2>1
  <2>2. CASE k # n
    <3>1. k \in 0..(n - 1) /\ k + 1 \in 0..n /\ k \in 0..n
      BY <2>2
    <3>2. /\ Turn(code, log, f[k], g[k], f[k + 1], g[k + 1]) /\ g[k] \in Nat /\ g[k + 1] \in Nat
          /\ c[k + 1] = c[k] + TurnNet(code, log, f[k], g[k], f[k + 1], e)
      BY <1>10, <1>11, <3>1
    <3>3. PICK x, y, u, v : x = f[k] /\ y = f[k + 1] /\ u = g[k] /\ v = g[k + 1]
      OBVIOUS
    <3>4. Turn(code, log, x, u, y, v) /\ u \in Nat /\ v \in Nat
      BY <3>2, <3>3
    <3>5. WordsNet(code[x.pc + 1], more, x, u, e) = WordsNet(code[x.pc + 1], log, x, u, e)
      BY ONLY <1>9, <3>4, WordsNetInLongerLog
    <3>6. TurnNet(code, more, x, u, y, e) = TurnNet(code, log, x, u, y, e)
      BY <3>5 DEF TurnNet
    <3>7. f2[k] = x /\ f2[k + 1] = y /\ g2[k] = u /\ c2[k] = c[k] /\ c2[k + 1] = c[k + 1]
      BY <1>8, <3>1, <3>3
    <3> QED BY ONLY <3>2, <3>3, <3>6, <3>7
  <2> QED BY <2>1, <2>2
<1>14. (n + 1) - 1 = n /\ n + 1 \in Nat
  OBVIOUS
<1>15. \A k \in 0..(n + 1) : c2[k] \in Int
  <2>1. \A k \in 0..(n + 1) : k \in 0..n \/ k = n + 1
    OBVIOUS
  <2> QED BY <1>8, <1>10, <1>12, <2>1
<1>16. Counts(code, more, f2, g2, c2, n + 1, e)
  BY <1>8, <1>10, <1>13, <1>14, <1>15 DEF Counts
<1>17. CountedPath(code, more, f2, g2, c2, n + 1, e)
  BY <1>7, <1>16 DEF CountedPath
<1>18. Gains(code, a, b, more, d2, e)
  BY <1>2, <1>7, <1>8, <1>14, <1>17 DEF Gains
<1>19. ASSUME BranchesMove => b.pc # m.pc
       PROVE  GainsOn(code, a, b, more, d2, e)
  BY <1>2, <1>7, <1>8, <1>14, <1>17, <1>19 DEF GainsOn
<1> QED BY <1>18, <1>19

-----------------------------------------------------------------------------
(* What an instruction of the simulator does to the words.                 *)

\* The machine made a turn, and the words are renewed as its log tells.
Moved(log) ==
  /\ Turned(log)
  /\ \A e : OfWords(memory', timestamps', e)
              = OfWords(memory, timestamps, e)
                  + WordsNet(Instruction(hart.pc), log, hart, Len(trace), e)

LEMMA LoadMoves ==
  ASSUME Typed, NEW i, i = Instruction(hart.pc), i.op = "lw",
         NEW w, w = hart.registers[i.rs1], w \in Words, Loaded(w)
  PROVE  \E log : Moved(log)
<1>1. PICK log : Turned(log) /\ Tells(log, Len(trace) + 1, w)
  BY DEF Loaded
<1>2. memory' = memory /\ timestamps' = [timestamps EXCEPT ![w] = hart.timestamp + 1]
  BY DEF Loaded
<1>3. PICK x, s, u : x = memory[w] /\ s = timestamps[w] /\ u = Len(trace)
  OBVIOUS
<1>4. log[u + 1][1] = x /\ log[u + 1][2] = s
  BY <1>1, <1>3 DEF Tells
<1>5. memory \in [Words -> Values] /\ timestamps \in [Words -> Nat]
  BY DEF Typed
<1>6. memory' = [memory EXCEPT ![w] = x]
  BY <1>2, <1>3, <1>5
<1>7. ASSUME NEW e
      PROVE  OfWords(memory', timestamps', e)
               = OfWords(memory, timestamps, e) + WordsNet(i, log, hart, Len(trace), e)
  <2>1. PICK t : t = hart.timestamp + 1
    OBVIOUS
  <2>2. timestamps' = [timestamps EXCEPT ![w] = t]
    BY <1>2, <2>1
  <2>3. Sets(memory', memory, w, x) /\ Sets(timestamps', timestamps, w, t)
    BY <1>5, <1>6, <2>2 DEF Sets
  <2>4. OfWords(memory', timestamps', e)
          = OfWords(memory, timestamps, e)
              + Renewal(e, w, mask_read_for_witness(w, memory[w]), timestamps[w],
                        mask_read_for_witness(w, x), t)
    BY ONLY w \in Words, <2>3, WordMoves
  <2>5. WordsNet(i, log, hart, u, e) = LoadNet(i, log, hart, u, e)
    BY WordsNetByName
  <2>6. LoadNet(i, log, hart, u, e)
          = Renewal(e, w, mask_read_for_witness(w, x), s, mask_read_for_witness(w, x), t)
    BY <1>4, <2>1 DEF LoadNet
  <2> QED BY <1>3, <2>4, <2>5, <2>6
<1> QED BY <1>1, <1>7 DEF Moved

LEMMA StoreMoves ==
  ASSUME Typed, NEW i, i = Instruction(hart.pc), i.op \in {"sw", "sb"},
         NEW w, w = hart.registers[i.rs1], w \in Words \ Rom,
         NEW value, value = hart.registers[i.rs2], Stored(i.op, w, value)
  PROVE  \E log : Moved(log)
<1>1. PICK log : Turned(log) /\ Tells(log, Len(trace) + 1, w)
  BY DEF Stored
<1>2. PICK x, s, u : x = memory[w] /\ s = timestamps[w] /\ u = Len(trace)
  OBVIOUS
<1>3. PICK new : new = IF i.op = "sw" THEN value ELSE Merge(x, value)
  OBVIOUS
<1>4. PICK t : t = hart.timestamp + 2
  OBVIOUS
<1>5. memory' = [memory EXCEPT ![w] = new] /\ timestamps' = [timestamps EXCEPT ![w] = t]
  BY <1>2, <1>3, <1>4 DEF Stored
<1>6. log[u + 1][1] = x /\ log[u + 1][2] = s
  BY <1>1, <1>2 DEF Tells
<1>7. memory \in [Words -> Values] /\ timestamps \in [Words -> Nat]
  BY DEF Typed
<1>8. \A y : mask_read_for_witness(w, y) = y
  BY DEF mask_read_for_witness
<1>9. ASSUME NEW e
      PROVE  OfWords(memory', timestamps', e)
               = OfWords(memory, timestamps, e) + WordsNet(i, log, hart, Len(trace), e)
  <2>1. w \in Words
    OBVIOUS
  <2>2. Sets(memory', memory, w, new) /\ Sets(timestamps', timestamps, w, t)
    BY <1>5, <1>7 DEF Sets
  <2>3. OfWords(memory', timestamps', e)
          = OfWords(memory, timestamps, e)
              + Renewal(e, w, mask_read_for_witness(w, memory[w]), timestamps[w],
                        mask_read_for_witness(w, new), t)
    BY ONLY <2>1, <2>2, WordMoves
  <2>4. OfWords(memory', timestamps', e)
          = OfWords(memory, timestamps, e) + Renewal(e, w, x, s, new, t)
    BY <1>2, <1>8, <2>3
  <2>5. WordsNet(i, log, hart, u, e) = StoreNet(i, log, hart, u, e)
    BY WordsNetByName
  <2>6. StoreNet(i, log, hart, u, e) = Renewal(e, w, x, s, new, t)
    BY <1>3, <1>4, <1>6 DEF StoreNet
  <2> QED BY <1>2, <2>4, <2>5, <2>6
<1> QED BY <1>1, <1>9 DEF Moved

\* The operands of a delegation: the first is written, the second is read.
Called(words, words2, ts, ts2, a, b, value, t) ==
  /\ words \in [Words -> Values] /\ ts \in [Words -> Nat]
  /\ a \in Words \ Rom /\ b \in Words \ Rom /\ a # b
  /\ value \in Values /\ t \in Nat
  /\ words2 = [words EXCEPT ![a] = value] /\ ts2 = [ts EXCEPT ![a] = t, ![b] = t]

LEMMA OperandsMove ==
  ASSUME NEW words, NEW words2, NEW ts, NEW ts2, NEW a, NEW b, NEW value, NEW t, NEW e,
         Called(words, words2, ts, ts2, a, b, value, t)
  PROVE  OfWords(words2, ts2, e)
           = OfWords(words, ts, e) + Renewal(e, a, words[a], ts[a], value, t)
               + Renewal(e, b, words[b], ts[b], words[b], t)
<1>1. /\ words \in [Words -> Values] /\ ts \in [Words -> Nat]
      /\ a \in Words \ Rom /\ b \in Words \ Rom /\ a # b
      /\ value \in Values /\ t \in Nat
      /\ words2 = [words EXCEPT ![a] = value] /\ ts2 = [ts EXCEPT ![a] = t, ![b] = t]
  BY DEF Called
<1>2. PICK ts1 : ts1 = [ts EXCEPT ![a] = t]
  OBVIOUS
<1>3. ts1 \in [Words -> Nat] /\ words2 \in [Words -> Values]
  BY <1>1, <1>2
<1>4. ts2 = [ts1 EXCEPT ![b] = t] /\ ts1[b] = ts[b]
  BY <1>1, <1>2
<1>5. PICK x : x = words[b] /\ words2[b] = x
  BY <1>1
<1>6. words2 = [words2 EXCEPT ![b] = x]
  BY <1>3, <1>5
<1>7. a \in Words /\ b \in Words
  BY <1>1
<1>8. /\ Sets(words2, words, a, value) /\ Sets(ts1, ts, a, t)
       /\ Sets(words2, words2, b, x) /\ Sets(ts2, ts1, b, t)
  BY <1>1, <1>2, <1>3, <1>4, <1>6 DEF Sets
<1>9. OfWords(words2, ts1, e)
        = OfWords(words, ts, e)
            + Renewal(e, a, mask_read_for_witness(a, words[a]), ts[a],
                      mask_read_for_witness(a, value), t)
  BY ONLY <1>7, <1>8, WordMoves
<1>10. OfWords(words2, ts2, e)
        = OfWords(words2, ts1, e)
            + Renewal(e, b, mask_read_for_witness(b, words2[b]), ts1[b],
                      mask_read_for_witness(b, x), t)
  BY ONLY <1>7, <1>8, WordMoves
<1>11. \A y : mask_read_for_witness(a, y) = y /\ mask_read_for_witness(b, y) = y
  BY <1>1 DEF mask_read_for_witness
<1> QED BY <1>4, <1>5, <1>9, <1>10, <1>11

\* The registers of a call point to words outside the ROM.
LEMMA CallPointers ==
  ASSUME Typed, DelegationPointers(hart)
  PROVE  /\ hart.registers[1] \in Words \ Rom /\ hart.registers[2] \in Words \ Rom
         /\ hart.registers[1] # hart.registers[2]
         /\ hart.timestamp \in Nat
<1>1. hart.registers \in [Registers -> Values] /\ hart.timestamp \in Nat
  BY SettledFields DEF Typed
<1> QED BY <1>1 DEF DelegationPointers, Registers, Words, Values

LEMMA SumMoves ==
  ASSUME Typed, Instruction(hart.pc).op = "bigint",
         DelegationPointers(hart), Summed(hart.registers[1], hart.registers[2])
  PROVE  \E log : Moved(log)
<1>1. PICK a, b, t : a = hart.registers[1] /\ b = hart.registers[2] /\ t = hart.timestamp + 3
  OBVIOUS
<1>2. a \in Words \ Rom /\ b \in Words \ Rom /\ a # b /\ t \in Nat
  BY <1>1, CallPointers
<1>3. Summed(a, b)
  BY <1>1
<1>4. PICK log : Turned(log) /\ Tells(log, Len(trace) + 1, b) /\ Tells(log, Len(trace) + 2, a)
  BY <1>3 DEF Summed
<1>5. PICK x, s, y, z, u : x = memory[a] /\ s = timestamps[a] /\ y = memory[b] /\ z = timestamps[b]
                           /\ u = Len(trace)
  OBVIOUS
<1>6. memory \in [Words -> Values] /\ timestamps \in [Words -> Nat]
  BY DEF Typed
<1>7. PICK value : value = bigint_impl(x, y)[1]
  OBVIOUS
<1>8. value \in Values
  BY <1>2, <1>5, <1>6, <1>7, CarryIsValue
<1>9. /\ memory' = [memory EXCEPT ![a] = value]
      /\ timestamps' = [timestamps EXCEPT ![a] = t, ![b] = t]
  BY <1>1, <1>3, <1>5, <1>7 DEF Summed
<1>10. log[u + 1][1] = y /\ log[u + 1][2] = z /\ log[u + 2][1] = x /\ log[u + 2][2] = s
  BY <1>4, <1>5 DEF Tells
<1>11. Called(memory, memory', timestamps, timestamps', a, b, value, t)
  BY <1>2, <1>6, <1>8, <1>9 DEF Called
<1>12. ASSUME NEW e
       PROVE  OfWords(memory', timestamps', e)
                = OfWords(memory, timestamps, e)
                    + WordsNet(Instruction(hart.pc), log, hart, Len(trace), e)
  <2>1. OfWords(memory', timestamps', e)
          = OfWords(memory, timestamps, e) + Renewal(e, a, memory[a], timestamps[a], value, t)
              + Renewal(e, b, memory[b], timestamps[b], memory[b], t)
    BY ONLY <1>11, OperandsMove
  <2>2. WordsNet(Instruction(hart.pc), log, hart, u, e) = SumNet(log, hart, u, e)
    BY WordsNetByName
  <2>3. mask_read_for_witness(b, y) = y
    BY <1>2 DEF mask_read_for_witness
  <2>4. SumNet(log, hart, u, e) = Renewal(e, b, y, z, y, t) + Renewal(e, a, x, s, value, t)
    BY <1>1, <1>7, <1>10, <2>3 DEF SumNet
  <2>5. /\ Renewal(e, b, y, z, y, t) \in Int /\ Renewal(e, a, x, s, value, t) \in Int
        /\ OfWords(memory, timestamps, e) \in Int
    BY RenewalsJoin, StandingIsInt
  <2> QED BY <1>5, <2>1, <2>2, <2>4, <2>5
<1> QED BY <1>4, <1>12 DEF Moved

LEMMA HashMoves ==
  ASSUME Typed, Instruction(hart.pc).op = "blake",
         DelegationPointers(hart),
         Hashed(hart.registers[1], hart.registers[2], num_rounds(hart.registers[3]))
  PROVE  \E log : Moved(log)
<1>0. PICK count \in Nat \ {0} : count = num_rounds(hart.registers[3]) /\ count \in 1..Rounds
  BY RoundsTaken
<1>1. PICK a, b, t : a = hart.registers[1] /\ b = hart.registers[2]
                     /\ t = LastRound(hart.timestamp, count) + 3
  OBVIOUS
<1>2. a \in Words \ Rom /\ b \in Words \ Rom /\ a # b /\ t \in Nat
  <2>1. hart.timestamp \in Nat
    BY CallPointers
  <2>2. t \in Nat
    BY <1>1, <2>1, <1>0 DEF LastRound
  <2> QED BY <1>1, <2>2, CallPointers
<1>3. Hashed(a, b, count)
  BY <1>0, <1>1
<1>4. PICK log : Turned(log) /\ Tells(log, Len(trace) + 1, a) /\ Tells(log, Len(trace) + 2, b)
  BY <1>3 DEF Hashed
<1>5. PICK x, s, y, z, u : x = memory[a] /\ s = timestamps[a] /\ y = memory[b] /\ z = timestamps[b]
                           /\ u = Len(trace)
  OBVIOUS
<1>6. memory \in [Words -> Values] /\ timestamps \in [Words -> Nat]
  BY DEF Typed
<1>7. PICK value : value = Mixed(x, y)[count]
  OBVIOUS
<1>8. value \in Values
  BY <1>0, <1>2, <1>5, <1>6, <1>7, MixedIsValue
<1>9. /\ memory' = [memory EXCEPT ![a] = value]
      /\ timestamps' = [timestamps EXCEPT ![a] = t, ![b] = t]
  BY <1>1, <1>3, <1>5, <1>7 DEF Hashed
<1>10. log[u + 1][1] = x /\ log[u + 1][2] = s /\ log[u + 2][1] = y /\ log[u + 2][2] = z
  BY <1>4, <1>5 DEF Tells
<1>11. Called(memory, memory', timestamps, timestamps', a, b, value, t)
  BY <1>2, <1>6, <1>8, <1>9 DEF Called
<1>12. ASSUME NEW e
       PROVE  OfWords(memory', timestamps', e)
                = OfWords(memory, timestamps, e)
                    + WordsNet(Instruction(hart.pc), log, hart, Len(trace), e)
  <2>1. OfWords(memory', timestamps', e)
          = OfWords(memory, timestamps, e) + Renewal(e, a, memory[a], timestamps[a], value, t)
              + Renewal(e, b, memory[b], timestamps[b], memory[b], t)
    BY ONLY <1>11, OperandsMove
  <2>2. WordsNet(Instruction(hart.pc), log, hart, u, e) = HashNet(log, hart, u, e)
    BY WordsNetByName
  <2>3. HashNet(log, hart, u, e) = Renewal(e, a, x, s, value, t) + Renewal(e, b, y, z, y, t)
    BY <1>0, <1>1, <1>7, <1>10 DEF HashNet
  <2>4. /\ Renewal(e, b, y, z, y, t) \in Int /\ Renewal(e, a, x, s, value, t) \in Int
        /\ OfWords(memory, timestamps, e) \in Int
    BY RenewalsJoin, StandingIsInt
  <2> QED BY <1>5, <2>1, <2>2, <2>3, <2>4
<1> QED BY <1>4, <1>12 DEF Moved

Executing ==
  \/ Add \/ Lui \/ Jal \/ Beq \/ Lw \/ Store \/ ReadNonDeterminism \/ WriteNonDeterminism
  \/ Bigint \/ Blake

\* An instruction that accesses no word.
LEMMA WordsStay ==
  ASSUME NEW log, Turned(log), memory' = memory, timestamps' = timestamps,
         Instruction(hart.pc).op \notin {"lw", "sw", "sb", "bigint", "blake"}
  PROVE  Moved(log)
<1>1. ASSUME NEW e
      PROVE  OfWords(memory', timestamps', e)
               = OfWords(memory, timestamps, e)
                   + WordsNet(Instruction(hart.pc), log, hart, Len(trace), e)
  <2>1. WordsNet(Instruction(hart.pc), log, hart, Len(trace), e) = 0
    BY WordsNetByName
  <2>2. OfWords(memory, timestamps, e) \in Int
    BY StandingIsInt
  <2> QED BY <2>1, <2>2
<1> QED BY <1>1 DEF Moved

LEMMA InstructionMoves ==
  ASSUME Typed, Recorded, Executing
  PROVE  (\E log : Moved(log)) /\ balance' = balance
<1>1. CASE Add \/ Lui \/ Jal \/ Beq \/ WriteNonDeterminism
  <2>1. Turned(trace)
    BY <1>1, AddKeepsRecord, LuiKeepsRecord, JalKeepsRecord, BeqKeepsRecord, WriteKeepsRecord
  <2>2. /\ memory' = memory /\ timestamps' = timestamps /\ balance' = balance
        /\ Instruction(hart.pc).op \in {"add", "lui", "jal", "beq", "nd_write"}
    BY <1>1 DEF Add, Lui, Jal, Beq, WriteNonDeterminism, Retire, holderVars, Executes
  <2> QED BY <2>1, <2>2, WordsStay
<1>2. CASE ReadNonDeterminism
  <2>1. PICK log : Turned(log)
    BY <1>2, ReadKeepsRecord
  <2>2. /\ memory' = memory /\ timestamps' = timestamps /\ balance' = balance
        /\ Instruction(hart.pc).op = "nd_read"
    BY <1>2 DEF ReadNonDeterminism, Record, holderVars, Executes
  <2> QED BY <2>1, <2>2, WordsStay
<1>3. CASE Lw
  <2>1. Executes("lw") /\ balance' = balance
    BY <1>3 DEF Lw, Record
  <2>2. PICK i \in InstructionType : i = Instruction(hart.pc) /\ i.op = "lw"
    BY <2>1, Current
  <2>3. hart.registers \in [Registers -> Values]
    BY SettledFields DEF Typed
  <2>4. PICK w : w = hart.registers[i.rs1]
    OBVIOUS
  <2>5. w \in Words
    BY <2>3, <2>4, InstructionFields DEF Words, Values
  <2>6. Loaded(w)
    BY <1>3, <2>2, <2>4, LwKeepsRecord
  <2> QED BY <2>1, <2>2, <2>4, <2>5, <2>6, LoadMoves
<1>4. CASE Store
  <2>1. Executes("sw") \/ Executes("sb")
    BY <1>4 DEF Store
  <2>2. PICK i \in InstructionType : i = Instruction(hart.pc) /\ i.op \in {"sw", "sb"}
    BY <2>1, Current
  <2>3. hart.registers \in [Registers -> Values]
    BY SettledFields DEF Typed
  <2>4. PICK w, value : w = hart.registers[i.rs1] /\ value = hart.registers[i.rs2]
    OBVIOUS
  <2>5. w \notin Rom /\ balance' = balance
    BY <1>4, <2>2, <2>4 DEF Store, Record
  <2>6. w \in Words \ Rom
    BY <2>3, <2>4, <2>5, InstructionFields DEF Words, Values
  <2>7. Stored(i.op, w, value)
    BY <1>4, <2>2, <2>4, StoreKeepsRecord
  <2> QED BY <2>2, <2>4, <2>5, <2>6, <2>7, StoreMoves
<1>5. CASE Bigint
  <2>1. DelegationPointers(hart) /\ Instruction(hart.pc).op = "bigint" /\ balance' = balance
    BY <1>5 DEF Bigint, Delegated, Executes
  <2>2. Summed(hart.registers[1], hart.registers[2])
    BY <1>5, BigintKeepsRecord
  <2> QED BY <2>1, <2>2, SumMoves
<1>6. CASE Blake
  <2>1. DelegationPointers(hart) /\ Instruction(hart.pc).op = "blake" /\ balance' = balance
    BY <1>6 DEF Blake, Delegated, Executes
  <2>2. Hashed(hart.registers[1], hart.registers[2], num_rounds(hart.registers[3]))
    BY <1>6, BlakeKeepsRecord
  <2> QED BY <2>1, <2>2, HashMoves
<1> QED BY <1>1, <1>2, <1>3, <1>4, <1>5, <1>6 DEF Executing

-----------------------------------------------------------------------------
(* What the replays of the snapshots that wait will add.                   *)

Owe(code, S, total, e) ==
  \E nets \in [S -> Int] :
    /\ \A s \in S : Gains(code, s.initial_state, s.final_state, s.trace, nets[s], e)
    /\ total = SumFunction(nets)

LEMMA OweNothing ==
  ASSUME NEW code, NEW e
  PROVE  Owe(code, {}, 0, e) /\ \A total : Owe(code, {}, total, e) => total = 0
<1>1. PICK nets : nets = [s \in {} |-> 0]
  OBVIOUS
<1>2. nets \in [{} -> Int] /\ DOMAIN nets = {}
  BY <1>1
<1>3. \A f \in [{} -> Int] : SumFunction(f) = 0
  <2> TAKE f \in [{} -> Int]
  <2>1. DOMAIN f = {}
    OBVIOUS
  <2> QED BY <2>1, SumEmpty
<1> QED BY <1>2, <1>3 DEF Owe

LEMMA OweMore ==
  ASSUME NEW code, NEW S, IsFiniteSet(S), NEW total, NEW e, Owe(code, S, total, e),
         NEW s, s \notin S, NEW d \in Int,
         Gains(code, s.initial_state, s.final_state, s.trace, d, e)
  PROVE  Owe(code, S \cup {s}, total + d, e) /\ total \in Int
<1>1. PICK nets \in [S -> Int] :
        /\ \A x \in S : Gains(code, x.initial_state, x.final_state, x.trace, nets[x], e)
        /\ total = SumFunction(nets)
  BY DEF Owe
<1>2. PICK more : more = [x \in S \cup {s} |-> IF x = s THEN d ELSE nets[x]]
  OBVIOUS
<1>3. more \in [S \cup {s} -> Int] /\ more[s] = d /\ \A x \in S : more[x] = nets[x]
  BY <1>2
<1>4. SumFunction(more) = SumFunction(nets) + more[s]
  BY ONLY IsFiniteSet(S), nets \in [S -> Int], s \notin S, <1>3, SumAdd
<1>5. \A x \in S \cup {s} :
        Gains(code, x.initial_state, x.final_state, x.trace, more[x], e)
  <2> TAKE x \in S \cup {s}
  <2>1. CASE x = s
    BY <1>3, <2>1
  <2>2. CASE x \in S
    BY <1>1, <1>3, <2>2
  <2> QED BY <2>1, <2>2
<1>6. total + d = SumFunction(more)
  BY <1>1, <1>3, <1>4
<1>7. total \in Int
  BY <1>1, SumInt
<1> QED BY <1>3, <1>5, <1>6, <1>7 DEF Owe

LEMMA OweLess ==
  ASSUME NEW code, NEW S, IsFiniteSet(S), NEW total, NEW e, Owe(code, S, total, e), NEW s \in S
  PROVE  \E d \in Int : /\ Gains(code, s.initial_state, s.final_state, s.trace, d, e)
                        /\ Owe(code, S \ {s}, total - d, e)
<1>1. PICK nets \in [S -> Int] :
        /\ \A x \in S : Gains(code, x.initial_state, x.final_state, x.trace, nets[x], e)
        /\ total = SumFunction(nets)
  BY DEF Owe
<1>2. PICK less : less = But(nets, s)
  OBVIOUS
<1>3. less \in [S \ {s} -> Int] /\ SumFunction(less) \in Int
  BY <1>2, ButType
<1>4. \A x \in S \ {s} : less[x] = nets[x]
  BY <1>2 DEF But
<1>5. SumFunction(nets) = nets[s] + SumFunction(less)
  BY <1>2, SumBut
<1>6. PICK d \in Int : d = nets[s]
  OBVIOUS
<1>7. Gains(code, s.initial_state, s.final_state, s.trace, d, e)
  BY <1>1, <1>6
<1>8. \A x \in S \ {s} : Gains(code, x.initial_state, x.final_state, x.trace, less[x], e)
  BY <1>1, <1>4
<1>9. total - d = SumFunction(less)
  BY <1>1, <1>3, <1>5, <1>6
<1>10. Owe(code, S \ {s}, total - d, e)
  BY <1>3, <1>8, <1>9 DEF Owe
<1> QED BY <1>7, <1>10

-----------------------------------------------------------------------------
(* The account of an entry: what the balance says of it, and what waiting  *)
(* and running replays and the chunk that is being filled will add, make   *)
(* up for what stands in the registers and words instead of zeros.         *)

Snapshot(a, log, b) == [initial_state |-> a, trace |-> log, final_state |-> b]

\* What the chunk that is being filled will add.
Pending(d, e) ==
  /\ phase \in {"compile", "run"} => GainsOn(program, state, hart, trace, d, e)
  /\ phase = "quit" => Gains(program, state, hart, trace, d, e)
  /\ phase \in {"done", "cached"} => d = 0

\* What the rest of a replay will add.
RestOf(r, code, rest, e) ==
  IF r = None
  THEN rest = 0
  ELSE \E n \in Nat : \E k \in 0..n : \E f, g, c :
         /\ OnPath(r, code, n, f, g, k) /\ Counts(code, r.snapshot.trace, f, g, c, n, e)
         /\ rest = c[n] - c[k]

Zeros == [w \in Words |-> 0]

\* What stands before a run, and what stands now.
New(e) == OfMachine(InitialMachine, e) + OfWords(Zeros, Zeros, e)

AtHand(e) ==
  IF phase = "cached" THEN New(e) ELSE OfMachine(hart, e) + OfWords(memory, timestamps, e)

Account(e) ==
  \E d, rest, total \in Int :
    /\ Pending(d, e) /\ RestOf(replay, program, rest, e) /\ Owe(program, snapshots, total, e)
    /\ Held(balance, e) + total + rest + d + New(e) = AtHand(e)

\* Every snapshot is a new one, and none gets lost.
Steady ==
  /\ ~is_aborted /\ IsFiniteSet(snapshots)
  /\ phase \in {"compile", "run", "quit"} =>
       \A s \in snapshots : s.initial_state.timestamp < state.timestamp
  /\ phase = "done" => state = hart

Sound == Steady /\ Balanced(balance) /\ \A e : Account(e)

LEMMA AccountsAreInts ==
  ASSUME NEW e
  PROVE  /\ New(e) \in Int /\ AtHand(e) \in Int
         /\ \A m : OfMachine(m, e) \in Int
<1>1. (\A m : OfMachine(m, e) \in Int) /\ \A x, y : OfWords(x, y, e) \in Int
  BY StandingIsInt DEF OfMachine
<1>2. New(e) \in Int
  BY <1>1 DEF New
<1>3. OfMachine(hart, e) \in Int /\ OfWords(memory, timestamps, e) \in Int
  BY <1>1
<1> QED BY <1>1, <1>2, <1>3 DEF AtHand

\* A snapshot is taken.
LEMMA SavesOne ==
  ASSUME ~is_aborted, ~abort, NEW h, NEW log, NEW m, Rounded(h) = m, process_trace(h, log)
  PROVE  state' = m /\ ~is_aborted' /\ snapshots' = snapshots \cup {Snapshot(state, log, m)}
BY DEF process_trace, Rounded, Snapshot

LEMMA SavedIsOwed ==
  ASSUME IsFiniteSet(snapshots), Settled(state),
         \A s \in snapshots : s.initial_state.timestamp < state.timestamp,
         NEW total, NEW e, Owe(program, snapshots, total, e),
         NEW log, NEW m, NEW d, Gains(program, state, m, log, d, e)
  PROVE  LET more == snapshots \cup {Snapshot(state, log, m)}
         IN  /\ Owe(program, more, total + d, e) /\ total \in Int
             /\ IsFiniteSet(more)
             /\ state.timestamp < m.timestamp =>
                  \A s \in more : s.initial_state.timestamp < m.timestamp
<1>1. PICK new : new = Snapshot(state, log, m)
  OBVIOUS
<1>2. new.initial_state = state /\ new.final_state = m /\ new.trace = log
  BY <1>1 DEF Snapshot
<1>3. d \in Int /\ Settled(m)
  BY GainIsInt
<1>4. state.timestamp \in Nat /\ m.timestamp \in Nat
  BY <1>3, SettledFields
<1>5. new \notin snapshots
  BY <1>2, <1>4
<1>6. Gains(program, new.initial_state, new.final_state, new.trace, d, e)
  BY <1>2
<1>7. Owe(program, snapshots \cup {new}, total + d, e) /\ total \in Int
  BY <1>3, <1>5, <1>6, OweMore
<1>8. IsFiniteSet(snapshots \cup {new})
  BY FS_AddElement
<1>9. ASSUME state.timestamp < m.timestamp, NEW s \in snapshots \cup {new}
      PROVE  s.initial_state.timestamp < m.timestamp
  <2>1. CASE s = new
    BY <1>2, <1>9, <2>1
  <2>2. CASE s \in snapshots
    <3>1. PICK net : Gains(program, s.initial_state, s.final_state, s.trace, net, e)
      BY <2>2 DEF Owe
    <3>2. s.initial_state.timestamp \in Nat
      BY <3>1, GainIsInt, SettledFields
    <3>3. s.initial_state.timestamp < state.timestamp
      BY <2>2
    <3> QED BY <1>4, <1>9, <3>2, <3>3
  <2> QED BY <1>9, <2>1, <2>2
<1> QED BY <1>1, <1>7, <1>8, <1>9

LEMMA TurnSaves ==
  ASSUME ~is_aborted, ~abort, NEW log, Turned(log)
  PROVE  \/ /\ trace' = log /\ state' = state /\ ~is_aborted' /\ snapshots' = snapshots
         \/ /\ trace' = <<>> /\ state' = hart' /\ ~is_aborted'
            /\ snapshots' = snapshots \cup {Snapshot(state, log, hart')}
<1>1. CASE log = trace /\ UNCHANGED <<trace, runnerVars>>
  BY <1>1 DEF runnerVars
<1>2. ASSUME NEW h, Rounded(h) = hart', check_to_save_trace(h, log)
      PROVE  \/ /\ trace' = log /\ state' = state /\ ~is_aborted' /\ snapshots' = snapshots
             \/ /\ trace' = <<>> /\ state' = hart' /\ ~is_aborted'
                /\ snapshots' = snapshots \cup {Snapshot(state, log, hart')}
  <2>1. CASE Len(log) >= TRACE_CHUNK_LEN
    <3>1. process_trace(h, log) /\ trace' = <<>>
      BY <1>2, <2>1 DEF check_to_save_trace
    <3>2. PICK m : m = hart'
      OBVIOUS
    <3> QED BY <1>2, <3>1, <3>2, SavesOne
  <2>2. CASE ~ (Len(log) >= TRACE_CHUNK_LEN)
    BY <1>2, <2>2 DEF check_to_save_trace, runnerVars
  <2> QED BY <2>1, <2>2
<1> QED BY <1>1, <1>2 DEF Turned

LEMMA TurnKeepsAccount ==
  ASSUME Typed, Steady, Balanced(balance), ~abort, NEW log, Moved(log),
         replay' = replay, balance' = balance, NEW e, Account(e)
  PROVE  Account(e)'
<1>1. PICK d \in Int, rest \in Int, total \in Int :
        /\ Pending(d, e) /\ RestOf(replay, program, rest, e) /\ Owe(program, snapshots, total, e)
        /\ Held(balance, e) + total + rest + d + New(e) = AtHand(e)
  BY DEF Account
<1>2. /\ Turned(log) /\ phase = "run" /\ log \in Logs /\ Begins(trace, log)
      /\ Turn(program, log, hart, Len(trace), hart', Len(log))
      /\ Settled(hart') /\ hart.timestamp < hart'.timestamp /\ program' = program
      /\ phase' = "quit" \/ (phase' = "run" /\ (BranchesMove => hart'.pc # hart.pc))
  BY DEF Moved, Turned
<1>3. PICK b, code : b = hart' /\ code = program
  OBVIOUS
<1>4. NextTurn(code, hart, trace, b, log)
  <2>1. Len(trace) \in Nat /\ Len(log) \in Nat
    BY <1>2 DEF Typed, Logs
  <2>2. hart.timestamp \in Nat /\ b.timestamp \in Nat
    BY <1>2, <1>3, SettledFields DEF Typed
  <2> QED BY <1>2, <1>3, <2>1, <2>2 DEF NextTurn
<1>5. PICK net \in Int : net = TurnNet(code, log, hart, Len(trace), b, e)
  BY TurnNetIsInt
<1>6. PICK d2 \in Int : d2 = d + net
  OBVIOUS
<1>7. GainsOn(code, state, hart, trace, d, e)
  BY <1>1, <1>2, <1>3 DEF Pending
<1>8. /\ Gains(code, state, b, log, d2, e)
      /\ (BranchesMove => b.pc # hart.pc) => GainsOn(code, state, b, log, d2, e)
  BY ONLY <1>4, <1>5, <1>6, <1>7, GainsMore
<1>9. AtHand(e)' = AtHand(e) + net
  <2>1. PICK x, y, z, ints : /\ x = OfWords(memory, timestamps, e)
                             /\ y = OfMachine(hart, e) /\ z = OfMachine(b, e)
                             /\ ints = WordsNet(program[hart.pc + 1], log, hart, Len(trace), e)
    OBVIOUS
  <2>2. OfWords(memory', timestamps', e) = x + ints
    BY <2>1 DEF Moved, Instruction
  <2>3. net = ints + z - y
    BY <1>3, <1>5, <2>1 DEF TurnNet
  <2>4. x \in Int /\ y \in Int /\ z \in Int /\ ints \in Int
    BY <2>1, StandingIsInt, AccountsAreInts, WordsNetByName
  <2>5. phase # "cached" /\ phase' # "cached"
    BY <1>2
  <2>6. AtHand(e) = y + x
    BY <2>1, <2>5 DEF AtHand
  <2>7. AtHand(e)' = z + (x + ints)
    BY <1>3, <2>1, <2>2, <2>5 DEF AtHand
  <2> QED BY <2>3, <2>4, <2>6, <2>7
<1>10. New(e)' = New(e) /\ Held(balance, e)' = Held(balance, e)
  BY DEF New, Held, OfMachine, InitialMachine
<1>11. RestOf(replay, program, rest, e)'
  BY <1>1, <1>2
<1>12. Held(balance, e) \in Int /\ AtHand(e) \in Int /\ New(e) \in Int
  BY HeldIsInt, AccountsAreInts
<1>13. /\ Settled(state) /\ IsFiniteSet(snapshots) /\ ~is_aborted
       /\ \A s \in snapshots : s.initial_state.timestamp < state.timestamp
  BY <1>2 DEF Typed, Steady
<1>14. CASE trace' = log /\ state' = state /\ snapshots' = snapshots
  <2>1. Pending(d2, e)'
    BY <1>2, <1>3, <1>8, <1>14 DEF Pending
  <2>2. Owe(program, snapshots, total, e)'
    BY <1>1, <1>2, <1>14
  <2>3. (Held(balance, e) + total + rest + d2 + New(e) = AtHand(e))'
    BY <1>1, <1>6, <1>9, <1>10, <1>12
  <2> QED BY <1>11, <2>1, <2>2, <2>3 DEF Account
<1>15. CASE /\ trace' = <<>> /\ state' = hart'
            /\ snapshots' = snapshots \cup {Snapshot(state, log, hart')}
  <2>1. Owe(program, snapshots, total + d2, e)'
    <3>1. Owe(code, snapshots, total, e)
      BY <1>1, <1>3
    <3>2. Owe(code, snapshots \cup {Snapshot(state, log, b)}, total + d2, e)
      BY <1>3, <1>8, <1>13, <3>1, SavedIsOwed
    <3> QED BY <1>2, <1>3, <1>15, <3>2
  <2>2. GainsOn(code, b, b, <<>>, 0, e)
    BY <1>2, <1>3, GainsNowhere
  <2>3. Gains(code, b, b, <<>>, 0, e)
    BY <2>2, GainsOnGains
  <2>4. Pending(0, e)'
    BY <1>2, <1>3, <1>15, <2>2, <2>3 DEF Pending
  <2>5. (Held(balance, e) + (total + d2) + rest + 0 + New(e) = AtHand(e))'
    BY <1>1, <1>6, <1>9, <1>10, <1>12
  <2>6. total + d2 \in Int /\ 0 \in Int
    OBVIOUS
  <2> QED BY <1>11, <2>1, <2>4, <2>5, <2>6 DEF Account
<1> QED BY <1>2, <1>13, <1>14, <1>15, TurnSaves

LEMMA TurnKeepsSteady ==
  ASSUME Typed, Steady, ~abort, NEW log, Turned(log), NEW e, Account(e)
  PROVE  Steady'
<1>1. PICK d \in Int, total \in Int : Pending(d, e) /\ Owe(program, snapshots, total, e)
  BY DEF Account
<1>2. /\ phase = "run" /\ Settled(hart') /\ hart.timestamp < hart'.timestamp
      /\ phase' \in {"quit", "run"}
  BY DEF Turned
<1>3. PICK b, code : b = hart' /\ code = program
  OBVIOUS
<1>4. /\ Settled(state) /\ IsFiniteSet(snapshots) /\ ~is_aborted
      /\ \A s \in snapshots : s.initial_state.timestamp < state.timestamp
  BY <1>2 DEF Typed, Steady
<1>5. GainsOn(code, state, hart, trace, d, e)
  BY <1>1, <1>2, <1>3 DEF Pending
<1>6. Gains(code, state, hart, trace, d, e)
  BY <1>5, GainsOnGains
<1>7. state.timestamp < b.timestamp
  <2>1. Settled(hart) /\ (state.timestamp < hart.timestamp \/ state = hart)
    BY <1>6, GainIsInt
  <2>2. state.timestamp \in Nat /\ hart.timestamp \in Nat /\ b.timestamp \in Nat
    BY <1>2, <1>3, <1>4, <2>1, SettledFields
  <2>3. hart.timestamp < b.timestamp
    BY <1>2, <1>3
  <2>4. CASE state.timestamp < hart.timestamp
    BY <2>2, <2>3, <2>4
  <2>5. CASE state = hart
    BY <2>3, <2>5
  <2> QED BY <2>1, <2>4, <2>5
<1>8. CASE trace' = log /\ state' = state /\ ~is_aborted' /\ snapshots' = snapshots
  BY <1>2, <1>4, <1>8 DEF Steady
<1>9. CASE /\ trace' = <<>> /\ state' = hart' /\ ~is_aborted'
           /\ snapshots' = snapshots \cup {Snapshot(state, log, hart')}
  <2>1. PICK new : new = Snapshot(state, log, b)
    OBVIOUS
  <2>2. new.initial_state = state
    BY <2>1 DEF Snapshot
  <2>3. snapshots' = snapshots \cup {new} /\ state' = b
    BY <1>3, <1>9, <2>1
  <2>4. IsFiniteSet(snapshots \cup {new})
    BY <1>4, FS_AddElement
  <2>5. ASSUME NEW s \in snapshots \cup {new}
        PROVE  s.initial_state.timestamp < b.timestamp
    <3>1. CASE s = new
      BY <1>7, <2>2, <3>1
    <3>2. CASE s \in snapshots
      <4>1. PICK net : Gains(program, s.initial_state, s.final_state, s.trace, net, e)
        BY <1>1, <3>2 DEF Owe
      <4>2. s.initial_state.timestamp \in Nat
        BY <4>1, GainIsInt, SettledFields
      <4>3. s.initial_state.timestamp < state.timestamp
        BY <1>4, <3>2
      <4>4. state.timestamp \in Nat /\ b.timestamp \in Nat
        BY <1>2, <1>3, <1>4, SettledFields
      <4> QED BY <1>7, <4>2, <4>3, <4>4
    <3> QED BY <3>1, <3>2
  <2> QED BY <1>2, <1>9, <2>3, <2>4, <2>5 DEF Steady
<1> QED BY <1>4, <1>8, <1>9, TurnSaves

LEMMA InstructionKeepsSound ==
  ASSUME Typed, Recorded, Sound, ~abort, Executing
  PROVE  Sound'
<1>1. PICK log : Moved(log) /\ balance' = balance
  BY InstructionMoves
<1>2. replay' = replay
  BY StepsOfOthers DEF Executing, Simulate
<1>3. Steady /\ Balanced(balance) /\ \A e : Account(e)
  BY DEF Sound
<1>4. \A e : Account(e)'
  BY <1>1, <1>2, <1>3, TurnKeepsAccount
<1>5. Steady'
  <2>1. Turned(log)
    BY <1>1 DEF Moved
  <2> QED BY <1>3, <2>1, TurnKeepsSteady
<1>6. Balanced(balance')
  BY <1>1, <1>3
<1> QED BY <1>4, <1>5, <1>6 DEF Sound

-----------------------------------------------------------------------------
(* The other steps of the simulator. *)

LEMMA WordsAgree ==
  ASSUME NEW words, NEW more, NEW ts, NEW e,
         \A w \in Words : mask_read_for_witness(w, more[w]) = mask_read_for_witness(w, words[w])
  PROVE  OfWords(more, ts, e) = OfWords(words, ts, e)
<1>1. WordEntries(more, ts) = WordEntries(words, ts)
  BY DEF WordEntries
<1> QED BY <1>1 DEF OfWords

LEMMA InitSound == Init => Sound
<1> SUFFICES ASSUME Init PROVE Sound
  OBVIOUS
<1>1. /\ phase = "compile" /\ hart = InitialMachine /\ state = InitialMachine /\ trace = <<>>
      /\ ~is_aborted /\ snapshots = {} /\ replay = None /\ balance = <<>>
      /\ timestamps = Zeros /\ \A w \in Words \ Rom : memory[w] = 0
  BY DEF Init, Zeros
<1>2. Balanced(<<>>) /\ \A e : Held(<<>>, e) = 0
  BY DEF Balanced, Held
<1>3. Steady
  BY <1>1, FS_EmptySet DEF Steady
<1>4. ASSUME NEW e
      PROVE  Account(e)
  <2>1. GainsOn(program, state, hart, trace, 0, e)
    BY <1>1, InitialSettled, GainsNowhere
  <2>2. Pending(0, e)
    BY <1>1, <2>1 DEF Pending
  <2>3. RestOf(replay, program, 0, e)
    BY <1>1 DEF RestOf
  <2>4. Owe(program, snapshots, 0, e)
    BY <1>1, OweNothing
  <2>5. OfWords(memory, Zeros, e) = OfWords(Zeros, Zeros, e)
    <3>1. \A w \in Words : mask_read_for_witness(w, memory[w]) = mask_read_for_witness(w, Zeros[w])
      BY <1>1 DEF mask_read_for_witness, Zeros
    <3> QED BY <3>1, WordsAgree
  <2>6. AtHand(e) = New(e) /\ New(e) \in Int
    BY <1>1, <2>5, AccountsAreInts DEF AtHand, New
  <2>7. Held(balance, e) + 0 + 0 + 0 + New(e) = AtHand(e)
    BY <1>1, <1>2, <2>6
  <2> QED BY <2>2, <2>3, <2>4, <2>7 DEF Account
<1> QED BY <1>1, <1>2, <1>3, <1>4 DEF Sound

\* Nothing is executed, and what stands outside the ROM is the same.
LEMMA IdleKeepsSound ==
  ASSUME Sound, UNCHANGED <<program, hart, timestamps, trace, state, is_aborted, snapshots, replay, balance>>,
         \A w \in Words : mask_read_for_witness(w, memory'[w]) = mask_read_for_witness(w, memory[w]),
         phase' = phase \/ (phase \in {"compile", "run"} /\ phase' \in {"compile", "run", "quit"})
  PROVE  Sound'
<1>1. Steady /\ Balanced(balance) /\ \A e : Account(e)
  BY DEF Sound
<1>2. Steady' /\ Balanced(balance)'
  BY <1>1 DEF Steady
<1>3. ASSUME NEW e
      PROVE  Account(e)'
  <2>1. PICK d \in Int, rest \in Int, total \in Int :
          /\ Pending(d, e) /\ RestOf(replay, program, rest, e)
          /\ Owe(program, snapshots, total, e)
          /\ Held(balance, e) + total + rest + d + New(e) = AtHand(e)
    BY <1>1 DEF Account
  <2>2. Pending(d, e)'
    BY <2>1, GainsOnGains DEF Pending
  <2>3. RestOf(replay, program, rest, e)' /\ Owe(program, snapshots, total, e)'
    BY <2>1
  <2>4. OfWords(memory', timestamps', e) = OfWords(memory, timestamps, e)
    <3>1. PICK more : more = memory'
      OBVIOUS
    <3>2. OfWords(more, timestamps, e) = OfWords(memory, timestamps, e)
      BY <3>1, WordsAgree
    <3> QED BY <3>1, <3>2
  <2>5. New(e)' = New(e) /\ Held(balance, e)' = Held(balance, e)
    BY DEF New, Held, OfMachine, InitialMachine, Zeros
  <2>6. AtHand(e)' = AtHand(e)
    BY <2>4, <2>5 DEF AtHand
  <2>7. (Held(balance, e) + total + rest + d + New(e) = AtHand(e))'
    BY <2>1, <2>5, <2>6
  <2> QED BY <2>2, <2>3, <2>7 DEF Account
<1> QED BY <1>2, <1>3 DEF Sound

LEMMA IdleStepsKeepSound ==
  ASSUME Sound, Compile \/ Load \/ EarlyExit \/ UNCHANGED vars
  PROVE  Sound'
<1>1. UNCHANGED <<program, hart, timestamps, trace, state, is_aborted, snapshots, replay, balance>>
  BY DEF Compile, Load, EarlyExit, vars, inputVars, simVars, holderVars, runnerVars
<1>2. \A w \in Words : mask_read_for_witness(w, memory'[w]) = mask_read_for_witness(w, memory[w])
  BY DEF Compile, Load, EarlyExit, vars, simVars, holderVars, mask_read_for_witness
<1>3. phase' = phase \/ (phase \in {"compile", "run"} /\ phase' \in {"compile", "run", "quit"})
  BY DEF Compile, Load, EarlyExit, vars, simVars
<1> QED BY <1>1, <1>2, <1>3, IdleKeepsSound

LEMMA QuitKeepsSound ==
  ASSUME Typed, Sound, ~abort, Quit
  PROVE  Sound'
<1>1. /\ process_trace(hart, trace) /\ trace' = <<>> /\ phase' = "done" /\ phase = "quit"
      /\ UNCHANGED <<program, hart, memory, timestamps, abort, replay, balance>>
  BY DEF Quit, inputVars, holderVars
<1>2. Steady /\ Balanced(balance) /\ \A e : Account(e)
  BY DEF Sound
<1>3. /\ Settled(state) /\ Settled(hart) /\ IsFiniteSet(snapshots) /\ ~is_aborted
      /\ \A s \in snapshots : s.initial_state.timestamp < state.timestamp
  BY <1>1, <1>2 DEF Typed, Steady
<1>4. Rounded(hart) = hart
  BY <1>3, RoundedIsItself
<1>5. state' = hart /\ ~is_aborted' /\ snapshots' = snapshots \cup {Snapshot(state, trace, hart)}
  BY <1>1, <1>3, <1>4, SavesOne
<1>6. Steady'
  BY <1>1, <1>3, <1>5, FS_AddElement DEF Steady
<1>7. ASSUME NEW e
      PROVE  Account(e)'
  <2>1. PICK d \in Int, rest \in Int, total \in Int :
          /\ Pending(d, e) /\ RestOf(replay, program, rest, e)
          /\ Owe(program, snapshots, total, e)
          /\ Held(balance, e) + total + rest + d + New(e) = AtHand(e)
    BY <1>2 DEF Account
  <2>2. Gains(program, state, hart, trace, d, e)
    BY <1>1, <2>1 DEF Pending
  <2>3. Owe(program, snapshots \cup {Snapshot(state, trace, hart)}, total + d, e)
    BY <1>3, <2>1, <2>2, SavedIsOwed
  <2>4. Owe(program, snapshots, total + d, e)'
    BY <1>1, <1>5, <2>3
  <2>5. Pending(0, e)' /\ RestOf(replay, program, rest, e)'
    BY <1>1, <2>1 DEF Pending
  <2>6. /\ New(e)' = New(e) /\ Held(balance, e)' = Held(balance, e)
        /\ AtHand(e)' = AtHand(e)
    BY <1>1 DEF New, Held, OfMachine, InitialMachine, Zeros, AtHand
  <2>7. Held(balance, e) \in Int /\ AtHand(e) \in Int /\ New(e) \in Int
    BY <1>2, HeldIsInt, AccountsAreInts
  <2>8. (Held(balance, e) + (total + d) + rest + 0 + New(e) = AtHand(e))'
    BY <2>1, <2>6, <2>7
  <2>9. total + d \in Int /\ 0 \in Int
    OBVIOUS
  <2> QED BY <2>4, <2>5, <2>8, <2>9 DEF Account
<1>8. Balanced(balance)'
  BY <1>1, <1>2
<1> QED BY <1>6, <1>7, <1>8 DEF Sound

-----------------------------------------------------------------------------
(* The inits and teardowns. *)

\* Among the entries of different places there is one at most.
LEMMA OneStands ==
  ASSUME NEW S, NEW f, NEW e, \A x, y \in S : f[x] = f[y] => x = y
  PROVE  /\ IsFiniteSet({x \in S : f[x] = e})
         /\ Cardinality({x \in S : f[x] = e}) = Standing(S, f, e)
<1>1. CASE \E x \in S : e = f[x]
  <2>1. PICK x \in S : e = f[x]
    BY <1>1
  <2>2. {y \in S : f[y] = e} = {x}
    BY <2>1
  <2>3. Standing(S, f, e) = 1
    BY <1>1 DEF Standing
  <2>4. IsFiniteSet({x}) /\ Cardinality({x}) = 1
    BY FS_Singleton
  <2> QED BY <2>2, <2>3, <2>4
<1>2. CASE ~ \E x \in S : e = f[x]
  <2>1. {y \in S : f[y] = e} = {}
    BY <1>2
  <2>2. Standing(S, f, e) = 0
    BY <1>2 DEF Standing
  <2>3. IsFiniteSet({}) /\ Cardinality({}) = 0
    BY FS_EmptySet
  <2> QED BY <2>1, <2>2, <2>3
<1> QED BY <1>1, <1>2

Bit(x) == IF x THEN 1 ELSE 0

Places == ({"ram"} \X Touched) \cup ({"reg"} \X Registers)

TornDown(p) ==
  IF p[1] = "ram"
  THEN <<"ram", p[2], mask_read_for_witness(p[2], memory[p[2]]), timestamps[p[2]]>>
  ELSE <<"reg", p[2], state.registers[p[2]], state.register_timestamps[p[2]]>>

FinalRows == [p \in Places |-> <<TornDown(p), Initial(p[1], p[2])>>]

\* The entries that are torn down, that come into being, and that stay zero.
TornWord(e) ==
  \E w \in Touched : e = <<"ram", w, mask_read_for_witness(w, memory[w]), timestamps[w]>>
TornRegister(e) ==
  \E r \in Registers : e = <<"reg", r, state.registers[r], state.register_timestamps[r]>>
NewWord(e) == \E w \in Touched : e = <<"ram", w, 0, 0>>
NewRegister(e) == \E r \in Registers : e = <<"reg", r, 0, 0>>
IdleWord(e) == \E w \in Words \ Touched : e = <<"ram", w, 0, 0>>

LEMMA PlacesAreFinite == IsFiniteSet(Places)
<1>1. IsFiniteSet(Words) /\ IsFiniteSet(Registers)
  <2>1. 0 \in Int /\ MaxAddress \in Int /\ 3 \in Int
    BY ReplayAssumption
  <2> QED BY <2>1, FS_Interval DEF Words, Registers
<1>2. IsFiniteSet(Touched)
  BY <1>1, FS_Subset DEF Touched
<1>3. IsFiniteSet({"ram"}) /\ IsFiniteSet({"reg"})
  BY FS_Singleton
<1>4. IsFiniteSet({"ram"} \X Touched) /\ IsFiniteSet({"reg"} \X Registers)
  BY ONLY <1>1, <1>2, <1>3, FS_Product
<1> QED BY <1>4, FS_Union DEF Places

\* Both entries of a row tell its place.
LEMMA RowsTell ==
  ASSUME NEW p \in Places
  PROVE  /\ p = <<p[1], p[2]>>
         /\ TornDown(p)[1] = p[1] /\ TornDown(p)[2] = p[2]
         /\ Initial(p[1], p[2])[1] = p[1] /\ Initial(p[1], p[2])[2] = p[2]
BY DEF Places, TornDown, Initial

LEMMA TornDownAre ==
  ASSUME NEW e
  PROVE  /\ (\E p \in Places : e = TornDown(p)) <=> TornWord(e) \/ TornRegister(e)
         /\ (\E p \in Places : e = Initial(p[1], p[2])) <=> NewWord(e) \/ NewRegister(e)
         /\ ~ (TornWord(e) /\ TornRegister(e)) /\ ~ (NewWord(e) /\ NewRegister(e))
<1>1. ASSUME NEW p \in Places
      PROVE  \/ \E w \in Touched : p[1] = "ram" /\ p[2] = w
             \/ \E r \in Registers : p[1] = "reg" /\ p[2] = r
  BY DEF Places
<1>2. ASSUME NEW w \in Touched
      PROVE  <<"ram", w>> \in Places /\ <<"ram", w>>[1] = "ram" /\ <<"ram", w>>[2] = w
  BY DEF Places
<1>3. ASSUME NEW r \in Registers
      PROVE  <<"reg", r>> \in Places /\ <<"reg", r>>[1] = "reg" /\ <<"reg", r>>[2] = r
  BY DEF Places
<1>4. (\E p \in Places : e = TornDown(p)) => TornWord(e) \/ TornRegister(e)
  BY <1>1 DEF TornDown, TornWord, TornRegister
<1>5. TornWord(e) => \E p \in Places : e = TornDown(p)
  BY <1>2 DEF TornDown, TornWord
<1>6. TornRegister(e) => \E p \in Places : e = TornDown(p)
  BY <1>3 DEF TornDown, TornRegister
<1>7. (\E p \in Places : e = Initial(p[1], p[2])) => NewWord(e) \/ NewRegister(e)
  BY <1>1 DEF Initial, NewWord, NewRegister
<1>8. NewWord(e) => \E p \in Places : e = Initial(p[1], p[2])
  BY <1>2 DEF Initial, NewWord
<1>9. NewRegister(e) => \E p \in Places : e = Initial(p[1], p[2])
  BY <1>3 DEF Initial, NewRegister
<1>10. ~ (TornWord(e) /\ TornRegister(e)) /\ ~ (NewWord(e) /\ NewRegister(e))
  BY DEF TornWord, TornRegister, NewWord, NewRegister
<1> QED BY <1>4, <1>5, <1>6, <1>7, <1>8, <1>9, <1>10

LEMMA FinalNet ==
  ASSUME NEW e
  PROVE  Net(FinalRows, e) = Bit(NewWord(e) \/ NewRegister(e)) - Bit(TornWord(e) \/ TornRegister(e))
<1>1. PICK f, g, S : /\ f = [p \in Places |-> TornDown(p)]
                     /\ g = [p \in Places |-> Initial(p[1], p[2])] /\ S = Places
  OBVIOUS
<1>2. \A p \in S : f[p] = TornDown(p) /\ g[p] = Initial(p[1], p[2])
  BY <1>1
<1>3. \A p \in S : p = <<p[1], p[2]>> /\ f[p][1] = p[1] /\ f[p][2] = p[2]
                     /\ g[p][1] = p[1] /\ g[p][2] = p[2]
  BY <1>1, <1>2, RowsTell
<1>4. (\A x, y \in S : f[x] = f[y] => x = y) /\ (\A x, y \in S : g[x] = g[y] => x = y)
  BY <1>3
<1>5. /\ Cardinality({p \in S : f[p] = e}) = Standing(S, f, e)
      /\ Cardinality({p \in S : g[p] = e}) = Standing(S, g, e)
  BY <1>4, OneStands
<1>6. Writes(FinalRows, e) = {p \in S : g[p] = e} /\ Reads(FinalRows, e) = {p \in S : f[p] = e}
  BY <1>1, <1>2 DEF Writes, Reads, FinalRows
<1>7. /\ Standing(S, f, e) = Bit(TornWord(e) \/ TornRegister(e))
      /\ Standing(S, g, e) = Bit(NewWord(e) \/ NewRegister(e))
  BY <1>1, <1>2, TornDownAre DEF Standing, Bit
<1> QED BY <1>5, <1>6, <1>7 DEF Net

\* What stands at the end of a run, and what stands before the next.
LEMMA StandsAtEnd ==
  ASSUME Typed, HolderInv, state = hart, NEW e
  PROVE  /\ OfMachine(hart, e) = Bit(TornRegister(e))
         /\ OfMachine(InitialMachine, e) = Bit(NewRegister(e))
         /\ OfWords(memory, timestamps, e) = Bit(TornWord(e) \/ IdleWord(e))
         /\ OfWords(Zeros, Zeros, e) = Bit(NewWord(e) \/ IdleWord(e))
         /\ ~ (TornWord(e) /\ IdleWord(e)) /\ ~ (NewWord(e) /\ IdleWord(e))
<1>1. Touched \subseteq Words /\ \A w \in Words \ Touched : timestamps[w] = 0
  BY DEF Touched
<1>2. \A w \in Words \ Touched : mask_read_for_witness(w, memory[w]) = 0
  BY <1>1 DEF HolderInv, Untouched, mask_read_for_witness
<1>3. OfMachine(hart, e) = Bit(TornRegister(e))
  BY DEF OfMachine, OfRegisters, Standing, RegisterEntries, Bit, TornRegister
<1>4. OfMachine(InitialMachine, e) = Bit(NewRegister(e))
  BY DEF OfMachine, OfRegisters, Standing, RegisterEntries, Bit, NewRegister, InitialMachine
<1>5. OfWords(memory, timestamps, e) = Bit(TornWord(e) \/ IdleWord(e))
  <2>1. (\E w \in Words : e = WordEntries(memory, timestamps)[w]) <=> TornWord(e) \/ IdleWord(e)
    BY <1>1, <1>2 DEF WordEntries, TornWord, IdleWord
  <2> QED BY <2>1 DEF OfWords, Standing, Bit
<1>6. OfWords(Zeros, Zeros, e) = Bit(NewWord(e) \/ IdleWord(e))
  <2>1. \A w \in Words : WordEntries(Zeros, Zeros)[w] = <<"ram", w, 0, 0>>
    BY DEF WordEntries, Zeros, mask_read_for_witness
  <2>2. (\E w \in Words : e = WordEntries(Zeros, Zeros)[w]) <=> NewWord(e) \/ IdleWord(e)
    BY <1>1, <2>1 DEF NewWord, IdleWord
  <2> QED BY <2>2 DEF OfWords, Standing, Bit
<1>7. ~ (NewWord(e) /\ IdleWord(e))
  BY DEF NewWord, IdleWord
<1>8. ~ (TornWord(e) /\ IdleWord(e))
  BY DEF TornWord, IdleWord
<1> QED BY <1>3, <1>4, <1>5, <1>6, <1>7, <1>8

LEMMA FinalRowsNet ==
  ASSUME Typed, HolderInv, state = hart, NEW e
  PROVE  Net(FinalRows, e) + (OfMachine(hart, e) + OfWords(memory, timestamps, e)) = New(e)
<1>1. /\ Bit(TornWord(e) \/ IdleWord(e)) = Bit(TornWord(e)) + Bit(IdleWord(e))
      /\ Bit(NewWord(e) \/ IdleWord(e)) = Bit(NewWord(e)) + Bit(IdleWord(e))
      /\ Bit(TornWord(e) \/ TornRegister(e)) = Bit(TornWord(e)) + Bit(TornRegister(e))
      /\ Bit(NewWord(e) \/ NewRegister(e)) = Bit(NewWord(e)) + Bit(NewRegister(e))
  BY StandsAtEnd, TornDownAre DEF Bit
<1>2. /\ Bit(TornWord(e)) \in Int /\ Bit(TornRegister(e)) \in Int /\ Bit(NewWord(e)) \in Int
      /\ Bit(NewRegister(e)) \in Int /\ Bit(IdleWord(e)) \in Int
  BY DEF Bit
<1> QED BY <1>1, <1>2, FinalNet, StandsAtEnd DEF New

LEMMA CollectKeepsSound ==
  ASSUME Typed, HolderInv, Sound, CollectInitsAndTeardowns
  PROVE  Sound'
<1>1. /\ phase = "done" /\ phase' = "cached"
      /\ UNCHANGED <<program, hart, trace, state, is_aborted, snapshots, replay>>
  BY DEF CollectInitsAndTeardowns, inputVars, runnerVars
<1>2. balance' = Settle(balance, FinalRows)
  BY DEF CollectInitsAndTeardowns, FinalRows, Places, TornDown, mask_read_for_witness
<1>3. Steady /\ Balanced(balance) /\ (\A e : Account(e)) /\ state = hart
  BY <1>1 DEF Sound, Steady
<1>4. IsFiniteSet(DOMAIN FinalRows)
  BY PlacesAreFinite DEF FinalRows
<1>5. /\ Balanced(balance')
      /\ \A e : Held(balance', e) = Held(balance, e) + Net(FinalRows, e)
  BY <1>2, <1>3, <1>4, SettleAdds
<1>6. Steady'
  BY <1>1, <1>3 DEF Steady
<1>7. ASSUME NEW e
      PROVE  Account(e)'
  <2>1. PICK d \in Int, rest \in Int, total \in Int :
          /\ Pending(d, e) /\ RestOf(replay, program, rest, e)
          /\ Owe(program, snapshots, total, e)
          /\ Held(balance, e) + total + rest + d + New(e) = AtHand(e)
    BY <1>3 DEF Account
  <2>2. Pending(d, e)' /\ RestOf(replay, program, rest, e)' /\ Owe(program, snapshots, total, e)'
    BY <1>1, <2>1 DEF Pending
  <2>3. AtHand(e) = OfMachine(hart, e) + OfWords(memory, timestamps, e) /\ AtHand(e)' = New(e)
    BY <1>1 DEF AtHand, New, OfMachine, InitialMachine, Zeros
  <2>4. New(e)' = New(e)
    BY DEF New, OfMachine, InitialMachine, Zeros
  <2>5. Held(balance, e)' = Held(balance, e) + Net(FinalRows, e)
    BY <1>5
  <2>6. Net(FinalRows, e) + AtHand(e) = New(e)
    BY <1>3, <2>3, FinalRowsNet
  <2>7. /\ Held(balance, e) \in Int /\ AtHand(e) \in Int /\ New(e) \in Int
        /\ Net(FinalRows, e) \in Int
    BY <1>3, <1>4, HeldIsInt, AccountsAreInts, NetIsInt
  <2>8. (Held(balance, e) + total + rest + d + New(e) = AtHand(e))'
    BY <2>1, <2>3, <2>4, <2>5, <2>6, <2>7
  <2> QED BY <2>2, <2>8 DEF Account
<1> QED BY <1>5, <1>6, <1>7 DEF Sound

-----------------------------------------------------------------------------
(* The steps of the replayer. *)

\* None is not the state of a replay.
NoneIsNoReplay == \A r : DOMAIN r = VmFields => r # None

\* A snapshot is at the start of its path.
LEMMA TakenIsOnPath ==
  ASSUME NEW s, s.trace \in Logs, NEW n \in Nat, NEW f, NEW g, Path(program, s.trace, f, g, n),
         f[0] = s.initial_state, f[n] = s.final_state
  PROVE  LET r == TakeSnapshot(s)
         IN  DOMAIN r = VmFields /\ r.snapshot = s /\ OnPath(r, program, n, f, g, 0) /\ 0 \in 0..n
<1>1. PICK zero : zero = [c \in CounterType |-> 0]
  OBVIOUS
<1>2. PICK r : r = TakeSnapshot(s)
  OBVIOUS
<1>3. /\ DOMAIN r = VmFields /\ r = [x \in DOMAIN r |-> r[x]]
      /\ r.pc = f[0].pc /\ r.timestamp = f[0].timestamp /\ r.registers = f[0].registers
      /\ r.register_timestamps = f[0].register_timestamps /\ r.log = s.trace
      /\ r.intact = TRUE /\ r.stopped = FALSE /\ r.rows = <<>>
      /\ r.counted = zero /\ r.snapshot = s
  BY <1>1, <1>2 DEF TakeSnapshot, VmFields
<1>4. g[0] = 0 /\ Settled(f[0])
  BY DEF Path
<1>5. Rest(r.log, s.trace, g[0])
  BY <1>3, <1>4, RestBegins
<1>6. Forward(r.rows)
  BY <1>3, NoRows
<1>7. Tally(r.counted, f[0].counters, f[0].counters)
  <2>1. f[0].counters \in [CounterType -> Nat]
    BY <1>4, SettledFields
  <2> QED BY <1>1, <1>3, <2>1 DEF Tally
<1>8. Stands(r, f[0], s.trace, g[0], f[0].counters, s)
  BY <1>3, <1>5, <1>6, <1>7 DEF Stands, Stage
<1>9. OnPath(r, program, n, f, g, 0) /\ 0 \in 0..n
  BY <1>3, <1>8 DEF OnPath
<1> QED BY <1>2, <1>3, <1>9

LEMMA BeginKeepsSound ==
  ASSUME NoneIsNoReplay, Recorded, Sound, ~abort, BeginReplay
  PROVE  Sound'
<1>1. PICK s \in snapshots : snapshots' = snapshots \ {s} /\ replay' = TakeSnapshot(s)
  BY DEF BeginReplay
<1>2. /\ replay = None
      /\ UNCHANGED <<program, phase, hart, memory, timestamps, trace, state, is_aborted, balance>>
  BY DEF BeginReplay, inputVars, simVars, holderVars
<1>3. Steady /\ Balanced(balance) /\ \A e : Account(e)
  BY DEF Sound
<1>4. Steady'
  <2>1. IsFiniteSet(snapshots \ {s})
    BY <1>3, FS_Subset DEF Steady
  <2> QED BY <1>1, <1>2, <1>3, <2>1 DEF Steady
<1>5. ASSUME NEW e
      PROVE  Account(e)'
  <2>1. PICK d \in Int, rest \in Int, total \in Int :
          /\ Pending(d, e) /\ RestOf(replay, program, rest, e)
          /\ Owe(program, snapshots, total, e)
          /\ Held(balance, e) + total + rest + d + New(e) = AtHand(e)
    BY <1>3 DEF Account
  <2>2. PICK net \in Int : /\ Gains(program, s.initial_state, s.final_state, s.trace, net, e)
                           /\ Owe(program, snapshots \ {s}, total - net, e)
    BY <1>3, <2>1, OweLess DEF Steady
  <2>3. PICK n \in Nat : \E f, g, c :
          /\ CountedPath(program, s.trace, f, g, c, n, e)
          /\ f[0] = s.initial_state /\ f[n] = s.final_state /\ c[n] = net
    BY <2>2 DEF Gains
  <2>4. PICK f, g, c :
          /\ CountedPath(program, s.trace, f, g, c, n, e)
          /\ f[0] = s.initial_state /\ f[n] = s.final_state /\ c[n] = net
    BY <2>3
  <2>5. Path(program, s.trace, f, g, n) /\ Counts(program, s.trace, f, g, c, n, e) /\ c[0] = 0
    BY <2>4 DEF CountedPath, Counts
  <2>6. s.trace \in Logs
    BY DEF Recorded
  <2>7. PICK r : r = TakeSnapshot(s)
    OBVIOUS
  <2>8. /\ DOMAIN r = VmFields /\ r.snapshot = s
        /\ OnPath(r, program, n, f, g, 0) /\ 0 \in 0..n
    BY <2>4, <2>5, <2>6, <2>7, TakenIsOnPath
  <2>9. r # None
    BY <2>8 DEF NoneIsNoReplay
  <2>10. net = c[n] - c[0]
    BY <2>4, <2>5
  <2>11. RestOf(r, program, net, e)
    BY <2>5, <2>8, <2>10, <2>9 DEF RestOf
  <2>12. RestOf(replay, program, net, e)'
    BY <1>1, <1>2, <2>7, <2>11
  <2>13. Owe(program, snapshots, total - net, e)' /\ Pending(d, e)'
    BY <1>1, <1>2, <2>1, <2>2 DEF Pending
  <2>14. rest = 0
    BY <1>2, <2>1 DEF RestOf
  <2>15. /\ New(e)' = New(e) /\ Held(balance, e)' = Held(balance, e)
         /\ AtHand(e)' = AtHand(e)
    BY <1>2 DEF New, Held, OfMachine, InitialMachine, Zeros, AtHand
  <2>16. Held(balance, e) \in Int /\ AtHand(e) \in Int /\ New(e) \in Int
    BY <1>3, HeldIsInt, AccountsAreInts
  <2>17. (Held(balance, e) + (total - net) + net + d + New(e) = AtHand(e))'
    BY <2>1, <2>14, <2>15, <2>16
  <2>18. total - net \in Int
    OBVIOUS
  <2> QED BY <2>12, <2>13, <2>17, <2>18 DEF Account
<1>6. Balanced(balance)'
  BY <1>2, <1>3
<1> QED BY <1>4, <1>5, <1>6 DEF Sound

\* A replay that ends has added everything.
LEMMA EndKeepsSound ==
  ASSUME BranchesMove, Sound, EndReplay
  PROVE  Sound'
<1>1. /\ replay # None /\ Finished /\ replay' = None
      /\ UNCHANGED <<program, phase, hart, memory, timestamps, trace, state, is_aborted,
                     snapshots, balance>>
  BY DEF EndReplay, inputVars, simVars, holderVars
<1>2. Steady /\ Balanced(balance) /\ \A e : Account(e)
  BY DEF Sound
<1>3. Steady' /\ Balanced(balance)'
  BY <1>1, <1>2 DEF Steady
<1>4. ASSUME NEW e
      PROVE  Account(e)'
  <2>1. PICK d \in Int, rest \in Int, total \in Int :
          /\ Pending(d, e) /\ RestOf(replay, program, rest, e)
          /\ Owe(program, snapshots, total, e)
          /\ Held(balance, e) + total + rest + d + New(e) = AtHand(e)
    BY <1>2 DEF Account
  <2>2. PICK n \in Nat : \E k \in 0..n : \E f, g, c :
          /\ OnPath(replay, program, n, f, g, k)
          /\ Counts(program, replay.snapshot.trace, f, g, c, n, e)
          /\ rest = c[n] - c[k]
    BY <1>1, <2>1 DEF RestOf
  <2>3. PICK k \in 0..n : \E f, g, c :
          /\ OnPath(replay, program, n, f, g, k)
          /\ Counts(program, replay.snapshot.trace, f, g, c, n, e)
          /\ rest = c[n] - c[k]
    BY <2>2
  <2>4. PICK f, g, c :
          /\ OnPath(replay, program, n, f, g, k)
          /\ Counts(program, replay.snapshot.trace, f, g, c, n, e)
          /\ rest = c[n] - c[k]
    BY <2>3
  <2>5. k = n
    BY <1>1, <2>4, BoundIsTheEnd
  <2>6. c[n] \in Int
    BY <2>4 DEF Counts
  <2>7. rest = 0
    BY <2>4, <2>5, <2>6
  <2>8. RestOf(replay, program, 0, e)'
    BY <1>1 DEF RestOf
  <2>9. Owe(program, snapshots, total, e)' /\ Pending(d, e)'
    BY <1>1, <2>1 DEF Pending
  <2>10. /\ New(e)' = New(e) /\ Held(balance, e)' = Held(balance, e)
        /\ AtHand(e)' = AtHand(e)
    BY <1>1 DEF New, Held, OfMachine, InitialMachine, Zeros, AtHand
  <2>11. (Held(balance, e) + total + 0 + d + New(e) = AtHand(e))'
    BY <2>1, <2>7, <2>10
  <2> QED BY <2>8, <2>9, <2>11 DEF Account
<1> QED BY <1>3, <1>4 DEF Sound

LEMMA AdvanceChanges ==
  ASSUME NEW vm, NEW pc, NEW type, Advance(vm, pc, type)
  PROVE  UNCHANGED <<inputVars, simVars, abort, snapshots>>
BY DEF Advance

LEMMA InstructedIsOther ==
  ASSUME Instructed
  PROVE  /\ replay # None /\ ~Finished
         /\ UNCHANGED <<program, phase, hart, memory, timestamps, trace, state, is_aborted>>
         /\ snapshots' = snapshots /\ abort' = abort
<1>1. replay # None /\ ~Finished
  BY InstructedStarts
<1>2. UNCHANGED <<inputVars, simVars, abort, snapshots>>
  <2>1. CASE ReplayAdd
    BY <2>1, AdvanceChanges DEF ReplayAdd
  <2>2. CASE ReplayLui
    BY <2>2, AdvanceChanges DEF ReplayLui
  <2>3. CASE ReplayJal
    BY <2>3, AdvanceChanges DEF ReplayJal
  <2>4. CASE ReplayBeq
    BY <2>4, AdvanceChanges DEF ReplayBeq
  <2>5. CASE ReplayLw
    BY <2>5, AdvanceChanges DEF ReplayLw
  <2>6. CASE ReplayStore
    BY <2>6, AdvanceChanges DEF ReplayStore
  <2>7. CASE ReplayReadNonDeterminism
    BY <2>7, AdvanceChanges DEF ReplayReadNonDeterminism
  <2>8. CASE ReplayWriteNonDeterminism
    BY <2>8, AdvanceChanges DEF ReplayWriteNonDeterminism
  <2>9. CASE ReplayBigint
    BY <2>9, AdvanceChanges DEF ReplayBigint
  <2>10. CASE ReplayBlake
    BY <2>10, AdvanceChanges DEF ReplayBlake
  <2> QED BY <2>1, <2>2, <2>3, <2>4, <2>5, <2>6, <2>7, <2>8, <2>9, <2>10 DEF Instructed
<1>3. /\ UNCHANGED <<program, phase, hart, memory, timestamps, trace, state, is_aborted>>
       /\ snapshots' = snapshots /\ abort' = abort
  BY <1>2 DEF inputVars, simVars, holderVars
<1> QED BY <1>1, <1>3

\* An instruction adds what its turn on the path says.
LEMMA InstructedKeepsAccount ==
  ASSUME NoneIsNoReplay, Instructed, Balanced(balance), NEW e, Account(e)
  PROVE  Account(e)' /\ Balanced(balance')
<1>1. /\ replay # None /\ ~Finished
      /\ UNCHANGED <<program, phase, hart, memory, timestamps, trace, state, is_aborted>>
      /\ snapshots' = snapshots
  BY InstructedIsOther
<1>2. PICK d \in Int, rest \in Int, total \in Int :
        /\ Pending(d, e) /\ RestOf(replay, program, rest, e) /\ Owe(program, snapshots, total, e)
        /\ Held(balance, e) + total + rest + d + New(e) = AtHand(e)
  BY DEF Account
<1>3. PICK n \in Nat : \E k \in 0..n : \E f, g, c :
        /\ OnPath(replay, program, n, f, g, k)
        /\ Counts(program, replay.snapshot.trace, f, g, c, n, e)
        /\ rest = c[n] - c[k]
  BY <1>1, <1>2 DEF RestOf
<1>4. PICK k \in 0..n : \E f, g, c :
        /\ OnPath(replay, program, n, f, g, k)
        /\ Counts(program, replay.snapshot.trace, f, g, c, n, e)
        /\ rest = c[n] - c[k]
  BY <1>3
<1>5. PICK f, g, c :
        /\ OnPath(replay, program, n, f, g, k)
        /\ Counts(program, replay.snapshot.trace, f, g, c, n, e)
        /\ rest = c[n] - c[k]
  BY <1>4
<1>6. k # n
  <2>1. ~BoundReached
    BY <1>1 DEF Finished
  <2> QED BY <1>5, <2>1, BoundIsTheEnd
<1>7. PICK m \in 0..n : m = k + 1 /\ k \in 0..(n - 1) /\ k \in 0..n
  BY <1>6
<1>8. PICK s : s = replay.snapshot
  OBVIOUS
<1>9. /\ Path(program, s.trace, f, g, n)
      /\ f[0] = s.initial_state /\ f[n] = s.final_state
      /\ Stands(replay, f[k], s.trace, g[k], f[0].counters, s)
  BY <1>5, <1>8 DEF OnPath
<1>10. PICK a, b, u, v : a = f[k] /\ b = f[m] /\ u = g[k] /\ v = g[m]
  OBVIOUS
<1>11. /\ Turn(program, s.trace, a, u, b, v) /\ Settled(a) /\ Settled(f[0])
       /\ BranchesMove /\ b.pc = a.pc => k = n - 1
  <2>1. 0 \in 0..n
    OBVIOUS
  <2> QED BY <1>7, <1>9, <1>10, <2>1 DEF Path
<1>12. PICK from : from = f[0].counters /\ from \in [CounterType -> Nat]
  BY <1>11, SettledFields
<1>13. Before(a, s.trace, u, b, v, from, s)
  BY <1>9, <1>10, <1>11, <1>12 DEF Before
<1>14. PICK log : log = s.trace
  OBVIOUS
<1>15. After(replay', a, log, b, v, from, s)
  BY <1>13, <1>14, InstructionReplays
<1>16. PICK r : r = replay'
  OBVIOUS
<1>17. Stands(r, b, log, v, from, s) /\ (r.stopped => b.pc = a.pc)
  BY <1>15, <1>16 DEF After
<1>18. r # None
  <2>1. DOMAIN r = VmFields
    BY <1>17 DEF Stands, Stage
  <2> QED BY <2>1 DEF NoneIsNoReplay
<1>19. r.snapshot = s
  BY <1>17 DEF Stands, Stage
<1>20. BranchesMove /\ r.stopped => m = n
  BY <1>7, <1>11, <1>17
<1>21. OnPath(r, program, n, f, g, m)
  BY <1>9, <1>10, <1>12, <1>14, <1>17, <1>19, <1>20 DEF OnPath
<1>22. Counts(program, log, f, g, c, n, e)
  BY <1>5, <1>8, <1>14
<1>23. PICK net \in Int : net = TurnNet(program, log, a, u, b, e)
  BY TurnNetIsInt
<1>24. c[m] = c[k] + net /\ c[k] \in Int /\ c[n] \in Int /\ c[m] \in Int
  <2>1. \A j \in 0..(n - 1) : c[j + 1] = c[j] + TurnNet(program, log, f[j], g[j], f[j + 1], e)
    BY <1>22 DEF Counts
  <2>2. c[k + 1] = c[k] + TurnNet(program, log, f[k], g[k], f[k + 1], e)
    BY <1>7, <2>1
  <2>3. \A j \in 0..n : c[j] \in Int
    BY <1>22 DEF Counts
  <2>4. c[k] \in Int /\ c[n] \in Int /\ c[m] \in Int
    BY <2>3
  <2> QED BY <1>7, <1>10, <1>23, <2>2, <2>4
<1>25. PICK rest2 \in Int : rest2 = c[n] - c[m]
  BY <1>24
<1>26. RestOf(r, program, rest2, e)
  BY <1>14, <1>19, <1>21, <1>22, <1>25, <1>18 DEF RestOf
<1>27. /\ Balanced(balance')
       /\ Held(balance', e) = Held(balance, e) + WordsNet(Instruction(a.pc), log, a, u, e)
                                + OfMachine(b, e) - OfMachine(a, e)
  BY <1>13, <1>14, InstructionSettles
<1>28. Held(balance', e) = Held(balance, e) + net
  <2>1. PICK x, y, z : /\ x = OfMachine(a, e) /\ y = OfMachine(b, e)
                       /\ z = WordsNet(Instruction(a.pc), log, a, u, e)
    OBVIOUS
  <2>2. x \in Int /\ y \in Int /\ z \in Int /\ Held(balance, e) \in Int
    BY <2>1, AccountsAreInts, WordsNetByName, HeldIsInt
  <2>3. net = z + y - x
    BY <1>23, <2>1 DEF TurnNet, Instruction
  <2> QED BY <1>27, <2>1, <2>2, <2>3
<1>29. Owe(program, snapshots, total, e)' /\ Pending(d, e)'
  BY <1>1, <1>2 DEF Pending
<1>30. New(e)' = New(e) /\ AtHand(e)' = AtHand(e)
  BY <1>1 DEF New, OfMachine, InitialMachine, Zeros, AtHand
<1>31. Held(balance, e)' = Held(balance, e) + net
  BY <1>28
<1>32. Held(balance, e) \in Int /\ AtHand(e) \in Int /\ New(e) \in Int
  BY HeldIsInt, AccountsAreInts
<1>33. rest2 = rest - net
  BY <1>5, <1>24, <1>25
<1>34. (Held(balance, e) + total + rest2 + d + New(e) = AtHand(e))'
  BY <1>2, <1>30, <1>31, <1>32, <1>33
<1>35. RestOf(replay, program, rest2, e)'
  BY <1>1, <1>16, <1>26
<1>36. Account(e)'
  BY <1>29, <1>34, <1>35 DEF Account
<1> QED BY <1>27, <1>36

LEMMA InstructedKeepsSound ==
  ASSUME NoneIsNoReplay, Sound, Instructed
  PROVE  Sound'
<1>1. /\ UNCHANGED <<program, phase, hart, memory, timestamps, trace, state, is_aborted>>
      /\ snapshots' = snapshots
  BY InstructedIsOther
<1>2. Steady /\ Balanced(balance) /\ \A e : Account(e)
  BY DEF Sound
<1>3. Steady'
  BY <1>1, <1>2 DEF Steady
<1>4. Balanced(balance') /\ \A e : Account(e)'
  BY <1>2, InstructedKeepsAccount
<1> QED BY <1>3, <1>4 DEF Sound

\* Unless a run is aborted, its accounts are sound.
LEMMA SpecKeepsSound ==
  ASSUME BranchesMove, NoneIsNoReplay
  PROVE  Spec => [](~abort => Sound)
<1>1. Init => (~abort => Sound)
  BY InitSound
<1>2. Typed /\ Recorded /\ HolderInv /\ (~abort => Sound) /\ [Next]_vars => (~abort => Sound)'
  <2> SUFFICES ASSUME Typed, Recorded, HolderInv, ~abort => Sound, [Next]_vars, ~abort'
               PROVE  Sound'
    OBVIOUS
  <2>1. ~Abort
    BY DEF Abort
  <2>2. ~abort
    <3>1. CASE Compile \/ Load \/ EarlyExit \/ Quit \/ CollectInitsAndTeardowns \/ Reset
               \/ UNCHANGED vars
      BY <3>1 DEF Compile, Load, EarlyExit, Quit, CollectInitsAndTeardowns, Reset, vars
    <3>2. CASE Add \/ Lui \/ Jal \/ Beq \/ WriteNonDeterminism
      BY <3>2 DEF Add, Lui, Jal, Beq, WriteNonDeterminism, Retire
    <3>3. CASE Lw \/ Store \/ ReadNonDeterminism
      BY <3>3 DEF Lw, Store, ReadNonDeterminism, Record
    <3>4. CASE Bigint \/ Blake
      BY <3>4 DEF Bigint, Blake, Delegated
    <3>5. CASE BeginReplay \/ EndReplay
      BY <3>5 DEF BeginReplay, EndReplay
    <3>6. CASE Instructed
      BY <3>6, InstructedIsOther
    <3> QED BY <2>1, <3>1, <3>2, <3>3, <3>4, <3>5, <3>6 DEF Next, Simulate, Replayer, Instructed
  <2>3. Sound
    BY <2>2
  <2>4. CASE Executing
    BY <2>2, <2>3, <2>4, InstructionKeepsSound
  <2>5. CASE Compile \/ Load \/ EarlyExit \/ UNCHANGED vars
    BY <2>3, <2>5, IdleStepsKeepSound
  <2>6. CASE Quit
    BY <2>2, <2>3, <2>6, QuitKeepsSound
  <2>7. CASE CollectInitsAndTeardowns
    BY <2>3, <2>7, CollectKeepsSound
  <2>8. CASE Reset
    BY <2>2, <2>8 DEF Reset
  <2>9. CASE BeginReplay
    BY <2>2, <2>3, <2>9, BeginKeepsSound
  <2>10. CASE EndReplay
    BY <2>3, <2>10, EndKeepsSound
  <2>11. CASE Instructed
    BY <2>3, <2>11, InstructedKeepsSound
  <2> QED BY <2>1, <2>4, <2>5, <2>6, <2>7, <2>8, <2>9, <2>10, <2>11
          DEF Next, Simulate, Replayer, Instructed, Executing
<1> QED BY <1>1, <1>2, SpecRecords, SpecKeepsHolder, PTL DEF Spec

\* The memory argument balances: over the rows of all replays, in whatever order
\* they run, the inits and the teardowns, every entry is read as often as it is
\* written, for every program without a branch to itself.
THEOREM MemoryArgumentStaysBalanced ==
  ASSUME BranchesMove, NoneIsNoReplay
  PROVE  Spec => []MemoryArgumentBalances
<1>1. (~abort => Sound) => MemoryArgumentBalances
  <2> SUFFICES ASSUME Sound, phase = "cached", snapshots = {}, replay = None
               PROVE  balance = <<>>
    BY DEF MemoryArgumentBalances
  <2>1. Balanced(balance) /\ \A e : Account(e)
    BY DEF Sound
  <2>2. ASSUME NEW e
        PROVE  Held(balance, e) = 0
    <3>1. PICK d \in Int, rest \in Int, total \in Int :
            /\ Pending(d, e) /\ RestOf(replay, program, rest, e)
            /\ Owe(program, snapshots, total, e)
            /\ Held(balance, e) + total + rest + d + New(e) = AtHand(e)
      BY <2>1 DEF Account
    <3>2. d = 0 /\ rest = 0 /\ AtHand(e) = New(e)
      BY <3>1 DEF Pending, RestOf, AtHand
    <3>3. Owe(program, {}, total, e)
      BY <3>1
    <3>4. total = 0
      BY <3>3, OweNothing
    <3>5. Held(balance, e) \in Int /\ New(e) \in Int
      BY <2>1, HeldIsInt, AccountsAreInts
    <3> QED BY <3>1, <3>2, <3>4, <3>5
  <2>3. DOMAIN balance = {}
    BY <2>1, <2>2 DEF Balanced, Held
  <2>4. balance = [e \in {} |-> balance[e]]
    BY <2>1, <2>3 DEF Balanced
  <2> QED BY <2>4
<1> QED BY <1>1, SpecKeepsSound, PTL

=============================================================================
