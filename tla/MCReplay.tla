------------------------------ MODULE MCReplay ------------------------------
(* Programs for TLC, and the split of the work that the collection of the  *)
(* touched words does over the threads of the pool.                        *)
EXTENDS Replay, WorkerGeometry

CONSTANT Blocks  \* instructions between the prologue and the end

i(op, rd, rs1, rs2, imm) == [op |-> op, rd |-> rd, rs1 |-> rs1, rs2 |-> rs2, imm |-> imm]

Block == [
  add |-> <<i("add", 3, 1, 2, 0)>>,
  rom |-> <<i("lw", 3, 0, 0, 0)>>,
  load |-> <<i("lw", 3, 1, 0, 0)>>,
  follow |-> <<i("lw", 1, 1, 0, 0)>>,
  store |-> <<i("sw", 0, 1, 2, 0)>>,
  byte |-> <<i("sb", 0, 1, 2, 0)>>,
  input |-> <<i("nd_read", 2, 0, 0, 0)>>,
  output |-> <<i("nd_write", 0, 2, 0, 0)>>,
  branch |-> <<i("beq", 0, 1, 2, 2)>>,
  skip |-> <<i("jal", 0, 0, 0, 2)>>,
  call |-> <<i("jal", 3, 0, 0, 2)>>,
  bigint |-> <<i("bigint", 0, 0, 0, 0)>>,
  blake |-> [n \in 1..Rounds |-> i("blake", 0, 0, 0, 0)],
  reduced |-> [n \in 1..ReducedRounds |-> i("blake", 0, 0, 0, 0)],
  nop |-> <<i("add", 0, 0, 0, 0)>>]

\* Targets are relative in a block and absolute in a program.
Placed(block, at) ==
  [n \in DOMAIN block |-> IF block[n].op \in {"jal", "beq"} THEN [block[n] EXCEPT !.imm = @ + at + n - 1]
                                                        ELSE block[n]]

Then(code, block) == code \o Placed(block, Len(code))

Prologue(a, b) == <<i("lui", 1, 0, 0, a), i("lui", 2, 0, 0, b)>>
Exit == <<i("jal", 0, 0, 0, 0)>>

\* A jump does not lead past the end or into a delegation.
Valid(code) ==
  \A n \in DOMAIN code :
    code[n].op \in {"jal", "beq"} =>
      /\ code[n].imm < Len(code)
      /\ code[code[n].imm + 1].op = "blake" => code[code[n].imm].op # "blake"

\* No bound, one inside most programs, and one that does not fit its width.
SomeBounds == {None, 4, 7}

Programs3 ==
  {code \in {Then(Then(Then(Then(Prologue(p[1], p[2]), Block[x]), Block[y]), Block[z]), Exit) :
               p \in {<<1, 2>>, <<2, 3>>}, x \in Blocks, y \in Blocks, z \in Blocks} : Valid(code)}

\* A nop between the prologue and the end.
ProgramWithNop == {Then(Then(Prologue(1, 2), Block["nop"]), Exit)}

\* Theorem GeometryCovers on small numbers.
ASSUME SmallGeometriesCover ==
  \A num_cores \in 1..6, work_size \in 1..250 :
    Covers(get_geometry_for_num_cores(num_cores, work_size), work_size)
=============================================================================
