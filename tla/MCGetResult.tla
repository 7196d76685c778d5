---------------------------- MODULE MCGetResult ----------------------------
(* Instances of GetResult for TLC. *)
EXTENDS GetResult, TLC

CONSTANTS r1, r2

OneReplayer == {r1}
TwoReplayers == {r1, r2}
Symmetry == Permutations(Replayers)

\* Unrolled machine, one family: three circuits of 2 rows, one per snapshot.
UnrolledTypes == <<"Family">>
UnrolledRun == <<[Family |-> 2], [Family |-> 2], [Family |-> 2]>>
UnrolledCycles == [Family |-> 2]

\* Unified machine: two circuits of 2 rows across two snapshots, one of a
\* delegation that stays incomplete.
UnifiedTypes == <<"Delegation", "Unified">>
UnifiedCycles == [Unified |-> 2, Delegation |-> 2]
UnifiedRun == <<[Unified |-> 1, Delegation |-> 1], [Unified |-> 3, Delegation |-> 0]>>

\* Four rows in circuits of three: the second circuit has one row.
RaggedTypes == <<"Unified">>
RaggedCycles == [Unified |-> 3]
RaggedRun == <<[Unified |-> 4]>>
=============================================================================
