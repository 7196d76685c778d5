----------------------------- MODULE SumTheorems ----------------------------
(***************************************************************************)
(* Facts about SumFunction, the sum of the values of a function with a     *)
(* finite domain: its type, the empty sum, a sum with one argument less or *)
(* one more, and the sums of sequences.                                    *)
(*                                                                         *)
(* SumFunction is a fold over the subsets of the domain.  That the fold is *)
(* well defined, and that the order does not matter, is shown by taking a  *)
(* counterexample of least cardinality.                                    *)
(***************************************************************************)
EXTENDS Integers, Sequences, FiniteSets, Functions, FiniteSetTheorems, WellFoundedInduction, TLAPS

-----------------------------------------------------------------------------
(* The fold. *)

Choice(s) == CHOOSE x \in s : TRUE

\* What the fold of f is on the subset s, given the fold g of smaller subsets.
Step(f, g, s) == IF s = {} THEN 0 ELSE f[Choice(s)] + g[s \ {Choice(s)}]

Fold(f, S) ==
  LET iter[s \in SUBSET S] == IF s = {} THEN 0
                              ELSE LET x == CHOOSE x \in s : TRUE IN f[x] + iter[s \ {x}]
  IN  iter

LEMMA SumIsFold ==
  ASSUME NEW f
  PROVE  SumFunction(f) = Fold(f, DOMAIN f)[DOMAIN f]
  BY DEF SumFunction, SumFunctionOnSet, FoldFunctionOnSet, MapThenFoldSet, Fold

\* The least number principle.
LEMMA LeastNumber ==
  ASSUME NEW T, T \subseteq Nat, T # {}
  PROVE  \E n \in T : \A m \in Nat : m < n => m \notin T
<1> DEFINE R == {p \in Nat \X Nat : p[1] < p[2]}
<1>1. IsWellFoundedOn(R, Nat)
  BY NatLessThanWellFounded DEF OpToRel
<1> HIDE DEF R
<1>2. PICK n \in T : \A m \in T : ~ (<<m, n>> \in R)
  BY <1>1, WFMin
<1> QED BY <1>2 DEF R

\* Taking an element out of a finite set.
LEMMA Smaller ==
  ASSUME NEW S, IsFiniteSet(S), NEW s \in SUBSET S, NEW x \in s
  PROVE  /\ IsFiniteSet(s) /\ s \ {x} \in SUBSET S /\ IsFiniteSet(s \ {x})
         /\ Cardinality(s) \in Nat /\ Cardinality(s \ {x}) \in Nat
         /\ Cardinality(s \ {x}) = Cardinality(s) - 1
         /\ Cardinality(s \ {x}) < Cardinality(s)
<1>1. IsFiniteSet(s)
  BY FS_Subset
<1>2. Cardinality(s) \in Nat
  BY <1>1, FS_CardinalityType
<1>3. IsFiniteSet(s \ {x}) /\ Cardinality(s \ {x}) = Cardinality(s) - 1
  BY <1>1, FS_RemoveElement
<1>4. Cardinality(s \ {x}) \in Nat
  BY <1>3, FS_CardinalityType
<1> QED BY <1>1, <1>2, <1>3, <1>4

LEMMA ChoiceIsIn ==
  ASSUME NEW s, s # {}
  PROVE  Choice(s) \in s
  BY DEF Choice

\* The equation that defines the fold has a solution.
LEMMA FoldExists ==
  ASSUME NEW f, NEW S, IsFiniteSet(S)
  PROVE  \E g : g = [s \in SUBSET S |-> Step(f, g, s)]
<1> DEFINE Solves(g, n) == \A s \in SUBSET S : Cardinality(s) <= n => g[s] = Step(f, g, s)
           Solvable(n) == \E g : Solves(g, n)
           T == {n \in Nat : ~Solvable(n)}
<1>1. \A s \in SUBSET S : IsFiniteSet(s) /\ Cardinality(s) \in Nat
  BY FS_Subset, FS_CardinalityType
<1>2. Solvable(0)
  <2>1. PICK g : g = [s \in SUBSET S |-> 0]
    OBVIOUS
  <2>2. \A s \in SUBSET S : Cardinality(s) <= 0 => s = {}
    BY <1>1, FS_EmptySet
  <2> QED BY <2>1, <2>2 DEF Step
<1>3. ASSUME NEW n \in Nat, Solvable(n)
      PROVE  Solvable(n + 1)
  <2>1. PICK g : Solves(g, n)
    BY <1>3
  <2>2. PICK h : h = [s \in SUBSET S |-> IF Cardinality(s) <= n THEN g[s] ELSE Step(f, g, s)]
    OBVIOUS
  <2>3. ASSUME NEW s \in SUBSET S, Cardinality(s) <= n + 1
        PROVE  h[s] = Step(f, g, s)
    BY <1>1, <2>1, <2>2, <2>3
  <2>4. ASSUME NEW s \in SUBSET S, Cardinality(s) <= n + 1
        PROVE  Step(f, h, s) = Step(f, g, s)
    <3>1. CASE s = {}
      BY <3>1 DEF Step
    <3>2. CASE s # {}
      <4>1. /\ s \ {Choice(s)} \in SUBSET S /\ Cardinality(s \ {Choice(s)}) \in Nat
            /\ Cardinality(s) \in Nat /\ Cardinality(s \ {Choice(s)}) = Cardinality(s) - 1
        BY <3>2, ChoiceIsIn, Smaller
      <4>2. Cardinality(s \ {Choice(s)}) <= n
        BY <4>1, <2>4
      <4>3. h[s \ {Choice(s)}] = g[s \ {Choice(s)}]
        BY <4>1, <4>2, <2>2
      <4> QED BY <3>2, <4>3 DEF Step
    <3> QED BY <3>1, <3>2
  <2>5. Solves(h, n + 1)
    BY <2>3, <2>4
  <2> QED BY <2>5
<1>4. T = {}
  <2>1. SUFFICES ASSUME T # {} PROVE FALSE
    OBVIOUS
  <2>2. PICK n \in T : \A m \in Nat : m < n => m \notin T
    BY <2>1, LeastNumber
  <2>3. n # 0
    BY <1>2
  <2>4. n - 1 \in Nat /\ n - 1 < n /\ n = (n - 1) + 1
    BY <2>3
  <2>5. Solvable(n - 1)
    BY <2>2, <2>4
  <2> HIDE DEF Solvable
  <2>6. Solvable((n - 1) + 1)
    BY <1>3, <2>4, <2>5
  <2> QED BY <2>4, <2>6
<1>5. Cardinality(S) \in Nat
  BY FS_CardinalityType
<1>6. PICK g : Solves(g, Cardinality(S))
  BY <1>4, <1>5
<1>7. \A s \in SUBSET S : Cardinality(s) <= Cardinality(S)
  BY FS_Subset
<1>8. \A s \in SUBSET S : g[s] = Step(f, g, s)
  BY <1>6, <1>7
<1>9. PICK h : h = [s \in SUBSET S |-> g[s]]
  OBVIOUS
<1>10. \A s \in SUBSET S : s \ {Choice(s)} \in SUBSET S
  OBVIOUS
<1>11. \A s \in SUBSET S : Step(f, h, s) = Step(f, g, s)
  BY <1>9, <1>10 DEF Step
<1>12. h = [s \in SUBSET S |-> Step(f, h, s)]
  BY <1>8, <1>9, <1>11
<1> QED BY <1>12

LEMMA FoldStep ==
  ASSUME NEW f, NEW S, IsFiniteSet(S), NEW s \in SUBSET S
  PROVE  Fold(f, S)[s] = Step(f, Fold(f, S), s)
<1>1. PICK g : g = [t \in SUBSET S |-> Step(f, g, t)]
  BY FoldExists
<1>2. g = [t \in SUBSET S |-> IF t = {} THEN 0
                              ELSE LET x == CHOOSE x \in t : TRUE IN f[x] + g[t \ {x}]]
  BY <1>1 DEF Step, Choice
<1>3. Fold(f, S) = [t \in SUBSET S |-> IF t = {} THEN 0
                              ELSE LET x == CHOOSE x \in t : TRUE IN f[x] + Fold(f, S)[t \ {x}]]
  BY <1>2 DEF Fold
<1> HIDE DEF Fold
<1>4. Fold(f, S)[s] = IF s = {} THEN 0
                      ELSE LET x == CHOOSE x \in s : TRUE IN f[x] + Fold(f, S)[s \ {x}]
  BY <1>3
<1> QED BY <1>4 DEF Step, Choice

-----------------------------------------------------------------------------
(* The order does not matter. *)

LEMMA LeastSubset ==
  ASSUME NEW S, IsFiniteSet(S), NEW B \in SUBSET (SUBSET S), B # {}
  PROVE  \E s \in B : \A t \in SUBSET S : Cardinality(t) < Cardinality(s) => t \notin B
<1> DEFINE T == {Cardinality(s) : s \in B}
<1>1. \A s \in SUBSET S : Cardinality(s) \in Nat
  BY FS_Subset, FS_CardinalityType
<1>2. T \subseteq Nat /\ T # {}
  BY <1>1
<1>3. PICK n \in T : \A m \in Nat : m < n => m \notin T
  BY <1>2, LeastNumber
<1>4. PICK s \in B : Cardinality(s) = n
  BY <1>3
<1> QED BY <1>1, <1>3, <1>4

LEMMA FoldTakesOut ==
  ASSUME NEW S, IsFiniteSet(S), NEW f, \A x \in S : f[x] \in Int
  PROVE  \A s \in SUBSET S :
           /\ Fold(f, S)[s] \in Int
           /\ \A x \in s : Fold(f, S)[s] = f[x] + Fold(f, S)[s \ {x}]
<1>1. PICK F : F = Fold(f, S)
  OBVIOUS
<1> DEFINE Good(s) == F[s] \in Int /\ \A x \in s : F[s] = f[x] + F[s \ {x}]
           B == {s \in SUBSET S : ~Good(s)}
<1>2. SUFFICES ASSUME B # {} PROVE FALSE
  BY <1>1
<1>3. PICK s \in B : \A t \in SUBSET S : Cardinality(t) < Cardinality(s) => t \notin B
  <2>1. B \in SUBSET (SUBSET S)
    OBVIOUS
  <2> HIDE DEF B
  <2> QED BY ONLY <1>2, <2>1, IsFiniteSet(S), LeastSubset
<1>4. s \in SUBSET S /\ F[s] = Step(f, F, s)
  BY <1>1, <1>3, FoldStep
<1>5. s # {}
  BY <1>3, <1>4 DEF Step
<1>6. ASSUME NEW x \in s
      PROVE  s \ {x} \in SUBSET S /\ Good(s \ {x})
  <2>1. s \ {x} \in SUBSET S /\ Cardinality(s \ {x}) < Cardinality(s)
    BY <1>4, Smaller
  <2> QED BY <1>3, <2>1
<1>7. PICK c : c = Choice(s)
  OBVIOUS
<1>8. c \in s /\ F[s] = f[c] + F[s \ {c}]
  BY <1>5, <1>4, <1>7, ChoiceIsIn DEF Step
<1>9. F[s] \in Int
  BY <1>6, <1>8
<1>10. ASSUME NEW x \in s
      PROVE  F[s] = f[x] + F[s \ {x}]
  <2>1. CASE x = c
    BY <1>8, <2>1
  <2>2. CASE x # c
    <3>1. F[s \ {c}] = f[x] + F[(s \ {c}) \ {x}]
      BY <1>6, <1>8, <2>2
    <3>2. F[s \ {x}] = f[c] + F[(s \ {x}) \ {c}]
      BY <1>6, <1>8, <2>2
    <3>3. (s \ {c}) \ {x} = (s \ {x}) \ {c}
      OBVIOUS
    <3>4. F[s \ {c}] \in Int /\ F[s \ {x}] \in Int /\ f[c] \in Int /\ f[x] \in Int
      BY <1>6, <1>8
    <3>5. F[(s \ {c}) \ {x}] \in Int
      <4>1. s \ {c} \in SUBSET S /\ x \in s \ {c} /\ s \ {c} \notin B
        BY <1>6, <1>8, <2>2
      <4>2. (s \ {c}) \ {x} \in SUBSET S
        OBVIOUS
      <4>3. Cardinality((s \ {c}) \ {x}) < Cardinality(s)
        <5>1. PICK t : t = s \ {c}
          OBVIOUS
        <5>3. t \in SUBSET S /\ x \in t
          BY <4>1, <5>1
        <5>4. Cardinality(t \ {x}) < Cardinality(t) /\ Cardinality(t \ {x}) \in Nat
          BY <5>3, Smaller
        <5>2. Cardinality(s \ {c}) < Cardinality(s) /\ Cardinality(s \ {c}) \in Nat /\ Cardinality(s) \in Nat
          BY <1>8, <1>4, Smaller
        <5> QED BY <5>1, <5>2, <5>4
      <4> QED BY <1>3, <4>2, <4>3
    <3>6. F[s] = f[c] + (f[x] + F[(s \ {c}) \ {x}]) /\ F[s \ {x}] = f[c] + F[(s \ {c}) \ {x}]
      BY <1>8, <3>1, <3>2, <3>3
    <3> QED BY <3>4, <3>5, <3>6
  <2> QED BY <2>1, <2>2
<1> QED BY <1>3, <1>9, <1>10

\* The fold of a subset depends on the values there only.
LEMMA FoldIsLocal ==
  ASSUME NEW S, IsFiniteSet(S), NEW R, IsFiniteSet(R), NEW f, NEW g,
         \A x \in R : f[x] = g[x], R \subseteq S
  PROVE  \A s \in SUBSET R : Fold(f, S)[s] = Fold(g, R)[s]
<1>1. PICK F, G : F = Fold(f, S) /\ G = Fold(g, R)
  OBVIOUS
<1> DEFINE B == {s \in SUBSET R : F[s] # G[s]}
<1>2. SUFFICES ASSUME B # {} PROVE FALSE
  BY <1>1
<1>3. B \in SUBSET (SUBSET R)
  OBVIOUS
<1>4. PICK s \in B : \A t \in SUBSET R : Cardinality(t) < Cardinality(s) => t \notin B
  <2> HIDE DEF B
  <2> QED BY ONLY <1>2, <1>3, IsFiniteSet(R), LeastSubset
<1>5. s \in SUBSET R /\ F[s] = Step(f, F, s) /\ G[s] = Step(g, G, s)
  BY <1>1, <1>4, FoldStep
<1>6. CASE s = {}
  BY <1>4, <1>5, <1>6 DEF Step
<1>7. CASE s # {}
  <2>1. Choice(s) \in s
    BY <1>7, ChoiceIsIn
  <2>3. s \ {Choice(s)} \in SUBSET R /\ Cardinality(s \ {Choice(s)}) < Cardinality(s)
    BY <1>5, <2>1, Smaller
  <2>2. s \ {Choice(s)} \in SUBSET R /\ s \ {Choice(s)} \notin B
    BY <1>4, <2>3
  <2> QED BY <1>4, <1>5, <1>7, <2>1, <2>2 DEF Step
<1> QED BY <1>6, <1>7

-----------------------------------------------------------------------------
(* Sums. *)

\* f without its argument x.
But(f, x) == [y \in DOMAIN f \ {x} |-> f[y]]

THEOREM SumEmpty ==
  ASSUME NEW f, DOMAIN f = {}
  PROVE  SumFunction(f) = 0
  BY FS_EmptySet, SumIsFold, FoldStep DEF Step

THEOREM SumInt ==
  ASSUME NEW S, IsFiniteSet(S), NEW f \in [S -> Int]
  PROVE  SumFunction(f) \in Int
<1>1. DOMAIN f = S /\ \A x \in S : f[x] \in Int
  OBVIOUS
<1> QED BY <1>1, SumIsFold, FoldTakesOut

LEMMA ButType ==
  ASSUME NEW S, IsFiniteSet(S), NEW f \in [S -> Int], NEW x \in S
  PROVE  /\ But(f, x) \in [S \ {x} -> Int] /\ IsFiniteSet(S \ {x})
         /\ SumFunction(But(f, x)) \in Int
<1>1. But(f, x) \in [S \ {x} -> Int]
  BY DEF But
<1>2. IsFiniteSet(S \ {x})
  BY FS_Subset
<1> QED BY <1>1, <1>2, SumInt

\* One argument less.
THEOREM SumBut ==
  ASSUME NEW S, IsFiniteSet(S), NEW f \in [S -> Int], NEW x \in S
  PROVE  SumFunction(f) = f[x] + SumFunction(But(f, x))
<1>1. /\ But(f, x) \in [S \ {x} -> Int] /\ DOMAIN But(f, x) = S \ {x}
      /\ \A y \in S \ {x} : f[y] = But(f, x)[y]
      /\ DOMAIN f = S /\ \A y \in S : f[y] \in Int
  BY DEF But
<1>2. IsFiniteSet(S \ {x})
  BY FS_Subset
<1>3. Fold(f, S)[S] = f[x] + Fold(f, S)[S \ {x}]
  BY <1>1, FoldTakesOut
<1>4. Fold(f, S)[S \ {x}] = Fold(But(f, x), S \ {x})[S \ {x}]
  BY <1>1, <1>2, FoldIsLocal
<1> QED BY <1>1, <1>3, <1>4, SumIsFold

\* f on the arguments A.
On(f, A) == [x \in A |-> f[x]]

LEMMA OnType ==
  ASSUME NEW S, IsFiniteSet(S), NEW f \in [S -> Int], NEW A \in SUBSET S
  PROVE  IsFiniteSet(A) /\ On(f, A) \in [A -> Int] /\ SumFunction(On(f, A)) \in Int
<1>1. IsFiniteSet(A) /\ On(f, A) \in [A -> Int]
  BY FS_Subset DEF On
<1> QED BY <1>1, SumInt

LEMMA OnBut ==
  ASSUME NEW S, IsFiniteSet(S), NEW f \in [S -> Int], NEW A \in SUBSET S, NEW x \in A
  PROVE  SumFunction(On(f, A)) = f[x] + SumFunction(On(f, A \ {x}))
<1>1. IsFiniteSet(A) /\ On(f, A) \in [A -> Int]
  BY OnType
<1>2. On(f, A)[x] = f[x] /\ But(On(f, A), x) = On(f, A \ {x})
  BY DEF On, But
<1>3. PICK g : g = On(f, A)
  OBVIOUS
<1>4. SumFunction(g) = g[x] + SumFunction(But(g, x))
  BY <1>1, <1>3, SumBut
<1> QED BY <1>2, <1>3, <1>4

\* A sum splits into the sums over a part and over the rest.
THEOREM SumSplit ==
  ASSUME NEW S, IsFiniteSet(S), NEW f \in [S -> Int], NEW A \in SUBSET S
  PROVE  /\ SumFunction(f) = SumFunction(On(f, A)) + SumFunction(On(f, S \ A))
         /\ SumFunction(On(f, A)) \in Int /\ SumFunction(On(f, S \ A)) \in Int
<1>0. PICK B : B = {s \in SUBSET S :
                      SumFunction(f) # SumFunction(On(f, s)) + SumFunction(On(f, S \ s))}
  OBVIOUS
<1>1. SumFunction(On(f, A)) \in Int /\ SumFunction(On(f, S \ A)) \in Int
  BY OnType
<1>2. SUFFICES ASSUME B # {} PROVE FALSE
  BY <1>0, <1>1
<1>3. B \in SUBSET (SUBSET S)
  BY <1>0
<1>4. PICK s \in B : \A t \in SUBSET S : Cardinality(t) < Cardinality(s) => t \notin B
  BY <1>2, <1>3, LeastSubset
<1>5. CASE s = {}
  <2>1. On(f, S \ s) = f /\ DOMAIN On(f, s) = {}
    BY <1>5 DEF On
  <2>2. SumFunction(On(f, s)) = 0 /\ SumFunction(f) \in Int
    BY <2>1, SumEmpty, SumInt
  <2> QED BY <1>0, <1>4, <2>1, <2>2
<1>6. CASE s # {}
  <2>1. PICK x \in s : TRUE
    BY <1>6
  <2>2. s \in SUBSET S
    BY <1>3, <1>4
  <2>3. s \ {x} \in SUBSET S /\ Cardinality(s \ {x}) < Cardinality(s)
    BY <2>2, Smaller
  <2>4. SumFunction(f) = SumFunction(On(f, s \ {x})) + SumFunction(On(f, S \ (s \ {x})))
    BY <1>0, <1>4, <2>3
  <2>5. SumFunction(On(f, s)) = f[x] + SumFunction(On(f, s \ {x}))
    BY <2>2, OnBut
  <2>6. PICK r : r = S \ (s \ {x})
    OBVIOUS
  <2>7. r \in SUBSET S /\ x \in r /\ r \ {x} = S \ s
    BY <2>2, <2>6
  <2>8. SumFunction(On(f, r)) = f[x] + SumFunction(On(f, S \ s))
    BY <2>7, OnBut
  <2>9. /\ f[x] \in Int /\ SumFunction(On(f, s \ {x})) \in Int
        /\ SumFunction(On(f, S \ s)) \in Int
    <3>1. S \ s \in SUBSET S /\ x \in S
      BY <2>2
    <3> QED BY <2>3, <3>1, OnType
  <2>10. SumFunction(f) = SumFunction(On(f, s)) + SumFunction(On(f, S \ s))
    BY <2>4, <2>5, <2>6, <2>8, <2>9
  <2> QED BY <1>0, <1>4, <2>10
<1> QED BY <1>5, <1>6

\* One argument more.
THEOREM SumAdd ==
  ASSUME NEW S, IsFiniteSet(S), NEW f \in [S -> Int], NEW x, x \notin S, NEW g,
         g \in [S \cup {x} -> Int], \A y \in S : g[y] = f[y]
  PROVE  SumFunction(g) = SumFunction(f) + g[x]
<1>1. IsFiniteSet(S \cup {x}) /\ x \in S \cup {x}
  BY FS_AddElement
<1>2. SumFunction(g) = g[x] + SumFunction(But(g, x))
  BY <1>1, SumBut
<1>3. But(g, x) = f
  <2>1. DOMAIN g \ {x} = S
    OBVIOUS
  <2> QED BY <2>1 DEF But
<1>4. g[x] \in Int /\ SumFunction(f) \in Int
  BY SumInt
<1> QED BY <1>2, <1>3, <1>4

\* One value changed.
THEOREM SumExcept ==
  ASSUME NEW S, IsFiniteSet(S), NEW f \in [S -> Int], NEW x \in S, NEW v \in Int
  PROVE  /\ SumFunction([f EXCEPT ![x] = v]) = SumFunction(f) - f[x] + v
         /\ SumFunction(f) \in Int /\ f[x] \in Int
<1>1. PICK g : g = [f EXCEPT ![x] = v]
  OBVIOUS
<1>2. g \in [S -> Int] /\ g[x] = v /\ But(g, x) = But(f, x)
  BY <1>1 DEF But
<1>3. SumFunction(f) = f[x] + SumFunction(But(f, x))
  BY SumBut
<1>6. SumFunction(But(f, x)) \in Int
  BY ButType
<1>5. SumFunction(g) = g[x] + SumFunction(But(g, x))
  BY <1>2, SumBut
<1>4. SumFunction(f) \in Int /\ f[x] \in Int
  BY SumInt
<1> QED BY <1>1, <1>2, <1>3, <1>4, <1>5, <1>6

\* Natural numbers: the sum is one, and no less than any of its terms or parts.
THEOREM SumNat ==
  ASSUME NEW S, IsFiniteSet(S), NEW f \in [S -> Nat]
  PROVE  /\ SumFunction(f) \in Nat
         /\ \A x \in S : f[x] <= SumFunction(f)
<1>1. f \in [S -> Int]
  OBVIOUS
<1>0. PICK B : B = {s \in SUBSET S : SumFunction(On(f, s)) \notin Nat}
  OBVIOUS
<1>2. B = {}
  <2>1. SUFFICES ASSUME B # {} PROVE FALSE
    OBVIOUS
  <2>2. B \in SUBSET (SUBSET S)
    BY <1>0
  <2>3. PICK s \in B : \A t \in SUBSET S : Cardinality(t) < Cardinality(s) => t \notin B
    BY <2>1, <2>2, LeastSubset
  <2>4. CASE s = {}
    <3>1. DOMAIN On(f, s) = {}
      BY <2>4 DEF On
    <3> QED BY <1>0, <2>3, <3>1, SumEmpty
  <2>5. CASE s # {}
    <3>1. PICK x \in s : TRUE
      BY <2>5
    <3>2. s \in SUBSET S
      BY <2>2, <2>3
    <3>3. s \ {x} \in SUBSET S /\ Cardinality(s \ {x}) < Cardinality(s)
      BY <3>2, Smaller
    <3>4. SumFunction(On(f, s \ {x})) \in Nat /\ f[x] \in Nat
      BY <1>0, <2>3, <3>2, <3>3
    <3>5. SumFunction(On(f, s)) = f[x] + SumFunction(On(f, s \ {x}))
      BY <1>1, <3>2, OnBut
    <3> QED BY <1>0, <2>3, <3>4, <3>5
  <2> QED BY <2>4, <2>5
<1>3. \A s \in SUBSET S : SumFunction(On(f, s)) \in Nat
  BY <1>0, <1>2
<1>4. On(f, S) = f
  BY DEF On
<1>5. ASSUME NEW x \in S
      PROVE  f[x] <= SumFunction(f)
  <2>1. SumFunction(On(f, S)) = f[x] + SumFunction(On(f, S \ {x}))
    BY <1>1, OnBut
  <2>2. SumFunction(On(f, S \ {x})) \in Nat /\ f[x] \in Nat
    BY <1>3
  <2> QED BY <1>4, <2>1, <2>2
<1> QED BY <1>3, <1>4, <1>5

\* Renaming the arguments changes nothing.
THEOREM SumRenamed ==
  ASSUME NEW S, IsFiniteSet(S), NEW f \in [S -> Int], NEW T, NEW b \in [T -> S], IsFiniteSet(T),
         \A t, u \in T : t # u => b[t] # b[u], \A x \in S : \E t \in T : b[t] = x
  PROVE  SumFunction([t \in T |-> f[b[t]]]) = SumFunction(f)
<1>1. PICK g : g = [t \in T |-> f[b[t]]]
  OBVIOUS
<1> DEFINE Image(U) == {b[t] : t \in U}
<1>0. PICK B : B = {U \in SUBSET T : SumFunction(On(g, U)) # SumFunction(On(f, Image(U)))}
  OBVIOUS
<1>2. g \in [T -> Int]
  BY <1>1
<1>3. B = {}
  <2>1. SUFFICES ASSUME B # {} PROVE FALSE
    OBVIOUS
  <2>2. B \in SUBSET (SUBSET T)
    BY <1>0
  <2>3. PICK U \in B : \A t \in SUBSET T : Cardinality(t) < Cardinality(U) => t \notin B
    BY <2>1, <2>2, LeastSubset
  <2>4. CASE U = {}
    <3>1. DOMAIN On(g, U) = {} /\ DOMAIN On(f, Image(U)) = {}
      BY <2>4 DEF On
    <3> QED BY <1>0, <2>3, <3>1, SumEmpty
  <2>5. CASE U # {}
    <3>1. PICK x \in U : TRUE
      BY <2>5
    <3>2. U \in SUBSET T
      BY <2>2, <2>3
    <3>3. U \ {x} \in SUBSET T /\ Cardinality(U \ {x}) < Cardinality(U)
      BY <3>2, Smaller
    <3>4. SumFunction(On(g, U \ {x})) = SumFunction(On(f, Image(U \ {x})))
      BY <1>0, <2>3, <3>3
    <3>5. SumFunction(On(g, U)) = g[x] + SumFunction(On(g, U \ {x}))
      BY <1>2, <3>2, OnBut
    <3>6. Image(U) \in SUBSET S /\ b[x] \in Image(U) /\ Image(U \ {x}) = Image(U) \ {b[x]}
      BY <3>2
    <3>9. PICK A : A = Image(U)
      OBVIOUS
    <3>10. A \in SUBSET S /\ b[x] \in A /\ Image(U \ {x}) = A \ {b[x]}
      BY <3>6, <3>9
    <3>7. SumFunction(On(f, A)) = f[b[x]] + SumFunction(On(f, A \ {b[x]}))
      BY <3>10, OnBut
    <3>8. g[x] = f[b[x]]
      BY <1>1, <3>2
    <3> QED BY <1>0, <2>3, <3>4, <3>5, <3>7, <3>8, <3>9, <3>10
  <2> QED BY <2>4, <2>5
<1>4. On(g, T) = g /\ On(f, Image(T)) = f
  <2>1. Image(T) = S
    OBVIOUS
  <2>2. On(f, S) = f /\ On(g, T) = g
    BY <1>2 DEF On
  <2> QED BY <2>1, <2>2
<1>5. T \notin B
  BY <1>3
<1> QED BY <1>0, <1>1, <1>4, <1>5

\* The same, with a name for the function.
LEMMA SumAlong ==
  ASSUME NEW S, IsFiniteSet(S), NEW f \in [S -> Int], NEW T, NEW b \in [T -> S], IsFiniteSet(T),
         \A t, u \in T : t # u => b[t] # b[u], \A x \in S : \E t \in T : b[t] = x,
         NEW g, g = [t \in T |-> f[b[t]]]
  PROVE  SumFunction(g) = SumFunction(f)
  BY SumRenamed

\* The sum of two functions.
THEOREM SumPlus ==
  ASSUME NEW S, IsFiniteSet(S), NEW f \in [S -> Int], NEW g \in [S -> Int]
  PROVE  SumFunction([x \in S |-> f[x] + g[x]]) = SumFunction(f) + SumFunction(g)
<1>1. PICK h : h = [x \in S |-> f[x] + g[x]]
  OBVIOUS
<1>2. h \in [S -> Int]
  BY <1>1
<1>3. PICK B : B = {s \in SUBSET S :
                      SumFunction(On(h, s)) # SumFunction(On(f, s)) + SumFunction(On(g, s))}
  OBVIOUS
<1>4. B = {}
  <2>1. SUFFICES ASSUME B # {} PROVE FALSE
    OBVIOUS
  <2>2. B \in SUBSET (SUBSET S)
    BY <1>3
  <2>3. PICK s \in B : \A t \in SUBSET S : Cardinality(t) < Cardinality(s) => t \notin B
    BY <2>1, <2>2, LeastSubset
  <2>4. CASE s = {}
    <3>1. DOMAIN On(f, s) = {} /\ DOMAIN On(g, s) = {} /\ DOMAIN On(h, s) = {}
      BY <2>4 DEF On
    <3>2. /\ SumFunction(On(f, s)) = 0 /\ SumFunction(On(g, s)) = 0
          /\ SumFunction(On(h, s)) = 0
      BY <3>1, SumEmpty
    <3> QED BY <1>3, <2>3, <3>2
  <2>5. CASE s # {}
    <3>1. PICK x \in s : TRUE
      BY <2>5
    <3>2. s \in SUBSET S
      BY <2>2, <2>3
    <3>3. s \ {x} \in SUBSET S /\ Cardinality(s \ {x}) < Cardinality(s)
      BY <3>2, Smaller
    <3>4. SumFunction(On(h, s \ {x})) = SumFunction(On(f, s \ {x})) + SumFunction(On(g, s \ {x}))
      BY <1>3, <2>3, <3>3
    <3>5. SumFunction(On(f, s)) = f[x] + SumFunction(On(f, s \ {x}))
      BY <3>2, OnBut
    <3>6. SumFunction(On(g, s)) = g[x] + SumFunction(On(g, s \ {x}))
      BY <3>2, OnBut
    <3>7. SumFunction(On(h, s)) = h[x] + SumFunction(On(h, s \ {x}))
      BY <1>2, <3>2, OnBut
    <3>8. SumFunction(On(f, s \ {x})) \in Int /\ SumFunction(On(g, s \ {x})) \in Int
      BY <3>3, OnType
    <3>9. h[x] = f[x] + g[x] /\ f[x] \in Int /\ g[x] \in Int
      BY <1>1, <3>2
    <3> QED BY <1>3, <2>3, <3>4, <3>5, <3>6, <3>7, <3>8, <3>9
  <2> QED BY <2>4, <2>5
<1>5. On(f, S) = f /\ On(g, S) = g /\ On(h, S) = h
  BY <1>2 DEF On
<1>6. S \notin B
  BY <1>4
<1> QED BY <1>1, <1>3, <1>5, <1>6

-----------------------------------------------------------------------------
(* Sequences. *)

\* An element is appended.
THEOREM SumAppend ==
  ASSUME NEW n \in Nat, NEW f \in [1..n -> Int], NEW g \in [1..(n + 1) -> Int],
         \A i \in 1..n : g[i] = f[i]
  PROVE  SumFunction(g) = SumFunction(f) + g[n + 1] /\ SumFunction(f) \in Int
<1>1. IsFiniteSet(1..n) /\ IsFiniteSet(1..(n + 1))
  BY FS_Interval
<1>2. But(g, n + 1) = f
  <2>1. (1..(n + 1)) \ {n + 1} = 1..n
    OBVIOUS
  <2> QED BY <2>1 DEF But
<1>3. PICK S, x : S = 1..(n + 1) /\ x = n + 1
  OBVIOUS
<1>4. IsFiniteSet(S) /\ g \in [S -> Int] /\ x \in S
  BY <1>1, <1>3
<1>5. SumFunction(g) = g[x] + SumFunction(But(g, x))
  BY <1>4, SumBut
<1>6. SumFunction(f) \in Int /\ g[n + 1] \in Int
  BY <1>1, SumInt
<1> QED BY <1>2, <1>3, <1>5, <1>6

\* A sequence is cut in two.
THEOREM SumCut ==
  ASSUME NEW n \in Nat, NEW f \in [1..n -> Int], NEW k \in 0..n
  PROVE  /\ SumFunction([i \in 1..k |-> f[i]]) + SumFunction([i \in 1..(n - k) |-> f[i + k]])
              = SumFunction(f)
         /\ SumFunction([i \in 1..k |-> f[i]]) \in Int
         /\ SumFunction([i \in 1..(n - k) |-> f[i + k]]) \in Int
<1>1. IsFiniteSet(1..n) /\ IsFiniteSet((k + 1)..n) /\ IsFiniteSet(1..(n - k))
  BY FS_Interval
<1>2. 1..k \in SUBSET (1..n) /\ (1..n) \ (1..k) = (k + 1)..n
  OBVIOUS
<1>3. PICK S : S = 1..n
  OBVIOUS
<1>4. PICK A : A = 1..k
  OBVIOUS
<1>5. /\ SumFunction(f) = SumFunction(On(f, A)) + SumFunction(On(f, S \ A))
      /\ SumFunction(On(f, A)) \in Int /\ SumFunction(On(f, S \ A)) \in Int
  <2>1. IsFiniteSet(S) /\ f \in [S -> Int] /\ A \in SUBSET S
    BY <1>1, <1>2, <1>3, <1>4
  <2> QED BY ONLY <2>1, SumSplit
<1>6. PICK h : h = On(f, S \ A)
  OBVIOUS
<1>7. PICK T, b, R : /\ T = 1..(n - k) /\ b = [i \in 1..(n - k) |-> i + k] /\ R = (k + 1)..n
  OBVIOUS
<1>8. SumFunction([i \in T |-> h[b[i]]]) = SumFunction(h)
  <2>1. IsFiniteSet(R) /\ IsFiniteSet(T)
    BY <1>1, <1>7
  <2>2. h \in [R -> Int]
    BY <1>2, <1>3, <1>4, <1>6, <1>7 DEF On
  <2>3. b \in [T -> R] /\ \A t, u \in T : t # u => b[t] # b[u]
    BY <1>7
  <2>4. \A x \in R : x - k \in T /\ b[x - k] = x
    BY <1>7
  <2>5. \A x \in R : \E t \in T : b[t] = x
    BY <2>4
  <2> QED BY <2>1, <2>2, <2>3, <2>5, SumRenamed
<1>9. [i \in T |-> h[b[i]]] = [i \in 1..(n - k) |-> f[i + k]]
  <2>1. \A i \in 1..(n - k) : i + k \in S \ A
    BY <1>3, <1>4
  <2> QED BY <1>6, <1>7, <2>1 DEF On
<1>10. On(f, A) = [i \in 1..k |-> f[i]]
  BY <1>4 DEF On
<1> QED BY <1>5, <1>6, <1>8, <1>9, <1>10

=============================================================================
