------------------------------ MODULE Numbers -------------------------------
(***************************************************************************)
(* Facts about numbers that the proofs about several components rest on.   *)
(* Induction is by a least counterexample: the library states it for a     *)
(* set, and what has to be shown is a step from n - 1 to n.                *)
(***************************************************************************)
EXTENDS Integers, FiniteSetTheorems, WellFoundedInduction, TLAPS

-----------------------------------------------------------------------------
(* Induction over the natural numbers, for sets *)

\* A set of natural numbers that is not empty has a least element.
LEMMA LeastNat == ASSUME NEW T, T \subseteq Nat, T # {} PROVE \E x \in T : \A y \in T : x <= y
  <1> DEFINE R == OpToRel(<, Nat)
  <1>1. IsWellFoundedOn(R, Nat) BY Zenon, NatLessThanWellFounded
  <1>2. \A x, y \in Nat : x < y => <<x, y>> \in R BY DEF OpToRel
  <1> HIDE DEF R
  <1>3. PICK x \in T : \A y \in T : ~ (<<y, x>> \in R) BY <1>1, WFMin
  <1>4. ASSUME NEW y \in T PROVE x <= y
    <2>1. x \in Nat /\ y \in Nat OBVIOUS
    <2>2. ~(y < x) BY <1>2, <1>3, <2>1
    <2>3. QED BY <2>1, <2>2
  <1>5. QED BY <1>4

\* A set that holds 0, and n whenever it holds n - 1, holds every number up to N.
LEMMA Count ==
    ASSUME NEW N \in Nat, NEW S, 0 \in S, \A n \in 1..N : n - 1 \in S => n \in S
    PROVE  \A n \in 0..N : n \in S
  <1> DEFINE T == {n \in 0..N : n \notin S}
  <1>1. SUFFICES ASSUME T # {} PROVE FALSE OBVIOUS
  <1>2. T \subseteq Nat OBVIOUS
  <1>3. PICK n \in T : \A m \in T : n <= m
    <2> HIDE DEF T
    <2>1. QED BY <1>1, <1>2, LeastNat
  <1>4. n # 0 /\ n \in 1..N BY <1>3
  <1>5. n - 1 \notin T /\ n - 1 \in 0..N
    <2>1. n - 1 \in 0..N /\ ~(n <= n - 1) BY <1>4
    <2>2. QED BY <1>3, <2>1
  <1>6. QED BY <1>3, <1>4, <1>5

\* A finite set of numbers that is not empty has a greatest element.
LEMMA GreatestInt ==
    ASSUME NEW S, IsFiniteSet(S), S \subseteq Int, S # {}
    PROVE  \E x \in S : \A y \in S : y <= x
  <1> DEFINE Greatest(T) == \E x \in T : \A y \in T : y <= x
             Sizes == {n \in Nat : \E T \in SUBSET S : T # {} /\ Cardinality(T) = n /\ ~Greatest(T)}
  <1>1. ASSUME NEW T \in SUBSET S PROVE IsFiniteSet(T) /\ Cardinality(T) \in Nat
    BY <1>1, FS_Subset, FS_CardinalityType
  <1>2. SUFFICES ASSUME ~Greatest(S) PROVE FALSE OBVIOUS
  <1>3. Cardinality(S) \in Sizes BY <1>1, <1>2
  <1>4. PICK n \in Sizes : \A m \in Sizes : n <= m
    <2>1. Sizes \subseteq Nat OBVIOUS
    <2> HIDE DEF Sizes
    <2>2. QED BY <1>3, <2>1, LeastNat
  <1>5. PICK T \in SUBSET S : T # {} /\ Cardinality(T) = n /\ ~Greatest(T) BY <1>4
  <1>6. PICK x \in T : TRUE BY <1>5
  <1> DEFINE rest == T \ {x}
  <1>7. IsFiniteSet(rest) /\ Cardinality(rest) = n - 1 /\ rest \in SUBSET S BY <1>1, <1>5, <1>6, FS_RemoveElement
  <1>8. n \in Nat /\ n - 1 \in Nat BY <1>1, <1>7
  <1>9. n - 1 \notin Sizes
    <2>1. ~(n <= n - 1) BY <1>8
    <2>2. QED BY <1>4, <2>1
  <1>10. CASE rest = {}
    <2>1. T = {x} BY <1>10
    <2>2. Greatest(T) BY <1>6, <2>1
    <2>3. QED BY <1>5, <2>2
  <1>11. CASE rest # {}
    <2>1. Greatest(rest) BY <1>7, <1>8, <1>9, <1>11
    <2>2. PICK y \in rest : \A z \in rest : z <= y BY <2>1
    <2>3. x \in Int /\ y \in Int /\ \A z \in T : z \in Int /\ (z = x \/ z <= y) BY <1>6, <2>2
    <2>4. \A z \in T : z <= y \/ z = x BY <2>3
    <2>5. CASE x <= y
      <3>1. \A z \in T : z <= y BY <2>4, <2>5
      <3>2. QED BY <1>5, <3>1
    <2>6. CASE ~(x <= y)
      <3>1. \A z \in T : z <= x BY <2>3, <2>6
      <3>2. QED BY <1>5, <1>6, <3>1
    <2>7. QED BY <2>5, <2>6
  <1>12. QED BY <1>10, <1>11
-----------------------------------------------------------------------------
(* Loops: a recursive function that goes over a sequence *)

\* f[n] is what a loop of N rounds has after n of them.
IsLoop(f, N, base, step) == f = [n \in 0..N |-> IF n = 0 THEN base ELSE step[<<n, f[n - 1]>>]]

\* What holds before a loop and is kept by each of its rounds holds after every round.
LEMMA LoopKeeps ==
    ASSUME NEW N \in Nat, NEW f, NEW Good, f[0] \in Good[0],
           \A n \in 1..N : f[n - 1] \in Good[n - 1] => f[n] \in Good[n]
    PROVE  \A n \in 0..N : f[n] \in Good[n]
  <1> DEFINE S == {n \in 0..N : f[n] \in Good[n]}
  <1>1. 0 \in S OBVIOUS
  <1>2. \A n \in 1..N : n - 1 \in S => n \in S OBVIOUS
  <1> HIDE DEF S
  <1>3. \A n \in 0..N : n \in S BY <1>1, <1>2, Count
  <1>4. QED BY <1>3 DEF S

\* The recursive definition of a loop defines a function.
LEMMA LoopExists ==
    ASSUME NEW N \in Nat, NEW base, NEW step
    PROVE  \E f : IsLoop(f, N, base, step)
  <1> DEFINE S == {m \in 0..N : \E f : IsLoop(f, m, base, step)}
  <1>1. 0 \in S
    <2> DEFINE f == [n \in 0..0 |-> base]
    <2>1. \A n \in 0..0 : n = 0 OBVIOUS
    <2>2. f = [n \in 0..0 |-> IF n = 0 THEN base ELSE step[<<n, f[n - 1]>>]] BY <2>1
    <2>3. 0 \in 0..N OBVIOUS
    <2> HIDE DEF f
    <2>4. IsLoop(f, 0, base, step) BY <2>2 DEF IsLoop
    <2>5. QED BY <2>3, <2>4
  <1>2. ASSUME NEW m \in 1..N, m - 1 \in S PROVE m \in S
    <2>1. PICK g : IsLoop(g, m - 1, base, step) BY <1>2
    <2> DEFINE v == step[<<m, g[m - 1]>>]
               f == [k \in 0..m |-> IF k = m THEN v ELSE g[k]]
    <2>2. m \in Nat /\ m # 0 /\ m - 1 \in 0..(m - 1) OBVIOUS
    <2>3. \A k \in 0..(m - 1) : g[k] = IF k = 0 THEN base ELSE step[<<k, g[k - 1]>>]
      BY <2>1 DEF IsLoop
    <2>4. \A k \in 0..(m - 1) : k \in 0..m /\ k # m /\ f[k] = g[k] BY <2>2
    <2>5. f[m] = v BY <2>2
    <2> HIDE DEF f
    <2>6. ASSUME NEW k \in 0..m PROVE f[k] = IF k = 0 THEN base ELSE step[<<k, f[k - 1]>>]
      <3>1. CASE k = m
        <4>1. f[k - 1] = g[m - 1] BY <3>1, <2>2, <2>4
        <4>2. QED BY <4>1, <3>1, <2>2, <2>5
      <3>2. CASE k # m /\ k # 0
        <4>1. k \in 0..(m - 1) /\ k - 1 \in 0..(m - 1) BY <3>2, <2>2
        <4>2. f[k] = g[k] /\ f[k - 1] = g[k - 1] BY <4>1, <2>4
        <4>3. QED BY <4>1, <4>2, <3>2, <2>3
      <3>3. CASE k # m /\ k = 0
        <4>1. k \in 0..(m - 1) BY <3>3, <2>2
        <4>2. f[k] = g[k] BY <4>1, <2>4
        <4>3. QED BY <4>1, <4>2, <3>3, <2>3
      <3>4. QED BY <3>1, <3>2, <3>3
    <2>7. f = [k \in 0..m |-> f[k]] BY DEF f
    <2>8. IsLoop(f, m, base, step) BY <2>6, <2>7 DEF IsLoop
    <2>9. m \in 0..N OBVIOUS
    <2>10. QED BY <2>8, <2>9
  <1> HIDE DEF S
  <1>3. N \in S BY <1>1, <1>2, Count
  <1>4. QED BY <1>3 DEF S
\* Both, for a loop whose rounds are defined on a set A of intermediate results
LEMMA LoopDefines ==
    ASSUME NEW N \in Nat, NEW A, NEW Good, NEW base \in Good[0], NEW step,
           \A n \in 0..N : Good[n] \subseteq A,
           \A n \in 1..N : \A x \in Good[n - 1] : step[<<n, x>>] \in Good[n]
    PROVE  \E f : /\ IsLoop(f, N, base, step)
                  /\ \A n \in 0..N : f[n] \in Good[n] /\ f[n] \in A
  <1>1. PICK f : IsLoop(f, N, base, step) BY LoopExists
  <1>2. f[0] = base /\ \A n \in 1..N : f[n] = step[<<n, f[n - 1]>>]
    <2>1. 0 \in 0..N /\ \A n \in 1..N : n \in 0..N /\ n # 0 OBVIOUS
    <2>2. QED BY <1>1, <2>1 DEF IsLoop
  <1>3. f[0] \in Good[0] BY <1>2
  <1>4. \A n \in 1..N : f[n - 1] \in Good[n - 1] => f[n] \in Good[n] BY <1>2
  <1>5. \A n \in 0..N : f[n] \in Good[n] BY <1>3, <1>4, LoopKeeps
  <1>6. QED BY <1>1, <1>5
=============================================================================
