-------------------------- MODULE BoundedRecursion --------------------------
(***************************************************************************)
(* Induction over the natural numbers and recursion over an interval,      *)
(* stated for sets instead of operators so that they can be cited: the set *)
(* S is the numbers with the property in question, the function G is the   *)
(* step of the recursion.                                                  *)
(***************************************************************************)
EXTENDS Integers, WellFoundedInduction, TLAPS

\* G takes a number up to n and a value of V to a value of V.
StepsWithin(G, n, V) == G \in [(1 .. n) \X V -> V]

\* f starts with b and makes the step G n times.
Solves(f, b, n, G) == f[0] = b /\ \A k \in 1 .. n : f[k] = G[<<k, f[k - 1]>>]

\* The function h is known to make the steps of G as long as it stays in V.
Follows(h, b, n, G, V) ==
  /\ h = [k \in 0 .. n |-> h[k]]
  /\ h[0] = b
  /\ \A k \in 1 .. n : h[k - 1] \in V => h[k] = G[<<k, h[k - 1]>>]

Less == {p \in Nat \X Nat : p[1] < p[2]}

\* The library's fact, with the relation spelt out.
LEMMA LessWellFounded == IsWellFoundedOn(Less, Nat)
BY NatLessThanWellFounded DEF OpToRel, Less

\* Induction: the least number outside of S is neither 0 nor a successor.
LEMMA SetInduction ==
  ASSUME NEW S, 0 \in S, \A n \in Nat : n \in S => n + 1 \in S
  PROVE  Nat \subseteq S
<1> DEFINE T == Nat \ S
<1> SUFFICES ASSUME T # {} PROVE FALSE
  OBVIOUS
<1>1. PICK m \in T : \A y \in T : ~ (<<y, m>> \in Less)
  <2>1. T \subseteq Nat
    OBVIOUS
  <2> HIDE DEF T
  <2> QED
    BY <2>1, LessWellFounded, WFMin
<1>2. m # 0 /\ m - 1 \in Nat
  OBVIOUS
<1>3. m - 1 \in T
  BY <1>2
<1>4. <<m - 1, m>> \in Less
  BY <1>2 DEF Less
<1> QED
  BY <1>1, <1>3, <1>4

\* A recursion over 0 .. n whose step stays in V has a solution in V.
LEMMA Recursion ==
  ASSUME NEW V, NEW b \in V, NEW n \in Nat, NEW G, StepsWithin(G, n, V)
  PROVE  \E f \in [0 .. n -> V] : Solves(f, b, n, G)
<1> DEFINE S == {m \in Nat : m <= n => \E f \in [0 .. m -> V] : Solves(f, b, m, G)}
<1> USE DEF Solves, StepsWithin
<1>1. 0 \in S
  <2> DEFINE f == [k \in 0 .. 0 |-> b]
  <2>1. f \in [0 .. 0 -> V] /\ Solves(f, b, 0, G)
    OBVIOUS
  <2> QED
    BY <2>1
<1>2. ASSUME NEW m \in Nat, m \in S
      PROVE  m + 1 \in S
  <2> SUFFICES ASSUME m + 1 <= n
               PROVE  \E f \in [0 .. m + 1 -> V] : Solves(f, b, m + 1, G)
    OBVIOUS
  <2>1. PICK f \in [0 .. m -> V] : Solves(f, b, m, G)
    BY <1>2
  <2> DEFINE g == [k \in 0 .. m + 1 |-> IF k <= m THEN f[k] ELSE G[<<m + 1, f[m]>>]]
  <2>2. <<m + 1, f[m]>> \in (1 .. n) \X V
    BY m + 1 <= n
  <2>3. g \in [0 .. m + 1 -> V]
    BY <2>2
  <2>4. \A k \in 0 .. m : g[k] = f[k]
    OBVIOUS
  <2>5. g[m + 1] = G[<<m + 1, f[m]>>]
    OBVIOUS
  <2> HIDE DEF g
  <2>6. Solves(g, b, m + 1, G)
    <3>1. g[0] = b
      BY <2>1, <2>4
    <3>2. ASSUME NEW k \in 1 .. m + 1
          PROVE  g[k] = G[<<k, g[k - 1]>>]
      <4>1. CASE k = m + 1
        <5>1. g[k - 1] = f[m]
          BY <4>1, <2>4
        <5> QED
          BY <4>1, <5>1, <2>5
      <4>2. CASE k # m + 1
        <5>1. k \in 1 .. m /\ k \in 0 .. m /\ k - 1 \in 0 .. m
          BY <4>2
        <5> QED
          BY <5>1, <2>1, <2>4
      <4> QED
        BY <4>1, <4>2
    <3> QED
      BY <3>1, <3>2
  <2> QED
    BY <2>3, <2>6
<1>3. Nat \subseteq S
  <2> HIDE DEF S
  <2> QED
    BY <1>1, <1>2, SetInduction
<1> QED
  BY <1>3

\* Whatever follows a recursion whose step stays in V has its values in V.
LEMMA RecursionType ==
  ASSUME NEW V, NEW b \in V, NEW n \in Nat, NEW G, StepsWithin(G, n, V),
         NEW h, Follows(h, b, n, G, V)
  PROVE  h \in [0 .. n -> V]
<1> DEFINE S == {k \in Nat : k <= n => h[k] \in V}
<1> USE DEF StepsWithin, Follows
<1>1. 0 \in S
  OBVIOUS
<1>2. ASSUME NEW m \in Nat, m \in S
      PROVE  m + 1 \in S
  <2> SUFFICES ASSUME m + 1 <= n PROVE h[m + 1] \in V
    OBVIOUS
  <2>1. m + 1 \in 1 .. n /\ (m + 1) - 1 = m /\ h[m] \in V
    BY <1>2, m + 1 <= n
  <2>2. h[m + 1] = G[<<m + 1, h[m]>>]
    BY <2>1
  <2> QED
    BY <2>1, <2>2
<1>3. Nat \subseteq S
  <2> HIDE DEF S
  <2> QED
    BY <1>1, <1>2, SetInduction
<1>4. \A k \in 0 .. n : h[k] \in V
  BY <1>3
<1> QED
  BY <1>4
=============================================================================
