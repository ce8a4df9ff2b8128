----------------------------- MODULE Induction ------------------------------
(***************************************************************************)
(* Induction over numbers in a form the provers can instantiate: what is   *)
(* proved of every number is given as a set, and what a recursion does at  *)
(* each number as a function.  The existence of the recursive functions of *)
(* the models (a registry filled card by card, a running sum of sizes, a   *)
(* selection sort) rests on these lemmas.                                  *)
(***************************************************************************)
EXTENDS Integers, WellFoundedInduction, TLAPS

(* A set of natural numbers that is not empty has a least element. *)
LEMMA LeastNumber ==
  ASSUME NEW T \in SUBSET Nat, T # {}
  PROVE  \E x \in T : \A y \in T : x <= y
<1>1. \E x \in T : \A y \in T : ~(<<y, x>> \in OpToRel(<, Nat))
  BY NatLessThanWellFounded, WFMin
<1>2. \A x, y \in Nat : <<y, x>> \in OpToRel(<, Nat) <=> y < x
  BY DEF OpToRel
<1>3. \A x, y \in Nat : ~(y < x) => x <= y
  OBVIOUS
<1>4. PICK x \in T : \A y \in T : ~(<<y, x>> \in OpToRel(<, Nat))
  BY <1>1
<1>5. \A y \in T : x <= y
  BY <1>2, <1>3, <1>4
<1> QED
  BY <1>5

(* What holds of m and passes from a number below n to the next holds from *)
(* m to n.                                                                 *)
LEMMA UpTo ==
  ASSUME NEW m \in Int, NEW n \in Int, NEW T,
         m <= n => m \in T,
         \A i \in m..(n - 1) : i \in T => i + 1 \in T
  PROVE  \A i \in m..n : i \in T
<1> DEFINE Missing == {k \in Nat : m + k <= n /\ m + k \notin T}
<1> SUFFICES ASSUME NEW i \in m..n, i \notin T PROVE FALSE
  OBVIOUS
<1>1. i - m \in Nat /\ m + (i - m) = i /\ i - m \in Missing
  OBVIOUS
<1>2. Missing \in SUBSET Nat /\ Missing # {}
  BY <1>1
<1>3. PICK k \in Missing : \A y \in Missing : k <= y
  <2> HIDE DEF Missing
  <2> QED
    BY <1>2, LeastNumber
<1>4. k \in Nat /\ m + k <= n /\ m + k \notin T
  BY <1>3
<1>5. CASE k = 0
  BY <1>4, <1>5
<1>6. CASE k # 0
  <2>1. k - 1 \in Nat /\ k - 1 \notin Missing
    BY <1>3, <1>4, <1>6
  <2>2. m + (k - 1) \in T /\ m + (k - 1) \in m..(n - 1) /\ (m + (k - 1)) + 1 = m + k
    BY <1>4, <1>6, <2>1
  <2> QED
    BY <1>4, <2>2
<1> QED
  BY <1>5, <1>6

(* A step that stays within V at each number after m, and a recursion from *)
(* a at m by that step.                                                    *)
Stays(step, m, n, V) == \A i \in (m + 1)..n : \A v \in V : step[<<i, v>>] \in V
Recurses(f, a, step, m, n, V) ==
  /\ f \in [m..n -> V] /\ f[m] = a
  /\ \A i \in (m + 1)..n : f[i] = step[<<i, f[i - 1]>>]

(* A recursion from a at m whose step at a number looks back at any before *)
(* it, and the function there is for it.                                   *)
LooksBack(prev, m, n) == \A i \in (m + 1)..n : prev[i] \in m..(i - 1)
RecursesFrom(f, a, step, prev, m, n, V) ==
  /\ f \in [m..n -> V] /\ f[m] = a
  /\ \A i \in (m + 1)..n : f[i] = step[<<i, f[prev[i]]>>]

LEMMA RecursionFrom ==
  ASSUME NEW m \in Int, NEW n \in Int, m <= n, NEW V, NEW a \in V,
         NEW step, Stays(step, m, n, V), NEW prev, LooksBack(prev, m, n)
  PROVE  \E f : RecursesFrom(f, a, step, prev, m, n, V)
<1> USE DEF Stays, LooksBack
<1> DEFINE Follows(f, k) == RecursesFrom(f, a, step, prev, m, k, V)
           T == {k \in m..n : \E f : Follows(f, k)}
<1> USE DEF RecursesFrom
<1>1. m \in T
  <2>1. Follows([i \in m..m |-> a], m)
    OBVIOUS
  <2> QED
    BY <2>1
<1>2. ASSUME NEW k \in m..(n - 1), k \in T PROVE k + 1 \in T
  <2>1. PICK f : Follows(f, k)
    BY <1>2
  <2>2. k + 1 \in (m + 1)..n /\ prev[k + 1] \in m..k
    OBVIOUS
  <2> DEFINE v == step[<<k + 1, f[prev[k + 1]]>>]
             g == [i \in m..(k + 1) |-> IF i = k + 1 THEN v ELSE f[i]]
  <2>3. v \in V
    BY <2>1, <2>2
  <2>4. g \in [m..(k + 1) -> V]
    <3> HIDE DEF v
    <3>1. \A i \in m..(k + 1) : i # k + 1 => i \in m..k
      OBVIOUS
    <3> QED
      BY <2>1, <2>3, <3>1
  <2>5. g[m] = a /\ g[k + 1] = v /\ \A i \in m..k : g[i] = f[i]
    BY <2>1
  <2> HIDE DEF g
  <2>6. ASSUME NEW i \in (m + 1)..(k + 1) PROVE g[i] = step[<<i, g[prev[i]]>>]
    <3>1. prev[i] \in m..k /\ g[prev[i]] = f[prev[i]]
      <4>1. i \in (m + 1)..n /\ prev[i] \in m..(i - 1)
        OBVIOUS
      <4> QED
        BY <2>5, <4>1
    <3>2. CASE i = k + 1
      BY <2>5, <3>1, <3>2
    <3>3. CASE i # k + 1
      <4>1. i \in (m + 1)..k /\ i \in m..k
        BY <3>3
      <4> QED
        BY <2>1, <2>5, <3>1, <4>1
    <3> QED
      BY <3>2, <3>3
  <2>7. Follows(g, k + 1) /\ k + 1 \in m..n
    BY <2>4, <2>5, <2>6
  <2> QED
    BY <2>7
<1>3. \A k \in m..n : k \in T
  <2> HIDE DEF T
  <2> QED
    BY <1>1, <1>2, UpTo
<1>4. n \in T
  BY <1>3
<1> QED
  BY <1>4

(* The recursion that looks back at the number just before. *)
LEMMA Recursion ==
  ASSUME NEW m \in Int, NEW n \in Int, m <= n, NEW V, NEW a \in V,
         NEW step, Stays(step, m, n, V)
  PROVE  \E f : Recurses(f, a, step, m, n, V)
<1> DEFINE prev == [i \in (m + 1)..n |-> i - 1]
<1>1. LooksBack(prev, m, n)
  BY DEF LooksBack
<1>2. PICK f : RecursesFrom(f, a, step, prev, m, n, V)
  <2> HIDE DEF prev
  <2> QED
    BY <1>1, RecursionFrom
<1>3. \A i \in (m + 1)..n : prev[i] = i - 1
  OBVIOUS
<1> HIDE DEF prev
<1>4. Recurses(f, a, step, m, n, V)
  BY <1>2, <1>3 DEF Recurses, RecursesFrom
<1> QED
  BY <1>4
=============================================================================
