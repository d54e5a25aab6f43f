----------------------------- MODULE Recursion ------------------------------
(***************************************************************************)
(* What the proofs about recursive functions rest on: induction over the   *)
(* numbers of which something is true, and the functions that repeating a  *)
(* step gives.  The library states induction about an operator; here it is *)
(* about a set, and follows from its theorem about the minimal elements of *)
(* a well-founded relation.                                                *)
(***************************************************************************)
EXTENDS Integers, WellFoundedInduction, TLAPS

\* A set of numbers has a least one.
LEMMA LeastNat ==
    ASSUME NEW T \in SUBSET Nat, T # {}
    PROVE  \E n \in T : \A m \in T : n <= m
<1> DEFINE R == OpToRel(<, Nat)
<1>1. IsWellFoundedOn(R, Nat)
  BY NatLessThanWellFounded
<1> HIDE DEF R
<1>2. PICK n \in T : \A m \in T : ~(<<m, n>> \in R)
  BY <1>1, WFMin
<1>3. ASSUME NEW m \in T PROVE n <= m
  <2>1. ~(m < n)
    BY <1>2 DEF R, OpToRel
  <2> QED
    BY <2>1
<1> QED
  BY <1>3

\* A set that has a number whenever it has all smaller ones has them all.
LEMMA Induct ==
    ASSUME NEW T, \A n \in Nat : (\A m \in 0 .. n - 1 : m \in T) => n \in T
    PROVE  Nat \subseteq T
<1> SUFFICES ASSUME Nat \ T # {} PROVE FALSE
  OBVIOUS
<1>1. PICK n \in Nat \ T : \A m \in Nat \ T : n <= m
  BY LeastNat
<1>2. \A m \in 0 .. n - 1 : m \in T
  BY <1>1
<1> QED
  BY <1>1, <1>2

\* So does one with 0 and the successor of every number it has.
LEMMA InductOne ==
    ASSUME NEW T, 0 \in T, \A n \in Nat : n \in T => n + 1 \in T
    PROVE  Nat \subseteq T
<1>1. ASSUME NEW n \in Nat, \A m \in 0 .. n - 1 : m \in T PROVE n \in T
  <2>1. CASE n = 0
    BY <2>1
  <2>2. CASE n # 0
    <3>1. n - 1 \in Nat /\ n - 1 \in T /\ (n - 1) + 1 = n
      BY <1>1, <2>2
    <3> QED
      BY <3>1
  <2> QED
    BY <2>1, <2>2
<1> QED
  BY <1>1, Induct

-----------------------------------------------------------------------------
(* Functions by recursion                                                  *)

\* What steps do to a value of V, one after the other: a function of how many.
Steps(V) == [Nat -> [V -> V]]
Iterate(b, a, step, V) == b \in [Nat -> V] /\ b[0] = a /\ \A n \in Nat : b[n + 1] = step[n][b[n]]

LEMMA Iterates ==
    ASSUME NEW V, NEW a, a \in V, NEW step, step \in Steps(V)
    PROVE  \E b : Iterate(b, a, step, V)
<1> USE DEF Steps
<1> DEFINE Upto(n, g) == g \in [0 .. n -> V] /\ g[0] = a /\ \A j \in 0 .. n - 1 : g[j + 1] = step[j][g[j]]
<1>1. \A n \in Nat : \E g : Upto(n, g)
  <2> DEFINE T == {n \in Nat : \E g : Upto(n, g)}
  <2>1. 0 \in T
    <3> DEFINE g == [v \in 0 .. 0 |-> a]
    <3>1. Upto(0, g)
      OBVIOUS
    <3> QED
      BY <3>1
  <2>2. ASSUME NEW n \in Nat, n \in T PROVE n + 1 \in T
    <3>1. PICK g : Upto(n, g)
      BY <2>2
    <3> DEFINE h == [v \in 0 .. n + 1 |-> IF v <= n THEN g[v] ELSE step[n][g[n]]]
    <3>2. step[n][g[n]] \in V
      BY <3>1
    <3>3. h \in [0 .. n + 1 -> V]
      BY <3>1, <3>2
    <3>4. h[0] = a
      BY <3>1
    <3>5. ASSUME NEW j \in 0 .. n PROVE h[j + 1] = step[j][h[j]]
      <4>1. CASE j = n
        BY <4>1
      <4>2. CASE j < n
        <5>1. j \in 0 .. n - 1 /\ j + 1 \in 0 .. n
          BY <4>2
        <5>2. g[j + 1] = step[j][g[j]]
          BY <3>1, <5>1
        <5> QED
          BY <4>2, <5>1, <5>2
      <4> QED
        BY <4>1, <4>2
    <3> HIDE DEF h
    <3>6. Upto(n + 1, h)
      BY <3>3, <3>4, <3>5
    <3> QED
      BY <3>6
  <2> HIDE DEF T
  <2>3. Nat \subseteq T
    BY <2>1, <2>2, InductOne
  <2> QED
    BY <2>3 DEF T
<1>2. ASSUME NEW n \in Nat, NEW g, Upto(n, g), NEW h, Upto(n + 1, h)
      PROVE  g[n] = h[n]
  <2> DEFINE T == {v \in Nat : v <= n => g[v] = h[v]}
  <2>1. 0 \in T
    BY <1>2
  <2>2. ASSUME NEW v \in Nat, v \in T PROVE v + 1 \in T
    <3> SUFFICES ASSUME v + 1 <= n PROVE g[v + 1] = h[v + 1]
      OBVIOUS
    <3>1. v \in 0 .. n - 1 /\ v \in 0 .. (n + 1) - 1
      OBVIOUS
    <3> QED
      BY <1>2, <2>2, <3>1
  <2> HIDE DEF T
  <2>3. Nat \subseteq T
    BY <2>1, <2>2, InductOne
  <2> QED
    BY <2>3 DEF T
<1> DEFINE G(n) == CHOOSE g : Upto(n, g)
           b == [n \in Nat |-> G(n)[n]]
<1>3. \A n \in Nat : Upto(n, G(n))
  BY <1>1
<1> HIDE DEF G
<1>4. b \in [Nat -> V]
  BY <1>3
<1>5. b[0] = a
  BY <1>3
<1>6. ASSUME NEW n \in Nat PROVE b[n + 1] = step[n][b[n]]
  <2>1. Upto(n, G(n)) /\ Upto(n + 1, G(n + 1))
    BY <1>3
  <2>2. G(n)[n] = G(n + 1)[n]
    BY <1>2, <2>1
  <2>3. G(n + 1)[n + 1] = step[n][G(n + 1)[n]]
    BY <2>1
  <2> QED
    BY <2>2, <2>3
<1> HIDE DEF b
<1> QED
  BY <1>4, <1>5, <1>6 DEF Iterate

\* Sums of a number and some others, which are what their recursion says.
Sum(b, c, d, N) == b = [j \in 1 .. N + 1 |-> IF j = 1 THEN c ELSE b[j - 1] + d[j - 1]]
Terms(N) == [1 .. N -> Nat]

LEMMA SumsExist ==
    ASSUME NEW N \in Nat, NEW c \in Nat, NEW d, d \in Terms(N)
    PROVE  \E b : Sum(b, c, d, N)
<1> USE DEF Terms
<1> DEFINE step == [n \in Nat |-> [v \in Nat |-> IF n + 1 \in 1 .. N THEN v + d[n + 1] ELSE v]]
<1>1. step \in Steps(Nat)
  BY DEF Steps
<1> HIDE DEF step
<1>2. PICK s : s \in [Nat -> Nat] /\ s[0] = c /\ \A n \in Nat : s[n + 1] = step[n][s[n]]
  <2>1. \E s : Iterate(s, c, step, Nat)
    BY <1>1, Iterates
  <2> QED
    BY <2>1 DEF Iterate
<1> DEFINE b == [j \in 1 .. N + 1 |-> s[j - 1]]
<1>3. ASSUME NEW j \in 1 .. N + 1, j # 1 PROVE b[j] = b[j - 1] + d[j - 1]
  <2>1. PICK i \in Nat : j = i + 2
    <3>1. j - 2 \in Nat /\ j = (j - 2) + 2
      BY <1>3
    <3> QED
      BY <3>1
  <2>2. i + 1 \in 1 .. N
    BY <2>1
  <2>3. s[i + 1] = step[i][s[i]]
    BY <1>2
  <2>4. step[i][s[i]] = s[i] + d[i + 1]
    BY <2>2, <1>2 DEF step
  <2>5. b[j] = s[i + 1] /\ b[j - 1] = s[i] /\ j - 1 = i + 1
    BY <2>1
  <2> QED
    BY <2>3, <2>4, <2>5
<1>4. b[1] = c
  BY <1>2
<1>5. b = [j \in 1 .. N + 1 |-> IF j = 1 THEN c ELSE b[j - 1] + d[j - 1]]
  BY <1>3, <1>4
<1> HIDE DEF b
<1> QED
  BY <1>5 DEF Sum

LEMMA SumsAre ==
    ASSUME NEW N \in Nat, NEW c \in Nat, NEW d, d \in Terms(N), NEW b, Sum(b, c, d, N)
    PROVE  b \in [1 .. N + 1 -> Nat]
<1> USE DEF Terms, Sum
<1> DEFINE T == {i \in Nat : i <= N => b[i + 1] \in Nat}
<1>1. 0 \in T
  <2>1. b[1] = c
    OBVIOUS
  <2> QED
    BY <2>1
<1>2. ASSUME NEW i \in Nat, i \in T PROVE i + 1 \in T
  <2> SUFFICES ASSUME i + 1 <= N PROVE b[(i + 1) + 1] \in Nat
    OBVIOUS
  <2>1. i + 2 \in 1 .. N + 1 /\ i + 2 # 1 /\ (i + 1) + 1 = i + 2 /\ (i + 2) - 1 = i + 1
    OBVIOUS
  <2>2. b[i + 2] = b[i + 1] + d[i + 1]
    BY <1>2, <2>1
  <2>3. b[i + 1] \in Nat /\ d[i + 1] \in Nat
    BY <1>2
  <2> QED
    BY <2>1, <2>2, <2>3
<1> HIDE DEF T
<1>3. Nat \subseteq T
  BY <1>1, <1>2, InductOne
<1>4. ASSUME NEW j \in 1 .. N + 1 PROVE b[j] \in Nat
  <2>1. j - 1 \in Nat /\ j - 1 <= N /\ (j - 1) + 1 = j
    OBVIOUS
  <2>2. j - 1 \in T
    BY <1>3, <2>1
  <2> QED
    BY <2>1, <2>2 DEF T
<1>5. b = [j \in 1 .. N + 1 |-> b[j]]
  OBVIOUS
<1> QED
  BY <1>4, <1>5
=============================================================================
