----------------------------- MODULE NumberFacts ----------------------------
(***************************************************************************)
(* Facts about natural numbers that several proofs rest on: induction,     *)
(* recursion, the least and the greatest number of a set, and folds.  They *)
(* are stated of sets and functions, not of operators: induction is to be  *)
(* applied to the set of the numbers that have the property, and recursion *)
(* and folds to a step that is a function.  With them a recursive function *)
(* and a FoldLeft of the model, which are CHOOSE expressions, are shown to *)
(* exist and to satisfy their equations.                                   *)
(***************************************************************************)
EXTENDS FiniteSetsExt, Integers, WellFoundedInduction, TLAPS

(* A set of natural numbers has a least member.                               *)
LEMMA LeastNat ==
    ASSUME NEW T \in SUBSET Nat, T # {}
    PROVE  \E m \in T : \A k \in T : m <= k
<1>1. IsWellFoundedOn({ss \in Nat \X Nat : ss[1] < ss[2]}, Nat)
  BY NatLessThanWellFounded DEF OpToRel
<1>2. PICK R : IsWellFoundedOn(R, Nat) /\ R = {ss \in Nat \X Nat : ss[1] < ss[2]}
  BY <1>1
<1>3. PICK x \in T : \A y \in T : ~(<<y, x>> \in R)
  BY <1>2, WFMin
<1>4. ASSUME NEW i \in Nat, NEW j \in Nat, i < j PROVE <<i, j>> \in R
  <2>1. <<i, j>> \in Nat \X Nat /\ <<i, j>>[1] = i /\ <<i, j>>[2] = j
    OBVIOUS
  <2> QED
    BY <1>2, <1>4, <2>1
<1>5. \A y \in T : ~(y < x)
  BY <1>3, <1>4
<1> QED
  BY <1>5

(* Min finds it.                                                              *)
LEMMA MinIsLeast ==
    ASSUME NEW T \in SUBSET Nat, T # {}
    PROVE  Min(T) \in T /\ \A k \in T : Min(T) <= k
BY LeastNat DEF Min

(* A set that has 0, and with a number the next one, has all numbers.         *)
LEMMA InductionOnNat ==
    ASSUME NEW T \in SUBSET Nat, 0 \in T, \A n \in T : n + 1 \in T
    PROVE  T = Nat
<1> SUFFICES ASSUME Nat \ T # {} PROVE FALSE
  OBVIOUS
<1>1. PICK m \in Nat \ T : \A k \in Nat \ T : m <= k
  BY LeastNat
<1>2. m # 0 /\ m - 1 \in Nat /\ m - 1 \notin Nat \ T
  BY <1>1
<1> QED
  BY <1>2

-----------------------------------------------------------------------------

(* What has the first k + 1 values of a recursion on the natural numbers.     *)
Begins(g, k, first, next) ==
    g[0] = first /\ \A i \in 0 .. k : i < k => g[i + 1] = next[<<i, g[i]>>]

LEMMA BeginningsExist ==
    ASSUME NEW S, NEW first \in S, NEW next \in [Nat \X S -> S], NEW k \in Nat
    PROVE  \E g \in [0 .. k -> S] : Begins(g, k, first, next)
<1> DEFINE T == {j \in Nat : \E g \in [0 .. j -> S] : Begins(g, j, first, next)}
<1>1. 0 \in T
  <2> DEFINE g == [i \in 0 .. 0 |-> first]
  <2>1. g \in [0 .. 0 -> S] /\ Begins(g, 0, first, next)
    BY DEF Begins
  <2> QED
    BY <2>1
<1>2. ASSUME NEW j \in T PROVE j + 1 \in T
  <2>1. PICK g \in [0 .. j -> S] : Begins(g, j, first, next)
    OBVIOUS
  <2>2. j \in Nat /\ g[j] \in S
    BY <2>1
  <2>3. PICK x \in S : x = next[<<j, g[j]>>]
    BY <2>2
  <2> DEFINE h == [i \in 0 .. j + 1 |-> IF i <= j THEN g[i] ELSE x]
  <2>4. h \in [0 .. j + 1 -> S]
    BY <2>1, <2>2
  <2>5. (\A i \in 0 .. j : h[i] = g[i]) /\ h[j + 1] = x
    BY <2>2
  <2>6. h[0] = first
    BY <2>1, <2>2, <2>5 DEF Begins
  <2> HIDE DEF h
  <2>7. ASSUME NEW i \in 0 .. j + 1, i < j + 1 PROVE h[i + 1] = next[<<i, h[i]>>]
    <3>1. CASE i < j
      <4>1. i \in 0 .. j /\ i + 1 \in 0 .. j
        BY <2>2, <3>1
      <4>2. g[i + 1] = next[<<i, g[i]>>]
        BY <2>1, <3>1, <4>1 DEF Begins
      <4> QED
        BY <2>5, <4>1, <4>2
    <3>2. CASE i = j
      BY <2>2, <2>3, <2>5, <3>2
    <3> QED
      BY <2>2, <2>7, <3>1, <3>2
  <2> QED
    BY <2>2, <2>4, <2>6, <2>7 DEF Begins
<1> HIDE DEF T
<1>3. T = Nat
  <2>1. T \in SUBSET Nat
    BY DEF T
  <2> QED
    BY <1>1, <1>2, <2>1, InductionOnNat
<1> QED
  BY <1>3 DEF T

LEMMA BeginningsAgree ==
    ASSUME NEW S, NEW first \in S, NEW next \in [Nat \X S -> S],
           NEW k \in Nat, NEW g, Begins(g, k, first, next),
           NEW l \in Nat, NEW h, Begins(h, l, first, next), k <= l,
           NEW i \in 0 .. k
    PROVE  g[i] = h[i]
<1> DEFINE T == {j \in Nat : j <= k => g[j] = h[j]}
<1>1. 0 \in T
  BY DEF Begins
<1>2. ASSUME NEW j \in T PROVE j + 1 \in T
  <2> SUFFICES ASSUME j + 1 <= k PROVE g[j + 1] = h[j + 1]
    OBVIOUS
  <2>1. j \in 0 .. k /\ j < k /\ j \in 0 .. l /\ j < l /\ g[j] = h[j]
    BY <1>2
  <2>2. g[j + 1] = next[<<j, g[j]>>] /\ h[j + 1] = next[<<j, h[j]>>]
    BY <2>1 DEF Begins
  <2> QED
    BY <2>1, <2>2
<1> HIDE DEF T
<1>3. T = Nat
  <2>1. T \in SUBSET Nat
    BY DEF T
  <2> QED
    BY <1>1, <1>2, <2>1, InductionOnNat
<1>4. i \in T
  BY <1>3
<1> QED
  BY <1>4 DEF T

Recurs(F, first, next) == F[0] = first /\ \A k \in Nat : F[k + 1] = next[<<k, F[k]>>]

(* A recursion on the natural numbers has a solution.                         *)
LEMMA RecursionOnNat ==
    ASSUME NEW S, NEW first \in S, NEW next \in [Nat \X S -> S]
    PROVE  \E F \in [Nat -> S] : Recurs(F, first, next)
<1> DEFINE A(k) == CHOOSE g \in [0 .. k -> S] : Begins(g, k, first, next)
           F == [k \in Nat |-> A(k)[k]]
<1>1. \A k \in Nat : A(k) \in [0 .. k -> S] /\ Begins(A(k), k, first, next)
  BY BeginningsExist
<1> HIDE DEF A
<1>2. F \in [Nat -> S]
  <2>1. \A k \in Nat : k \in 0 .. k
    OBVIOUS
  <2> QED
    BY <1>1, <2>1
<1>3. F[0] = first
  BY <1>1 DEF Begins
<1>4. ASSUME NEW k \in Nat PROVE F[k + 1] = next[<<k, F[k]>>]
  <2>1. k + 1 \in Nat /\ k \in 0 .. k /\ k <= k + 1 /\ k \in 0 .. k + 1 /\ k < k + 1
    OBVIOUS
  <2>2. Begins(A(k), k, first, next) /\ Begins(A(k + 1), k + 1, first, next)
    BY <1>1, <2>1
  <2>3. A(k + 1)[k + 1] = next[<<k, A(k + 1)[k]>>]
    BY <2>1, <2>2 DEF Begins
  <2>4. A(k)[k] = A(k + 1)[k]
    BY <2>1, <2>2, BeginningsAgree
  <2>5. F[k] = A(k)[k] /\ F[k + 1] = A(k + 1)[k + 1]
    BY <2>1
  <2> QED
    BY <2>3, <2>4, <2>5
<1> HIDE DEF F
<1> QED
  BY <1>2, <1>3, <1>4 DEF Recurs

-----------------------------------------------------------------------------

(* A set of numbers up to n has a greatest member, and Max finds it.          *)
LEMMA MaxIsGreatest ==
    ASSUME NEW n \in Nat, NEW s \in SUBSET (1 .. n), s # {}
    PROVE  Max(s) \in s /\ \A i \in s : i <= Max(s)
<1> DEFINE T == {n - i : i \in s}
<1>1. \A i \in s : n - i \in Nat
  OBVIOUS
<1>2. T \in SUBSET Nat /\ T # {}
  BY <1>1, Zenon
<1>3. PICK m \in T : \A k \in T : m <= k
  <2> HIDE DEF T
  <2> QED
    BY <1>2, LeastNat
<1>4. PICK i \in s : m = n - i
  BY <1>3
<1>5. \A j \in s : i >= j
  <2> SUFFICES ASSUME NEW j \in s PROVE i >= j
    OBVIOUS
  <2>1. n - i <= n - j
    BY <1>3, <1>4
  <2> QED
    BY <2>1
<1>6. Max(s) \in s /\ \A j \in s : Max(s) >= j
  BY <1>5, Zenon DEF Max
<1> QED
  BY <1>6

(* The recursion of the community modules' folds, on the sets of positions of *)
(* a sequence of n elements, of which the last is taken first.                *)
Folds(iter, n, base, step, seq) ==
    \A s \in SUBSET (1 .. n) :
        iter[s] = IF s = {} THEN base
                            ELSE step[<<seq[Max(s)], iter[s \ {Max(s)}]>>]

LEMMA FoldExists ==
    ASSUME NEW E, NEW V, NEW base \in V, NEW step \in [E \X V -> V],
           NEW l \in Nat, NEW seq \in [1 .. l -> E]
    PROVE  \E iter \in [SUBSET (1 .. l) -> V] : Folds(iter, l, base, step, seq)
<1> DEFINE Exists(n) == \E iter \in [SUBSET (1 .. n) -> V] : Folds(iter, n, base, step, seq)
           T == {n \in Nat : n <= l => Exists(n)}
<1>1. 0 \in T
  <2> DEFINE iter == [s \in SUBSET (1 .. 0) |-> base]
  <2>1. iter \in [SUBSET (1 .. 0) -> V]
    OBVIOUS
  <2>2. \A s \in SUBSET (1 .. 0) : s = {} /\ iter[s] = base
    OBVIOUS
  <2> HIDE DEF iter
  <2> QED
    BY <2>1, <2>2 DEF Folds
<1>2. ASSUME NEW n \in T PROVE n + 1 \in T
  <2>0. n \in Nat /\ n + 1 \in Nat /\ (n + 1 <= l => Exists(n))
    <3> HIDE DEF Exists
    <3> QED
      OBVIOUS
  <2>a. SUFFICES ASSUME n + 1 <= l PROVE Exists(n + 1)
    <3> HIDE DEF Exists
    <3> QED
      BY <2>0
  <2>1. PICK iter \in [SUBSET (1 .. n) -> V] : Folds(iter, n, base, step, seq)
    BY <2>0, <2>a
  <2> DEFINE P == SUBSET (1 .. n + 1)
             last(s) == Max(s)
             value(s) == IF s = {} THEN base ELSE step[<<seq[last(s)], iter[s \ {last(s)}]>>]
             longer == [s \in P |-> value(s)]
  <2>2. ASSUME NEW s \in P, s # {}
        PROVE  /\ last(s) \in 1 .. n + 1 /\ s \ {last(s)} \in SUBSET (1 .. n)
               /\ s \ {last(s)} \in P
    <3> DEFINE m == n + 1
    <3>1. m \in Nat /\ s \in SUBSET (1 .. m)
      BY <2>0
    <3> HIDE DEF m
    <3>2. last(s) \in s /\ \A i \in s : i <= last(s)
      BY <2>2, <3>1, MaxIsGreatest, Zenon
    <3>3. s \in SUBSET (1 .. n + 1)
      OBVIOUS
    <3> HIDE DEF last
    <3>4. last(s) \in 1 .. n + 1
      BY <3>2, <3>3
    <3>5. ASSUME NEW i \in s \ {last(s)} PROVE i \in 1 .. n
      <4>1. i \in 1 .. n + 1 /\ i <= last(s) /\ i # last(s)
        BY <3>2, <3>3
      <4> QED
        BY <2>0, <3>4, <4>1
    <3> QED
      BY <3>3, <3>4, <3>5
  <2>3. ASSUME NEW s \in P PROVE value(s) \in V
    <3>1. CASE s = {}
      BY <3>1
    <3>2. CASE s # {}
      <4>1. seq[last(s)] \in E /\ iter[s \ {last(s)}] \in V
        BY <2>0, <2>1, <2>2, <2>a, <3>2
      <4> QED
        BY <3>2, <4>1
    <3> QED
      BY <3>1, <3>2
  <2>4. ASSUME NEW s \in SUBSET (1 .. n) PROVE value(s) = iter[s] /\ s \in P
    BY <2>1 DEF Folds
  <2> HIDE DEF value, P, last
  <2>5. longer \in [P -> V] /\ \A s \in P : longer[s] = value(s)
    BY <2>3
  <2> HIDE DEF longer
  <2>6. ASSUME NEW s \in P
        PROVE  longer[s] = IF s = {} THEN base
                           ELSE step[<<seq[last(s)], longer[s \ {last(s)}]>>]
    <3>1. CASE s = {}
      BY <2>5, <3>1 DEF value
    <3>2. CASE s # {}
      <4>1. longer[s \ {last(s)}] = iter[s \ {last(s)}]
        BY <2>2, <2>4, <2>5, <3>2
      <4> QED
        BY <2>5, <3>2, <4>1 DEF value
    <3> QED
      BY <3>1, <3>2
  <2> QED
    BY <2>5, <2>6 DEF Folds, P, last
<1> HIDE DEF T
<1>3. T = Nat
  <2>1. T \in SUBSET Nat
    BY DEF T
  <2> QED
    BY <1>1, <1>2, <2>1, InductionOnNat
<1>4. l \in T /\ l <= l
  BY <1>3
<1> HIDE DEF Exists
<1>5. Exists(l)
  BY <1>4 DEF T
<1> QED
  BY <1>5 DEF Exists

(* The positions up to k, taken from the last.                                *)
LEMMA MaxOfPositions ==
    ASSUME NEW k \in Nat
    PROVE  /\ 1 .. 0 = {}
           /\ 1 .. k + 1 # {} /\ Max(1 .. k + 1) = k + 1
           /\ (1 .. k + 1) \ {k + 1} = 1 .. k
<1> DEFINE m == k + 1
           s == 1 .. m
<1>1. k + 1 \in 1 .. k + 1
  OBVIOUS
<1>2. Max(1 .. k + 1) \in 1 .. k + 1 /\ \A i \in 1 .. k + 1 : i <= Max(1 .. k + 1)
  <2>1. m \in Nat /\ s \in SUBSET (1 .. m) /\ s # {}
    BY <1>1
  <2> HIDE DEF m, s
  <2>2. Max(s) \in s /\ \A i \in s : i <= Max(s)
    BY <2>1, MaxIsGreatest, Zenon
  <2> QED
    BY <2>2 DEF m, s
<1>3. Max(1 .. k + 1) = k + 1
  BY <1>1, <1>2
<1> QED
  BY <1>3
=============================================================================
