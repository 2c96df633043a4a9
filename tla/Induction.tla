------------------------------- MODULE Induction -------------------------------
(***************************************************************************)
(* Induction over the natural numbers, stated with sets and functions      *)
(* instead of operators, so that a proof can name the set it is about: the *)
(* numbers for which something holds.  With it what a recursive function   *)
(* computes can be proved: that it exists (Recursion), and that two of     *)
(* them that are built alike are equal (Alike).                            *)
(***************************************************************************)
EXTENDS Integers, WellFoundedInduction, TLAPS

Below == {ss \in Nat \X Nat : ss[1] < ss[2]}

LEMMA BelowWellFounded == IsWellFoundedOn(Below, Nat)
  BY NatLessThanWellFounded DEF OpToRel, Below

LEMMA Smallest ==
  ASSUME NEW T \in SUBSET Nat, T # {}
  PROVE  \E x \in T : \A y \in T : x <= y
<1>1. PICK x \in T : \A y \in T : ~ (<<y, x>> \in Below)
  BY BelowWellFounded, WFMin
<1>2. \A y \in T : ~ (y < x)
  BY <1>1 DEF Below
<1> QED
  BY <1>2

LEMMA SetInduction ==
  ASSUME NEW S, 0 \in S, \A n \in Nat : n \in S => n + 1 \in S
  PROVE  \A n \in Nat : n \in S
<1> DEFINE T == Nat \ S
<1>1. CASE T = {}
  BY <1>1
<1>2. CASE T # {}
  <2>1. PICK x \in T : \A y \in T : x <= y
    BY <1>2, Smallest
  <2>2. x - 1 \in Nat /\ x - 1 \notin T
    BY <2>1
  <2>3. x - 1 + 1 \in S
    BY <2>2
  <2> QED
    BY <2>1, <2>3
<1> QED
  BY <1>1, <1>2

(* The hypotheses and conclusions of the next two lemmas have names, to be *)
(* left unexpanded where the lemmas are cited.                             *)

(* f and g start alike, and go on alike up to n.                           *)
GoOnAlike(f, g, n) ==
  /\ n \in Nat /\ f[0] = g[0]
  /\ \A m \in 1 .. n : f[m - 1] = g[m - 1] => f[m] = g[m]

AlikeUpTo(f, g, n) == \A m \in 0 .. n : f[m] = g[m]

LEMMA Alike ==
  ASSUME NEW f, NEW g, NEW n, GoOnAlike(f, g, n)
  PROVE  AlikeUpTo(f, g, n)
<1> USE DEF GoOnAlike, AlikeUpTo
<1> DEFINE S == {m \in Nat : m <= n => f[m] = g[m]}
<1>1. 0 \in S
  OBVIOUS
<1>2. ASSUME NEW m \in Nat, m \in S PROVE m + 1 \in S
  <2>1. m + 1 <= n => m + 1 \in 1 .. n /\ m + 1 - 1 = m
    OBVIOUS
  <2> QED
    BY <1>2, <2>1
<1> HIDE DEF S
<1>3. \A m \in Nat : m \in S
  BY <1>1, <1>2, SetInduction
<1> QED
  BY <1>3 DEF S

(* F makes the m-th value from the one before and m; the first is a.       *)
Rule(F, a, V) == a \in V /\ F \in [V \X Nat -> V]

Follows(f, F, a, V) == /\ f \in [Nat -> V] /\ f[0] = a
                       /\ \A m \in Nat : f[m + 1] = F[<<f[m], m + 1>>]

LEMMA Recursion ==
  ASSUME NEW V, NEW a, NEW F, Rule(F, a, V)
  PROVE  \E f : Follows(f, F, a, V)
<1>0. a \in V /\ F \in [V \X Nat -> V]
  BY DEF Rule
<1> DEFINE Starts(n, g) == /\ g \in [0 .. n -> V] /\ g[0] = a
                           /\ \A m \in 1 .. n : g[m] = F[<<g[m - 1], m>>]
           S == {n \in Nat : \E g \in [0 .. n -> V] : Starts(n, g)}
<1>1. 0 \in S
  <2> DEFINE g == [m \in 0 .. 0 |-> a]
  <2>1. Starts(0, g)
    BY <1>0
  <2> QED
    BY <2>1
<1>2. ASSUME NEW n \in Nat, n \in S PROVE n + 1 \in S
  <2>1. PICK g \in [0 .. n -> V] : Starts(n, g)
    BY <1>2
  <2> DEFINE v == F[<<g[n], n + 1>>]
             h == [m \in 0 .. n + 1 |-> IF m = n + 1 THEN v ELSE g[m]]
  <2>2. g[n] \in V /\ n + 1 \in Nat /\ v \in V
    BY <1>0
  <2>3. h \in [0 .. n + 1 -> V]
    BY <2>2
  <2>4. h[0] = a
    BY <2>1
  <2>5. ASSUME NEW m \in 1 .. n + 1 PROVE h[m] = F[<<h[m - 1], m>>]
    <3>1. m - 1 \in 0 .. n + 1 /\ m \in 0 .. n + 1 /\ m - 1 # n + 1
      OBVIOUS
    <3>2. h[m - 1] = g[m - 1]
      BY <3>1
    <3>3. CASE m = n + 1
      <4>1. m - 1 = n /\ h[m] = v
        BY <3>1, <3>3
      <4> QED
        BY <3>2, <3>3, <4>1
    <3>4. CASE m # n + 1
      <4>1. m \in 1 .. n /\ h[m] = g[m]
        BY <3>1, <3>4
      <4> QED
        BY <2>1, <3>2, <4>1
    <3> QED
      BY <3>3, <3>4
  <2> HIDE DEF h
  <2>6. Starts(n + 1, h)
    BY <2>3, <2>4, <2>5
  <2> QED
    BY <2>3, <2>6
<1> HIDE DEF S
<1>3. \A n \in Nat : n \in S
  BY <1>1, <1>2, SetInduction
<1> USE DEF S
<1> DEFINE G == [n \in Nat |-> CHOOSE g \in [0 .. n -> V] : Starts(n, g)]
           f == [n \in Nat |-> G[n][n]]
<1>4. \A n \in Nat : Starts(n, G[n])
  BY <1>3
<1> HIDE DEF G, S
<1>5. f \in [Nat -> V]
  BY <1>4
<1>6. f[0] = a
  BY <1>4
<1>7. ASSUME NEW n \in Nat
      PROVE  G[n + 1][n] = G[n][n] /\ f[n + 1] = F[<<f[n], n + 1>>]
  <2> DEFINE p == G[n + 1]
             q == G[n]
  <2>1. n + 1 \in Nat /\ n + 1 \in 1 .. n + 1 /\ n + 1 - 1 = n
    OBVIOUS
  <2>2. Starts(n, q) /\ Starts(n + 1, p)
    BY <1>4, <2>1
  <2> HIDE DEF p, q, f
  <2>3. GoOnAlike(p, q, n)
    <3>1. 1 .. n \subseteq 1 .. n + 1
      OBVIOUS
    <3> QED
      BY <2>2, <3>1 DEF GoOnAlike
  <2>4. AlikeUpTo(p, q, n)
    BY <2>3, Alike
  <2>5. p[n] = q[n]
    BY <2>4 DEF AlikeUpTo
  <2>6. p[n + 1] = F[<<p[n], n + 1>>]
    BY <2>1, <2>2
  <2> QED
    BY <2>1, <2>5, <2>6 DEF p, q, f
<1> HIDE DEF f
<1> QED
  BY <1>5, <1>6, <1>7 DEF Follows
================================================================================
