---------------------------- MODULE DeepRecursion ----------------------------
(***************************************************************************)
(* Recursion over things that are made of parts: a function whose value of *)
(* a thing is made from its values of the parts.  The library states such  *)
(* theorems with an operator as a parameter of the theorem; here it is one *)
(* of the module, so that an INSTANCE can name it.                         *)
(***************************************************************************)
EXTENDS Induction

CONSTANTS
  Things,        \* the arguments of the function
  Parts(_),      \* the things a thing is made of
  Depth,         \* how deep: a part is less deep than what it is a part of
  Body(_, _)     \* the value of a thing, given the values of its parts

Descends ==
  /\ Depth \in [Things -> Nat]
  /\ \A x \in Things : \A y \in Parts(x) : y \in Things /\ Depth[y] < Depth[x]

OfParts(f, x) == [y \in Parts(x) |-> f[y]]

Recurs(f) == f = [x \in Things |-> Body(x, OfParts(f, x))]

(* S holds a thing when it holds its parts.                                *)
Inherited(S) == \A x \in Things : (\A y \in Parts(x) : y \in S) => x \in S

LEMMA DeepInduction ==
  ASSUME Descends, NEW S, Inherited(S)
  PROVE  \A x \in Things : x \in S
<1> USE DEF Descends, Inherited
<1> DEFINE N == {n \in Nat : \A x \in Things : Depth[x] < n => x \in S}
<1>1. 0 \in N
  OBVIOUS
<1>2. ASSUME NEW n \in Nat, n \in N PROVE n + 1 \in N
  <2> SUFFICES ASSUME NEW x \in Things, Depth[x] < n + 1 PROVE x \in S
    OBVIOUS
  <2>1. \A y \in Parts(x) : y \in Things /\ Depth[y] < n
    OBVIOUS
  <2> QED
    BY <1>2, <2>1
<1> HIDE DEF N
<1>3. \A n \in Nat : n \in N
  BY <1>1, <1>2, SetInduction
<1> SUFFICES ASSUME NEW x \in Things PROVE x \in S
  OBVIOUS
<1>4. Depth[x] + 1 \in N /\ Depth[x] < Depth[x] + 1
  BY <1>3
<1> QED
  BY <1>4 DEF N

(* The things less deep than n, and a function that recurs on them.        *)
Shallow(n) == {x \in Things : Depth[x] < n}

RecursTo(n, f) == f = [x \in Shallow(n) |-> Body(x, OfParts(f, x))]

LEMMA SameParts ==
  ASSUME NEW f, NEW g, NEW x, \A y \in Parts(x) : f[y] = g[y]
  PROVE  OfParts(f, x) = OfParts(g, x)
  BY DEF OfParts

LEMMA Unique ==
  ASSUME Descends, NEW n \in Nat, NEW f, NEW g, RecursTo(n, f),
         NEW m \in Nat, RecursTo(m, g)
  PROVE  \A x \in Shallow(n) : x \in Shallow(m) => f[x] = g[x]
<1> DEFINE S == {x \in Things : x \in Shallow(n) /\ x \in Shallow(m) => f[x] = g[x]}
<1>1. Inherited(S)
  <2> SUFFICES ASSUME NEW x \in Things, \A y \in Parts(x) : y \in S,
                      x \in Shallow(n), x \in Shallow(m)
               PROVE  f[x] = g[x]
    BY DEF Inherited
  <2>1. \A y \in Parts(x) : f[y] = g[y]
    BY DEF Descends, Shallow
  <2>2. OfParts(f, x) = OfParts(g, x)
    BY <2>1, SameParts
  <2>3. f[x] = Body(x, OfParts(f, x)) /\ g[x] = Body(x, OfParts(g, x))
    BY DEF RecursTo
  <2> QED
    BY <2>2, <2>3
<1> HIDE DEF S
<1>2. \A x \in Things : x \in S
  BY <1>1, DeepInduction
<1> QED
  BY <1>2 DEF S, Shallow

LEMMA Approximated ==
  ASSUME Descends
  PROVE  \A n \in Nat : \E f : RecursTo(n, f)
<1> DEFINE N == {n \in Nat : \E f : RecursTo(n, f)}
<1>1. 0 \in N
  <2> DEFINE f == [x \in {} |-> x]
  <2>1. Shallow(0) = {}
    BY DEF Descends, Shallow
  <2>2. f = [x \in {} |-> Body(x, OfParts(f, x))]
    OBVIOUS
  <2> HIDE DEF f
  <2>3. RecursTo(0, f)
    BY <2>1, <2>2 DEF RecursTo
  <2> QED
    BY <2>3
<1>2. ASSUME NEW n \in Nat, n \in N PROVE n + 1 \in N
  <2>1. PICK f : RecursTo(n, f)
    BY <1>2
  <2> DEFINE g == [x \in Shallow(n + 1) |-> Body(x, OfParts(f, x))]
  <2>2. ASSUME NEW x \in Shallow(n + 1) PROVE OfParts(f, x) = OfParts(g, x)
    <3>1. ASSUME NEW y \in Parts(x) PROVE f[y] = g[y]
      <4>1. y \in Shallow(n) /\ y \in Shallow(n + 1)
        BY DEF Shallow, Descends
      <4> QED
        BY <2>1, <4>1 DEF RecursTo
    <3> HIDE DEF g
    <3> QED
      BY <3>1, SameParts
  <2>3. g = [x \in Shallow(n + 1) |-> Body(x, OfParts(g, x))]
    <3>1. \A x \in Shallow(n + 1) : Body(x, OfParts(f, x)) = Body(x, OfParts(g, x))
      <4> HIDE DEF g
      <4> QED
        BY <2>2
    <3> DEFINE h == [x \in Shallow(n + 1) |-> Body(x, OfParts(g, x))]
    <3>2. \A x \in Shallow(n + 1) : g[x] = h[x]
      BY <3>1
    <3> QED
      BY <3>2
  <2> HIDE DEF g
  <2>4. RecursTo(n + 1, g)
    BY <2>3 DEF RecursTo
  <2> QED
    BY <2>4
<1> HIDE DEF N
<1>3. \A n \in Nat : n \in N
  BY <1>1, <1>2, SetInduction
<1> QED
  BY <1>3 DEF N

(* There is a function that recurs on all things.                          *)
LEMMA RecursionExists ==
  ASSUME Descends
  PROVE  \E f : Recurs(f)
<1> DEFINE F == [n \in Nat |-> CHOOSE f : RecursTo(n, f)]
           f == [x \in Things |-> F[Depth[x] + 1][x]]
<1>1. \A n \in Nat : RecursTo(n, F[n])
  BY Approximated
<1> HIDE DEF F
<1>2. ASSUME NEW x \in Things PROVE f[x] = Body(x, OfParts(f, x))
  <2> DEFINE n == Depth[x] + 1
             g == F[n]
  <2>1. n \in Nat /\ x \in Shallow(n)
    BY DEF Descends, Shallow
  <2>2. RecursTo(n, g)
    BY <1>1, <2>1
  <2>3. ASSUME NEW y \in Parts(x) PROVE g[y] = f[y]
    <3> DEFINE m == Depth[y] + 1
               h == F[m]
    <3>1. m \in Nat /\ y \in Things /\ y \in Shallow(m) /\ y \in Shallow(n)
      BY DEF Descends, Shallow
    <3>2. RecursTo(m, h)
      BY <1>1, <3>1
    <3>3. f[y] = h[y]
      BY <3>1
    <3> HIDE DEF f, g, h, m, n
    <3>4. g[y] = h[y]
      BY <2>1, <2>2, <3>1, <3>2, Unique
    <3> QED
      BY <3>3, <3>4
  <2>4. f[x] = g[x]
    OBVIOUS
  <2> HIDE DEF f, g, n
  <2>5. OfParts(g, x) = OfParts(f, x)
    BY <2>3, SameParts
  <2>6. g[x] = Body(x, OfParts(g, x))
    BY <2>1, <2>2 DEF RecursTo
  <2> QED
    BY <2>4, <2>5, <2>6
<1> DEFINE h == [x \in Things |-> Body(x, OfParts(f, x))]
<1>3. \A x \in Things : f[x] = h[x]
  BY <1>2
<1>4. f = h
  BY <1>3
<1> HIDE DEF f
<1> QED
  BY <1>4 DEF Recurs
================================================================================
