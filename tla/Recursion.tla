------------------------------ MODULE Recursion ------------------------------
(***************************************************************************)
(* Induction and recursion in a form the provers can use: about sets and   *)
(* functions, not about predicates and operators. The proofs about the     *)
(* functions on chains of blocks and on sequences of transactions rest on  *)
(* the lemmas Induction, RankInduction and Recursive.                      *)
(***************************************************************************)
EXTENDS Integers, Sequences, WellFoundedInduction, TLAPS

\* A set of numbers that is not empty has a least element.
LEMMA LeastNumber ==
    ASSUME NEW S, S \subseteq Nat, S # {}
    PROVE  \E n \in S : \A m \in S : n <= m
<1>1. PICK x \in S : \A y \in S : <<y, x>> \notin OpToRel(<, Nat)
  BY NatLessThanWellFounded, WFMin
<1>2. ASSUME NEW y \in S PROVE x <= y
  <2>1. <<y, x>> \in Nat \X Nat
    OBVIOUS
  <2>2. ~(y < x)
    BY <1>1, <2>1 DEF OpToRel
  <2> QED BY <2>2
<1> QED BY <1>2

\* What holds at 0 and goes on from each number to the next holds everywhere. P is the set of
\* the numbers it holds of.
LEMMA Induction ==
    ASSUME NEW P, 0 \in P, \A n \in Nat : n \in P => n + 1 \in P
    PROVE  Nat \subseteq P
<1> SUFFICES ASSUME Nat \ P # {} PROVE FALSE
  OBVIOUS
<1>1. PICK n \in Nat \ P : \A m \in Nat \ P : n <= m
  BY LeastNumber
<1>2. n - 1 \in Nat /\ n - 1 \in P
  BY <1>1
<1> QED BY <1>1, <1>2

\* The same for a set ranked by numbers: what holds of an element whenever it holds of all those
\* of lower rank holds of every element.
LEMMA RankInduction ==
    ASSUME NEW D, NEW rank \in [D -> Nat], NEW P,
           \A d \in D : (\A e \in D : rank[e] < rank[d] => e \in P) => d \in P
    PROVE  D \subseteq P
<1> SUFFICES ASSUME D \ P # {} PROVE FALSE
  OBVIOUS
<1> DEFINE R == {rank[d] : d \in D \ P}
<1>1. PICK n \in R : \A m \in R : n <= m
  <2>1. R \subseteq Nat /\ R # {}
    OBVIOUS
  <2> HIDE DEF R
  <2> QED BY <2>1, LeastNumber
<1>2. PICK d \in D \ P : n = rank[d]
  OBVIOUS
<1>3. \A e \in D : rank[e] < rank[d] => e \in P
  BY <1>1, <1>2
<1> QED BY <1>2, <1>3

-----------------------------------------------------------------------------
(* A function that is given on a part of its domain and otherwise computed  *)
(* from its value at an element of lower rank: next names that element, and *)
(* step the value. There is one such function.                              *)

Computes(f, D, base, given, next, step) ==
    \A d \in D : f[d] = IF d \in base THEN given[d] ELSE step[<<d, f[next[d]]>>]

\* The same for the elements whose rank is below n.
ComputesBelow(n, f, D, base, rank, given, next, step) ==
    \A d \in D : rank[d] < n => f[d] = IF d \in base THEN given[d] ELSE step[<<d, f[next[d]]>>]

Descends(D, base, rank, next) ==
    /\ rank \in [D -> Nat]
    /\ \A d \in D \ base : next[d] \in D /\ rank[next[d]] < rank[d]

\* Two functions that are computed the same way up to some rank agree up to it.
LEMMA Agree ==
    ASSUME NEW D, NEW base, NEW rank, NEW next, Descends(D, base, rank, next),
           NEW given, NEW step, NEW f, NEW g, NEW n \in Nat,
           ComputesBelow(n, f, D, base, rank, given, next, step),
           ComputesBelow(n, g, D, base, rank, given, next, step)
    PROVE  \A d \in D : rank[d] < n => f[d] = g[d]
<1> DEFINE P == {d \in D : rank[d] < n => f[d] = g[d]}
<1>1. ASSUME NEW d \in D, \A e \in D : rank[e] < rank[d] => e \in P PROVE d \in P
  <2>1. ASSUME rank[d] < n PROVE f[d] = g[d]
    <3>1. CASE d \in base
      BY <2>1, <3>1 DEF ComputesBelow
    <3>2. CASE d \notin base
      <4>1. next[d] \in D /\ rank[next[d]] < rank[d]
        BY <3>2 DEF Descends
      <4>2. rank[d] \in Nat /\ rank[next[d]] \in Nat
        BY <4>1 DEF Descends
      <4>3. f[next[d]] = g[next[d]]
        BY <1>1, <2>1, <4>1, <4>2
      <4> QED BY <2>1, <3>2, <4>3 DEF ComputesBelow
    <3> QED BY <3>1, <3>2
  <2> QED BY <2>1
<1> HIDE DEF P
<1>2. D \subseteq P
  BY <1>1, RankInduction DEF Descends
<1> QED BY <1>2 DEF P

\* Up to any rank there is one.
LEMMA RecursiveUpTo ==
    ASSUME NEW D, NEW V, NEW base, NEW rank, NEW next, Descends(D, base, rank, next),
           NEW given, \A d \in D \cap base : given[d] \in V,
           NEW step, \A d \in D \ base, v \in V : step[<<d, v>>] \in V,
           NEW v0 \in V, NEW n \in Nat
    PROVE  \E f \in [D -> V] : ComputesBelow(n, f, D, base, rank, given, next, step)
<1> DEFINE Good(f, m) == ComputesBelow(m, f, D, base, rank, given, next, step)
           P == {m \in Nat : \E f \in [D -> V] : Good(f, m)}
<1>1. 0 \in P
  <2>1. [d \in D |-> v0] \in [D -> V]
    OBVIOUS
  <2>2. Good([d \in D |-> v0], 0)
    BY DEF Descends, ComputesBelow
  <2> QED BY <2>1, <2>2
<1>2. ASSUME NEW m \in Nat, m \in P PROVE m + 1 \in P
  <2>1. PICK f \in [D -> V] : Good(f, m)
    BY <1>2
  <2> DEFINE h == [d \in D |-> IF rank[d] < m THEN f[d]
                               ELSE IF d \in base THEN given[d] ELSE step[<<d, f[next[d]]>>]]
  <2>2. h \in [D -> V]
    <3>1. ASSUME NEW d \in D PROVE h[d] \in V
      BY DEF Descends
    <3> QED BY <3>1
  <2>3. ASSUME NEW d \in D, rank[d] < m + 1
        PROVE  h[d] = IF d \in base THEN given[d] ELSE step[<<d, h[next[d]]>>]
    <3>1. rank[d] \in Nat
      BY DEF Descends
    <3>2. h[d] = IF d \in base THEN given[d] ELSE step[<<d, f[next[d]]>>]
      BY <2>1 DEF ComputesBelow
    <3>3. CASE d \in base
      BY <3>2, <3>3
    <3>4. CASE d \notin base
      <4>1. next[d] \in D /\ rank[next[d]] < rank[d] /\ rank[next[d]] \in Nat
        BY <3>4 DEF Descends
      <4>2. h[next[d]] = f[next[d]]
        BY <2>3, <3>1, <4>1
      <4> HIDE DEF h
      <4> QED BY <3>2, <3>4, <4>2
    <3> QED BY <3>3, <3>4
  <2> HIDE DEF h
  <2>4. Good(h, m + 1)
    BY <2>3 DEF ComputesBelow
  <2> QED BY <2>2, <2>4
<1> HIDE DEF P
<1>3. n \in P
  BY <1>1, <1>2, Induction
<1> QED BY <1>3 DEF P

\* And so there is one on the whole domain.
LEMMA Recursive ==
    ASSUME NEW D, NEW V, V # {}, NEW base, NEW rank, NEW next, Descends(D, base, rank, next),
           NEW given, \A d \in D \cap base : given[d] \in V,
           NEW step, \A d \in D \ base, v \in V : step[<<d, v>>] \in V
    PROVE  \E f \in [D -> V] : Computes(f, D, base, given, next, step)
<1>1. PICK v0 : v0 \in V
  OBVIOUS
<1> DEFINE Good(f, m) == ComputesBelow(m, f, D, base, rank, given, next, step)
           up == [m \in Nat |-> CHOOSE f \in [D -> V] : Good(f, m)]
           g == [d \in D |-> up[rank[d] + 1][d]]
<1>2. ASSUME NEW m \in Nat PROVE up[m] \in [D -> V] /\ Good(up[m], m)
  <2>1. \E f \in [D -> V] : Good(f, m)
    BY <1>1, RecursiveUpTo
  <2> QED BY <2>1
<1>3. \A d \in D : rank[d] \in Nat /\ rank[d] + 1 \in Nat
  BY DEF Descends
<1> HIDE DEF up
<1>4. g \in [D -> V]
  BY <1>2, <1>3
<1>5. ASSUME NEW d \in D
      PROVE  g[d] = IF d \in base THEN given[d] ELSE step[<<d, g[next[d]]>>]
  <2>1. up[rank[d] + 1][d] = IF d \in base THEN given[d]
                             ELSE step[<<d, up[rank[d] + 1][next[d]]>>]
    BY <1>2, <1>3 DEF ComputesBelow
  <2>2. CASE d \in base
    BY <2>1, <2>2
  <2>3. CASE d \notin base
    <3> DEFINE e == next[d]
    <3>1. e \in D /\ rank[e] < rank[d]
      BY <2>3 DEF Descends
    <3>2. Good(up[rank[e] + 1], rank[e] + 1) /\ Good(up[rank[d] + 1], rank[d] + 1)
      BY <1>2, <1>3, <3>1
    <3>3. Good(up[rank[d] + 1], rank[e] + 1)
      BY <1>3, <3>1, <3>2 DEF ComputesBelow
    <3>4. rank[e] < rank[e] + 1
      BY <1>3, <3>1
    <3> HIDE DEF e
    <3>5. \A c \in D : rank[c] < rank[e] + 1 => up[rank[e] + 1][c] = up[rank[d] + 1][c]
      BY <1>3, <3>1, <3>2, <3>3, Agree
    <3>6. up[rank[e] + 1][e] = up[rank[d] + 1][e]
      BY <3>1, <3>4, <3>5
    <3>7. g[e] = up[rank[d] + 1][e]
      BY <3>1, <3>6
    <3> QED BY <2>1, <2>3, <3>7 DEF e
  <2> QED BY <2>2, <2>3
<1> HIDE DEF g
<1> QED BY <1>4, <1>5 DEF Computes

\* In particular a loop that runs n times has its values after each turn: first before the first
\* one, and step[<<i, v>>] after the i-th one if it was v before.
Turns(f, n, first, step) ==
    \A i \in 0..n : f[i] = IF i = 0 THEN first ELSE step[<<i, f[i - 1]>>]

LEMMA Loop ==
    ASSUME NEW n \in Nat, NEW V, NEW first \in V,
           NEW step, \A i \in 1..n, v \in V : step[<<i, v>>] \in V
    PROVE  \E f \in [0..n -> V] : Turns(f, n, first, step)
<1> DEFINE D == 0..n
           rank == [i \in D |-> i]
           next == [i \in D |-> i - 1]
           given == [i \in D |-> first]
<1>1. Descends(D, {0}, rank, next)
  BY DEF Descends
<1>2. \A i \in D \ {0}, v \in V : step[<<i, v>>] \in V
  <2>1. \A i \in D \ {0} : i \in 1..n
    OBVIOUS
  <2> QED BY <2>1
<1>3. \A i \in D \cap {0} : given[i] \in V
  OBVIOUS
<1> HIDE DEF rank, given
<1>4. \E f \in [D -> V] : Computes(f, D, {0}, given, next, step)
  <2> HIDE DEF D, next
  <2> QED BY <1>1, <1>2, <1>3, Recursive
<1> QED BY <1>4 DEF Computes, given, Turns

-----------------------------------------------------------------------------
(* Sequences that such a function puts together.                            *)

\* One element as a sequence.
LEMMA Single ==
    ASSUME NEW T, NEW x \in T
    PROVE  <<x>> \in Seq(T) /\ Len(<<x>>) = 1 /\ <<x>>[1] = x
  OBVIOUS

\* And in front of a sequence.
LEMMA Prepend ==
    ASSUME NEW T, NEW x \in T, NEW s \in Seq(T)
    PROVE  /\ <<x>> \o s \in Seq(T) /\ Len(<<x>> \o s) = Len(s) + 1 /\ (<<x>> \o s)[1] = x
           /\ \A i \in 2..(Len(s) + 1) : (<<x>> \o s)[i] = s[i - 1]
<1>1. <<x>> \in Seq(T) /\ Len(<<x>>) = 1 /\ <<x>>[1] = x
  OBVIOUS
<1>2. <<x>> \o s \in Seq(T)
  BY <1>1
<1> QED BY <1>1, <1>2
=============================================================================
