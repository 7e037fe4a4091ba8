------------------------------ MODULE Induction ------------------------------
(***************************************************************************)
(* Induction over the natural numbers with sets instead of predicates, so  *)
(* that the provers can use it, and the existence of functions that are    *)
(* defined step by step.                                                   *)
(***************************************************************************)
EXTENDS Integers, WellFoundedInduction, TLAPS

\* A set of natural numbers has a least one.
LEMMA LeastNat ==
    ASSUME NEW S \in SUBSET Nat, S # {}
    PROVE  \E n \in S : \A m \in S : n <= m
<1> DEFINE R == {ss \in Nat \X Nat : ss[1] < ss[2]}
<1>1. IsWellFoundedOn(R, Nat)
  BY NatLessThanWellFounded DEF OpToRel
<1>2. \A m, n \in Nat : m < n => <<m, n>> \in R
  OBVIOUS
<1> HIDE DEF R
<1>3. PICK n \in S : \A m \in S : ~ (<<m, n>> \in R)
  BY <1>1, WFMin
<1>4. ASSUME NEW m \in S PROVE n <= m
  <2>1. n \in Nat /\ m \in Nat
    OBVIOUS
  <2>2. ~ (m < n)
    BY <1>2, <1>3, <2>1
  <2> QED
    BY <2>1, <2>2
<1> QED
  BY <1>4

\* Induction: what holds at 0 and goes on holding holds up to any bound.
LEMMA Upwards ==
    ASSUME NEW L \in Nat, NEW S,
           0 \in S,
           \A n \in 0 .. L - 1 : n \in S => n + 1 \in S
    PROVE  \A n \in 0 .. L : n \in S
<1> DEFINE Bad == {n \in 0 .. L : n \notin S}
<1> SUFFICES ASSUME Bad # {} PROVE FALSE
  OBVIOUS
<1>1. PICK n \in Bad : \A m \in Bad : n <= m
  <2>1. Bad \in SUBSET Nat
    OBVIOUS
  <2> QED
    BY <2>1, LeastNat
<1>2. n \in 1 .. L /\ n - 1 \in 0 .. L - 1
  BY <1>1
<1>3. n - 1 \in S
  BY <1>1, <1>2
<1>4. (n - 1) + 1 \in S
  BY <1>2, <1>3
<1> QED
  BY <1>1, <1>2, <1>4

\* A function can be built from its first value and a step to each next one.
LEMMA Iteration ==
    ASSUME NEW X, NEW x0 \in X, NEW L \in Nat, NEW step \in [1 .. L -> [X -> X]]
    PROVE  \E g \in [0 .. L -> X] :
              /\ g[0] = x0
              /\ \A n \in 1 .. L : g[n] = step[n][g[n - 1]]
<1> DEFINE Good(g, k) == g[0] = x0 /\ \A n \in 1 .. k : g[n] = step[n][g[n - 1]]
           S == {k \in 0 .. L : \E g \in [0 .. L -> X] : Good(g, k)}
<1>1. 0 \in S
  <2> DEFINE h == [n \in 0 .. L |-> x0]
  <2>1. h \in [0 .. L -> X]
    OBVIOUS
  <2>2. h[0] = x0 /\ 1 .. 0 = {}
    OBVIOUS
  <2>3. Good(h, 0)
    BY <2>2
  <2>4. \E g \in [0 .. L -> X] : Good(g, 0)
    BY <2>1, <2>3
  <2> QED
    BY <2>4
<1>2. ASSUME NEW k \in 0 .. L - 1, k \in S PROVE k + 1 \in S
  <2>1. PICK g \in [0 .. L -> X] : Good(g, k)
    BY <1>2
  <2> DEFINE h == [n \in 0 .. L |-> IF n = k + 1 THEN step[k + 1][g[k]] ELSE g[n]]
  <2>2. h \in [0 .. L -> X]
    OBVIOUS
  <2>3. h[0] = x0
    BY <2>1
  <2>4. ASSUME NEW n \in 1 .. k + 1 PROVE h[n] = step[n][h[n - 1]]
    <3>1. n - 1 \in 0 .. k /\ n \in 0 .. L /\ n - 1 \in 0 .. L /\ n - 1 # k + 1
      OBVIOUS
    <3>2. h[n - 1] = g[n - 1]
      BY <3>1
    <3>3. CASE n = k + 1
      BY <3>1, <3>2, <3>3
    <3>4. CASE n # k + 1
      <4>1. n \in 1 .. k
        BY <3>4
      <4>2. g[n] = step[n][g[n - 1]]
        BY <2>1, <4>1
      <4> QED
        BY <3>1, <3>2, <3>4, <4>2
    <3> QED
      BY <3>3, <3>4
  <2>5. Good(h, k + 1)
    BY <2>3, <2>4
  <2>6. \E f \in [0 .. L -> X] : Good(f, k + 1)
    <3> HIDE DEF h, Good
    <3> QED
      BY <2>2, <2>5
  <2> QED
    BY <2>6
<1>3. L \in S
  <2>1. \A n \in 0 .. L : n \in S
    <3> HIDE DEF S
    <3> QED
      BY <1>1, <1>2, Upwards
  <2> QED
    BY <2>1
<1> QED
  BY <1>3
==============================================================================
