---------------------------- MODULE NaturalLemmas ----------------------------
(***************************************************************************)
(* The least-number principle for sets and definition by recursion, which  *)
(* the proofs use where a fact about a counter, a length, a suffix or a    *)
(* loop needs an induction.                                                *)
(***************************************************************************)
EXTENDS Integers, WellFoundedInduction, TLAPS

(* A set of natural numbers that has an element has a least one: the first *)
(* free suffix of create_bag_dir exists, and the first message at which a  *)
(* sum over the queue could go wrong.                                      *)
LEMMA LeastNumber ==
  ASSUME NEW S \in SUBSET Nat, S # {}
  PROVE  \E n \in S : \A m \in S : n <= m
<1> DEFINE Less == {p \in Nat \X Nat : p[1] < p[2]}
<1>1. IsWellFoundedOn(Less, Nat)
  BY NatLessThanWellFounded DEF OpToRel
<1>2. \E n \in S : \A m \in S : <<m, n>> \notin Less
  <2> HIDE DEF Less
  <2> QED
    BY <1>1, WFMin
<1>3. \A n, m \in S : <<m, n>> \notin Less => n <= m
  OBVIOUS
<1> QED
  BY <1>2, <1>3

(* f is defined by recursion on the numbers up to n.                       *)
Recursion(f, a, next, n, T) ==
    /\ f \in [0 .. n -> T]
    /\ f[0] = a
    /\ \A k \in 1 .. n : f[k] = next[<<k, f[k - 1]>>]

(* A function may be defined by recursion on the numbers up to n, each     *)
(* value from the one before: so are the loops that build the topic table, *)
(* cut it back, and append the sections of a contract.                     *)
LEMMA RecursionExists ==
  ASSUME NEW T, NEW a \in T, NEW next \in [Nat \X T -> T], NEW n \in Nat
  PROVE  \E f : Recursion(f, a, next, n, T)
<1> USE DEF Recursion
<1> DEFINE Upto(f, m) == Recursion(f, a, next, m, T)
           Bad == {m \in Nat : ~\E f : Upto(f, m)}
<1> SUFFICES ASSUME Bad # {} PROVE FALSE
  OBVIOUS
<1>1. PICK m \in Bad : \A j \in Bad : m <= j
  <2> Bad \in SUBSET Nat
    OBVIOUS
  <2> HIDE DEF Bad
  <2> QED
    BY LeastNumber
<1>2. m # 0
  <2>1. Upto([k \in 0 .. 0 |-> a], 0)
    OBVIOUS
  <2> QED
    BY <2>1
<1>3. m - 1 \in Nat /\ m - 1 \notin Bad
  BY <1>1, <1>2
<1>4. PICK f : Upto(f, m - 1)
  BY <1>3
<1> DEFINE g == [k \in 0 .. m |-> IF k = m THEN next[<<m, f[m - 1]>>] ELSE f[k]]
<1>5. f[m - 1] \in T /\ next[<<m, f[m - 1]>>] \in T
  <2>1. m - 1 \in 0 .. m - 1
    BY <1>3
  <2>2. f[m - 1] \in T
    BY <1>4, <2>1
  <2> QED
    BY <2>2
<1>6. Upto(g, m)
  <2>1. g \in [0 .. m -> T]
    <3> SUFFICES ASSUME NEW k \in 0 .. m PROVE (IF k = m THEN next[<<m, f[m - 1]>>] ELSE f[k]) \in T
      OBVIOUS
    <3>1. CASE k = m
      BY <3>1, <1>5
    <3>2. CASE k # m
      <4>1. k \in 0 .. m - 1
        BY <3>2
      <4> QED
        BY <3>2, <4>1, <1>4
    <3> QED
      BY <3>1, <3>2
  <2>2. g[0] = a
    BY <1>2, <1>4
  <2>3. ASSUME NEW k \in 1 .. m PROVE g[k] = next[<<k, g[k - 1]>>]
    <3>1. k \in 0 .. m /\ k - 1 \in 0 .. m /\ k - 1 # m
      OBVIOUS
    <3>2. g[k - 1] = f[k - 1]
      BY <3>1
    <3>3. CASE k = m
      BY <3>1, <3>2, <3>3
    <3>4. CASE k # m
      <4>1. k \in 1 .. m - 1 /\ g[k] = f[k]
        BY <3>1, <3>4
      <4> QED
        BY <3>2, <4>1, <1>4
    <3> QED
      BY <3>3, <3>4
  <2> QED
    BY <2>1, <2>2, <2>3
<1> QED
  BY <1>6

=============================================================================
