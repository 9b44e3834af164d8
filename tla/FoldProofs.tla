----------------------------- MODULE FoldProofs -----------------------------
(***************************************************************************)
(* Folds over lists of any length.  The tick of MockCluster, its sends and *)
(* its pipeline of interceptors are folds; what is proved of them is       *)
(* proved along the values a fold goes through.  Op takes two parameters   *)
(* of the fold besides the value so far and the next element.              *)
(***************************************************************************)
EXTENDS Integers, Sequences, FiniteSetsExt, WellFoundedInduction, TLAPS

CONSTANT Op(_, _, _, _)

\* Induction over the naturals, for a set of them: of the naturals outside S none
\* is the least.
THEOREM SetInduction ==
    \A S \in SUBSET Nat : 0 \in S /\ (\A n \in S : n + 1 \in S) => \A n \in Nat : n \in S
<1> SUFFICES ASSUME NEW S \in SUBSET Nat, 0 \in S, \A n \in S : n + 1 \in S,
                    NEW m \in Nat, m \notin S
             PROVE  FALSE
    OBVIOUS
<1> DEFINE T == Nat \ S
<1>1. T # {} /\ T \subseteq Nat OBVIOUS
<1>2. IsWellFoundedOn(OpToRel(<, Nat), Nat) BY NatLessThanWellFounded
<1>3. PICK x \in T : \A y \in T : ~(<<y, x>> \in OpToRel(<, Nat)) BY <1>1, <1>2, WFMin, Zenon
<1>4. x \in Nat /\ x # 0 /\ x \notin S BY <1>3
<1>5. x - 1 \in Nat /\ x - 1 < x BY <1>4
<1>6. <<x-1, x>> \in OpToRel(<, Nat) BY <1>4, <1>5 DEF OpToRel
<1>7. x - 1 \in S BY <1>3, <1>6, <1>5
<1>8. (x - 1) + 1 \in S BY <1>7
<1>9. (x - 1) + 1 = x BY <1>4
<1> QED BY <1>8, <1>9, <1>4

\* The greatest number of a set.
Top(S) == CHOOSE x \in S : \A y \in S : x >= y

\* ... which is the bound, where the bound is in the set.
LEMMA MaxOfInterval ==
    ASSUME NEW n \in Nat, NEW s \in SUBSET (1 .. n + 1), n + 1 \in s
    PROVE  Top(s) = n + 1
<1>1. \A y \in s : n + 1 >= y OBVIOUS
<1>2. \A x \in s : (\A y \in s : x >= y) => x = n + 1 OBVIOUS
<1>3. \E x \in s : \A y \in s : x >= y BY <1>1
<1> QED BY <1>2, <1>3 DEF Top

\* The function FoldLeft is defined by: what the fold over a set of positions is.
Iter(c, d, g, base, list, n) ==
   g = [s \in SUBSET (1 .. n) |-> IF s = {} THEN base ELSE Op(c, d, g[s \ {Top(s)}], list[Top(s)])]

\* There is such a function, for lists of any length.
LEMMA IterExists ==
    ASSUME NEW c, NEW d, NEW base, NEW list, NEW m \in Nat
    PROVE  \E g : Iter(c, d, g, base, list, m)
<1> DEFINE S == {n \in Nat : \E g : Iter(c, d, g, base, list, n)}
<1>1. 0 \in S
  <2> DEFINE g == [s \in SUBSET (1 .. 0) |-> base]
  <2>1. \A s \in SUBSET (1 .. 0) : s = {} OBVIOUS
  <2>2. Iter(c, d, g, base, list, 0) BY <2>1 DEF Iter
  <2> QED BY <2>2
<1>2. ASSUME NEW n \in S PROVE n + 1 \in S
  <2>1. PICK g : Iter(c, d, g, base, list, n) OBVIOUS
  <2>0. n \in Nat OBVIOUS
  <2> DEFINE h == [s \in SUBSET (1 .. n+1) |-> IF n + 1 \in s THEN Op(c, d, g[s \ {n+1}], list[n+1]) ELSE g[s]]
  <2>2. ASSUME NEW s \in SUBSET (1 .. n+1)
        PROVE h[s] = IF s = {} THEN base ELSE Op(c, d, h[s \ {Top(s)}], list[Top(s)])
    <3>1. CASE n + 1 \in s
      <4>1. Top(s) = n + 1 BY <3>1, <2>0, MaxOfInterval
      <4>2. s \ {n+1} \in SUBSET (1 .. n+1) /\ n + 1 \notin s \ {n+1} OBVIOUS
      <4>3. h[s \ {n+1}] = g[s \ {n+1}] BY <4>2
      <4> QED BY <3>1, <4>1, <4>3
    <3>2. CASE n + 1 \notin s
      <4>1. s \in SUBSET (1 .. n) BY <2>0, <3>2
      <4>2. h[s] = g[s] BY <3>2
      <4>3. g[s] = IF s = {} THEN base ELSE Op(c, d, g[s \ {Top(s)}], list[Top(s)]) BY <2>1, <4>1 DEF Iter
      <4>4. s \ {Top(s)} \in SUBSET (1 .. n+1) /\ n + 1 \notin s \ {Top(s)} BY <3>2
      <4>5. h[s \ {Top(s)}] = g[s \ {Top(s)}] BY <4>4
      <4> QED BY <4>2, <4>3, <4>5
    <3> QED BY <3>1, <3>2
  <2>3. Iter(c, d, h, base, list, n+1)
    <3>1. h = [s \in SUBSET (1 .. n+1) |-> h[s]] OBVIOUS
    <3> HIDE DEF h
    <3> QED BY <3>1, <2>2 DEF Iter
  <2> QED BY <2>3, <2>0
<1>3. S \in SUBSET Nat OBVIOUS
<1>4. m \in S
  <2> HIDE DEF S
  <2>1. \A k \in S : k + 1 \in S BY <1>2
  <2> QED BY <1>1, <2>1, <1>3, SetInduction
<1> QED BY <1>4

\* FoldLeft of the community modules, with Op for its operator.
Iterate(c, d, base, list) ==
    CHOOSE g : g = [s \in SUBSET DOMAIN list |->
        IF s = {} THEN base ELSE Op(c, d, g[s \ {Top(s)}], list[Top(s)])]

Folded(c, d, base, list) == Iterate(c, d, base, list)[DOMAIN list]

\* The values the fold goes through.
IsRun(c, d, base, list, run) ==
    /\ run[0] = base
    /\ \A k \in DOMAIN list : run[k] = Op(c, d, run[k - 1], list[k])

\* FoldLeft, which the library defines over sets of positions, takes the elements
\* of a list in their order.
THEOREM FoldLeftRuns ==
    \A c, d, base, list : \A n \in Nat :
        DOMAIN list = 1 .. n =>
            \E run : IsRun(c, d, base, list, run) /\ run[n] = Folded(c, d, base, list)
<1> SUFFICES ASSUME NEW c, NEW d, NEW base, NEW list, NEW n \in Nat,
                    DOMAIN list = 1 .. n
             PROVE  \E run : /\ IsRun(c, d, base, list, run)
                             /\ run[n] = Folded(c, d, base, list)
    OBVIOUS
<1> DEFINE it == Iterate(c, d, base, list)
<1>1. Iter(c, d, it, base, list, n)
  <2>1. \E g : g = [s \in SUBSET DOMAIN list |->
        IF s = {} THEN base ELSE Op(c, d, g[s \ {Top(s)}], list[Top(s)])]
    <3>1. PICK g : Iter(c, d, g, base, list, n) BY IterExists
    <3> QED BY <3>1 DEF Iter
  <2>2. it = [s \in SUBSET DOMAIN list |->
        IF s = {} THEN base ELSE Op(c, d, it[s \ {Top(s)}], list[Top(s)])]
     BY <2>1, Zenon DEF Iterate
  <2> QED BY <2>2 DEF Iter
<1> HIDE DEF it
<1>3. it[{}] = base BY <1>1 DEF Iter
<1>4. ASSUME NEW k \in 1 .. n PROVE it[1 .. k] = Op(c, d, it[1 .. (k-1)], list[k])
  <2>0. k \in Int /\ 1 <= k /\ k <= n OBVIOUS
  <2>1. 1 .. k \in SUBSET (1 .. n) /\ k \in 1 .. k BY <2>0
  <2>2. Top(1 .. k) = k
    <3>1. k - 1 \in Nat /\ (k - 1) + 1 = k OBVIOUS
    <3>2. 1 .. k \in SUBSET (1 .. (k - 1) + 1) BY <3>1
    <3> QED BY <3>1, <3>2, <2>1, MaxOfInterval
  <2>3. (1 .. k) \ {k} = 1 .. (k - 1) OBVIOUS
  <2> QED BY <1>1, <2>1, <2>2, <2>3 DEF Iter
<1> DEFINE run == [k \in 0 .. n |-> it[1 .. k]]
<1>5. run[0] = base
  <2>1. 1 .. 0 = {} OBVIOUS
  <2> QED BY <1>3, <2>1
<1>6. \A k \in 1 .. n : run[k] = Op(c, d, run[k - 1], list[k]) BY <1>4
<1>7. run[n] = it[DOMAIN list] OBVIOUS
<1> HIDE DEF run
<1> QED BY <1>5, <1>6, <1>7 DEF it, IsRun, Folded
=============================================================================
