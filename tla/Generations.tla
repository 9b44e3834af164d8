---------------------------- MODULE Generations ----------------------------
(***************************************************************************)
(* `Generation` of dstate/src/types/node.rs: the logical version of a      *)
(* node's state, a lifetime (incarnation) and a mutation counter within it *)
(* (age), ordered lexicographically.                                       *)
(***************************************************************************)
EXTENDS Integers

CONSTANT NoGen          \* the None of Option<Generation>

Generation == [inc : Nat, age : Nat]

ASSUME NoGenAssumption == NoGen \notin Generation

OptGeneration == Generation \cup {NoGen}

NewGeneration(inc, age) == [inc |-> inc, age |-> age]

\* The sentinel a placeholder view carries; below every real generation as
\* long as real incarnations are positive.
Zero == NewGeneration(0, 0)

\* Ord::cmp of Generation.
Lt(g, h) == g.inc < h.inc \/ (g.inc = h.inc /\ g.age < h.age)

Le(g, h) == g = h \/ Lt(g, h)

\* The generation after one more mutation in the same lifetime.
NextAge(g) == NewGeneration(g.inc, g.age + 1)

=============================================================================
