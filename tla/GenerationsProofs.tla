-------------------------- MODULE GenerationsProofs --------------------------
(***************************************************************************)
(* Generation's order is a strict total order, with the sentinel below     *)
(* every real generation.                                                  *)
(***************************************************************************)
EXTENDS Generations, TLAPS

\* Ord for Generation never puts a generation before itself.
LEMMA LtIrreflexive == \A g \in Generation : ~Lt(g, g)
BY DEF Lt, Generation

\* Ord for Generation is transitive, on Lt, on Le and mixed.
LEMMA LtTransitive ==
    \A f, g, h \in Generation : Lt(f, g) /\ Lt(g, h) => Lt(f, h)
BY DEF Lt, Generation

\* A chain with one strict step is strict.
LEMMA LeLtTransitive ==
    \A f, g, h \in Generation : Le(f, g) /\ Lt(g, h) => Lt(f, h)
BY DEF Le, Lt, Generation

\* A chain of comparisons composes.
LEMMA LeTransitive ==
    \A f, g, h \in Generation : Le(f, g) /\ Le(g, h) => Le(f, h)
BY DEF Le, Lt, Generation

\* Any two generations are comparable, in exactly one direction.
LEMMA LtTotal ==
    \A g, h \in Generation : Le(g, h) <=> ~Lt(h, g)
BY DEF Le, Lt, Generation

\* A mutation advances the generation, and nothing lies between.
LEMMA NextAgeAdvances ==
    \A g \in Generation : NextAge(g) \in Generation /\ Lt(g, NextAge(g))
BY DEF NextAge, NewGeneration, Lt, Generation

\* The base a delta applies to is determined by its generation.
LEMMA NextAgeInjective ==
    \A g, h \in Generation : NextAge(g) = NextAge(h) => g = h
<1> SUFFICES ASSUME NEW g \in Generation, NEW h \in Generation,
                    NextAge(g) = NextAge(h)
             PROVE  g = h
    OBVIOUS
<1>1. g.inc = h.inc /\ g.age = h.age
    BY DEF NextAge, NewGeneration, Generation
<1> QED BY <1>1 DEF Generation

\* The sentinel of a placeholder is below the pending mark it is given, and
\* that mark below every real generation (on_node_joined).
LEMMA ZeroBelow ==
    \A g \in Generation :
        g.inc > 0 => Lt(Zero, g) /\ Le(NewGeneration(1, 0), g)
<1> SUFFICES ASSUME NEW g \in Generation, g.inc > 0
             PROVE  Lt(Zero, g) /\ Le(NewGeneration(1, 0), g)
    OBVIOUS
<1>1. Lt(Zero, g)
    BY DEF Lt, Zero, NewGeneration, Generation
<1>2. CASE g.inc = 1 /\ g.age = 0
    <2>1. g = NewGeneration(1, 0)
        BY <1>2 DEF NewGeneration, Generation
    <2> QED BY <1>1, <2>1 DEF Le
<1>3. CASE ~(g.inc = 1 /\ g.age = 0)
    <2>1. Lt(NewGeneration(1, 0), g)
        BY <1>3 DEF Lt, NewGeneration, Generation
    <2> QED BY <1>1, <2>1 DEF Le
<1> QED BY <1>2, <1>3

=============================================================================
