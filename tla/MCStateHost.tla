---------------------------- MODULE MCStateHost ----------------------------
(***************************************************************************)
(* Two hosts with two states; one of them mutates.                         *)
(***************************************************************************)
EXTENDS StateHost, TLC

CONSTANTS h1, h2

TwoHosts == {h1, h2}
OneWriter == {h1}
OneView == {0}

\* States and types are interchangeable.
Interchangeable == Permutations(Name) \cup Permutations(ShardType)

=============================================================================
