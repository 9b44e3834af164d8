----------------------------- MODULE MCViewMap -----------------------------
(***************************************************************************)
(* ViewMap for TLC: the local node, a peer, one reader (readers share      *)
(* nothing a reader writes) and a spare cell for a peer that rejoins while *)
(* the reader holds its old one.                                           *)
(***************************************************************************)
EXTENDS ViewMap, TLC

CellSymmetry == Permutations(Cell)

=============================================================================
