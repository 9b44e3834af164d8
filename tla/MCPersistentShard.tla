------------------------- MODULE MCPersistentShard -------------------------
(***************************************************************************)
(* Small instances of PersistentShard.  A state kept in storage version b  *)
(* is 100 * b plus a root that changes advance; the view is the root's     *)
(* square, and no state is a view.  A migration adds one to the root, like *)
(* that of test persist_16, and every build has an empty state of its own. *)
(***************************************************************************)
EXTENDS PersistentShard, FiniteSets, TLC

CONSTANTS t1, t2

OneCaller == {t1}
TwoCallers == {t1, t2}
CallerSymmetry == Permutations(TwoCallers)

TwoChanges == {1, 2}
Root(s) == s % 100
MCState == {100 * b + r : b \in {1, 2, 3}, r \in 0 .. 3}
MCDefaultState(b) == 100 * b + b
MCApplyChange(s, c) == (s - Root(s)) + ((Root(s) + c) % 4)
MCView == 0 .. 15
MCProject(s) == Root(s) * Root(s)
MCDelta == 0 .. 15
MCViewDelta(s, c) == (MCProject(MCApplyChange(s, c)) - MCProject(s)) % 16
MCApplyDelta(v, d) == (v + d) % 16
MCMigrate(s, from, to) == 100 * to + ((Root(s) + 1) % 4)

\* Two builds that replace each other freely, and a third, without a path from
\* their states, that is never rolled back.
TwoVersions == {1, 2}
AnyBuild == TwoVersions \X TwoVersions
ThreeVersions == {1, 2, 3}
NoRollbackFrom3 == (TwoVersions \X ThreeVersions) \cup {<<3, 3>>}

\* Bound: the different announcements of one history.
FewAnnouncements == Cardinality(published) <= IF serial THEN 6 ELSE 4

=============================================================================
