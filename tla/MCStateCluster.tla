--------------------------- MODULE MCStateCluster ---------------------------
(***************************************************************************)
(* Small instances of StateCluster.  A state is a private offset plus a    *)
(* root that every change increments; the view is the root's square, so    *)
(* that no state is a view, no two successive deltas are alike and a delta *)
(* on a wrong base shows.                                                  *)
(***************************************************************************)
EXTENDS StateCluster

CONSTANTS n1, n2

TwoNodes == {n1, n2}
OneWriter == {n1}
NoNodes == {}

Increment == {1}
MCView == 0 .. 15
Offset == 100
Root(s) == s - Offset
MCState == Offset .. Offset + 3
MCInitState == Offset
MCApplyChange(s, c) == Offset + ((Root(s) + c) % 4)
MCProject(s) == Root(s) * Root(s)
MCDelta == 0 .. 15
MCViewDelta(s, c) == (MCProject(MCApplyChange(s, c)) - MCProject(s)) % 16
MCApplyDelta(v, d) == (v + d) % 16

\* Builds write version 1; or, in a rolling upgrade, 1 or 2, the newer build
\* also reading the older version.
OneVersion == {1}
TwoVersions == {1, 2}
ReadsOne == [w \in OneVersion |-> {1}]
ReadsOlder == [w \in TwoVersions |-> 1 .. w]

DefaultOrDelayed == {"Default", "Delayed"}
AnyPush == SyncUrgency \ {"Suppress"}
AllUrgencies == SyncUrgency
DefaultOrSuppress == {"Default", "Suppress"}
JustDefault == {"Default"}

AnyOrder == {}
FeedsInOrder == {"Feed"}
AllInOrder == {"FullSnapshot", "DeltaUpdate", "Feed"}
=============================================================================
