----------------------------- MODULE Placement ------------------------------
(***************************************************************************)
(* The harness with the example application: what a scheduler that places  *)
(* work by find_lowest_memory_node relies on.                              *)
(***************************************************************************)
EXTENDS MockCluster, NodeResource

\* What the application's users rely on (find_lowest_memory_node on a node's
\* views): once the cluster has settled, a node that lost nothing and has
\* nothing to pull picks a node that really uses the least memory.  CPU jitter,
\* the only change sync_urgency suppresses, never hides one of memory.  (A node
\* added after another left may still hear of it by a late message, and keeps
\* that view: such a node is not spoken of.  Nor is a flipped bit that makes
\* another valid message: see BitFlipped.)
PlacementIsRight ==
    IsSettled =>
        \A n \in Node :
            LET present == {p \in Node : nodes[p] # Absent}
                held == [p \in {n} \cup KnownPeers(n, nodes[n].engine.views) |->
                            nodes[n].engine.views[p].value]
            IN  /\ nodes[n] # Absent
                /\ DOMAIN held \subseteq present
                /\ \A p \in present : /\ <<n, p>> \notin excused
                                      /\ nodes[n].engine.views[p].pending = NoGen
                => LowestMemoryNodes(held) \subseteq
                   LowestMemoryNodes([p \in present |-> nodes[p].engine.value])

=============================================================================
