--------------------------- MODULE MCMockCluster ---------------------------
(***************************************************************************)
(* The harness with two nodes that run the NodeResource application and a  *)
(* test of a few calls.                                                    *)
(***************************************************************************)
EXTENDS Placement

CONSTANTS a, b

MCNode == {a, b}
MCNodeOrder == <<a, b>>
MCWriters == {a}

\* Jitter of the CPU, a small and a large change of memory, and one of disk.
MCChange ==
    {CpuSample(1), MemoryUpdate(1, 20), MemoryUpdate(5, 20), DiskUpdate(3, 100)}

\* A host that follows the application, but lets changes of the disk wait.
MCUrgencyOf(s, c) ==
    IF c.kind = "DiskUpdate" THEN {"Delayed"}
    ELSE {SyncUrgencyOf(ProjectView(s), ProjectView(ApplyResourceChange(s, c)), c)}

OneVersion == {1}
ReadsOne == [w \in OneVersion |-> {1}]

Faults == {DropRate, Partition({a}, {b}, TRUE), DelayTicks(2), DuplicateAll,
           CorruptBytes}

=============================================================================
