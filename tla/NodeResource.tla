---------------------------- MODULE NodeResource ----------------------------
(***************************************************************************)
(* The application of dstate/examples/node_resource.rs, a                  *)
(* `DeltaDistributedState`: what a node monitors of itself, the view it    *)
(* publishes, the deltas of the view and the urgency of each change.  A    *)
(* percentage is a fraction (num / den); serialization is abstracted.      *)
(***************************************************************************)
EXTENDS Integers

CONSTANTS
    Unchanged,                      \* the None of a delta's field
    DefaultMemory, DefaultDisk      \* the totals a node starts with

ASSUME ResourceAssumption ==
    /\ DefaultMemory \in Nat /\ DefaultDisk \in Nat
    /\ Unchanged \notin Nat /\ Unchanged \notin [num : Nat, den : Nat \ {0}]

Fraction == [num : Nat, den : Nat \ {0}]

Percent(num, den) == [num |-> num, den |-> den]

NoLoad == Percent(0, 1)

\* sample_count and cpu_accumulator are private to the state.
NodeResourceState ==
    [samples : Nat, accumulated : Nat, cpu : Fraction,
     memUsed : Nat, memTotal : Nat, diskUsed : Nat, diskTotal : Nat]

NodeResourceView ==
    [cpu : Fraction,
     memUsed : Nat, memTotal : Nat, diskUsed : Nat, diskTotal : Nat]

NodeResourceDelta ==
    [cpu : Fraction \cup {Unchanged},
     memUsed : Nat \cup {Unchanged}, memTotal : Nat \cup {Unchanged},
     diskUsed : Nat \cup {Unchanged}, diskTotal : Nat \cup {Unchanged}]

\* The calls a mutation may make.
NodeResourceChange ==
    [kind : {"CpuSample"}, pct : Nat]
        \cup [kind : {"MemoryUpdate", "DiskUpdate"}, used : Nat, total : Nat]

CpuSample(pct) == [kind |-> "CpuSample", pct |-> pct]
MemoryUpdate(used, total) == [kind |-> "MemoryUpdate", used |-> used, total |-> total]
DiskUpdate(used, total) == [kind |-> "DiskUpdate", used |-> used, total |-> total]

DefaultState ==
    [samples |-> 0, accumulated |-> 0, cpu |-> NoLoad,
     memUsed |-> 0, memTotal |-> DefaultMemory,
     diskUsed |-> 0, diskTotal |-> DefaultDisk]

DefaultResourceView ==
    [cpu |-> NoLoad, memUsed |-> 0, memTotal |-> DefaultMemory,
     diskUsed |-> 0, diskTotal |-> DefaultDisk]

-----------------------------------------------------------------------------
\* The running average after a sample.
Average(s, pct) == Percent(s.accumulated + pct, s.samples + 1)

\* record_cpu_sample, set_memory and set_disk.
ApplyResourceChange(s, c) ==
    CASE c.kind = "CpuSample" ->
            [s EXCEPT !.samples = @ + 1,
                      !.accumulated = @ + c.pct,
                      !.cpu = Average(s, c.pct)]
      [] c.kind = "MemoryUpdate" ->
            [s EXCEPT !.memUsed = c.used, !.memTotal = c.total]
      [] c.kind = "DiskUpdate" ->
            [s EXCEPT !.diskUsed = c.used, !.diskTotal = c.total]

ProjectView(s) ==
    [cpu |-> s.cpu, memUsed |-> s.memUsed, memTotal |-> s.memTotal,
     diskUsed |-> s.diskUsed, diskTotal |-> s.diskTotal]

NoChange ==
    [cpu |-> Unchanged, memUsed |-> Unchanged, memTotal |-> Unchanged,
     diskUsed |-> Unchanged, diskTotal |-> Unchanged]

\* project_delta, of the change description the mutation of s returns.
ProjectDelta(s, c) ==
    CASE c.kind = "CpuSample" -> [NoChange EXCEPT !.cpu = Average(s, c.pct)]
      [] c.kind = "MemoryUpdate" ->
            [NoChange EXCEPT !.memUsed = c.used, !.memTotal = c.total]
      [] c.kind = "DiskUpdate" ->
            [NoChange EXCEPT !.diskUsed = c.used, !.diskTotal = c.total]

UnwrapOr(option, old) == IF option = Unchanged THEN old ELSE option

\* apply_delta.
ApplyResourceDelta(v, d) ==
    [cpu |-> UnwrapOr(d.cpu, v.cpu),
     memUsed |-> UnwrapOr(d.memUsed, v.memUsed),
     memTotal |-> UnwrapOr(d.memTotal, v.memTotal),
     diskUsed |-> UnwrapOr(d.diskUsed, v.diskUsed),
     diskTotal |-> UnwrapOr(d.diskTotal, v.diskTotal)]

-----------------------------------------------------------------------------
MemorySpikeThreshold == 10
CpuSuppressThreshold == 2

MemoryUsagePct(v) ==
    IF v.memTotal = 0 THEN NoLoad ELSE Percent(100 * v.memUsed, v.memTotal)

\* The distance of two percentages is below a threshold.
Within(p, q, threshold) ==
    LET d == p.num * q.den - q.num * p.den
    IN  (IF d < 0 THEN -d ELSE d) < threshold * p.den * q.den

\* Mutated form: a small change of memory is treated as one of CPU load.
SyncUrgencyOfJitter(old, new, c) ==
    CASE c.kind = "MemoryUpdate" ->
            IF Within(MemoryUsagePct(new), MemoryUsagePct(old), MemorySpikeThreshold)
            THEN "Suppress" ELSE "Immediate"
      [] c.kind = "CpuSample" ->
            IF Within(new.cpu, old.cpu, CpuSuppressThreshold)
            THEN "Suppress" ELSE "Default"
      [] c.kind = "DiskUpdate" -> "Default"

\* sync_urgency: spikes of memory at once, jitter of the CPU not at all.
SyncUrgencyOf(old, new, c) ==
    CASE c.kind = "MemoryUpdate" ->
            IF Within(MemoryUsagePct(new), MemoryUsagePct(old), MemorySpikeThreshold)
            THEN "Default" ELSE "Immediate"
      [] c.kind = "CpuSample" ->
            IF Within(new.cpu, old.cpu, CpuSuppressThreshold)
            THEN "Suppress" ELSE "Default"
      [] c.kind = "DiskUpdate" -> "Default"

\* find_lowest_memory_node over the views of some nodes: a hash map's order
\* decides between equals, so any of them.
LowestMemoryNodes(views) ==
    {n \in DOMAIN views : \A p \in DOMAIN views : views[n].memUsed <= views[p].memUsed}

=============================================================================
