---------------------------- MODULE Diagnostics ----------------------------
(***************************************************************************)
(* `DiagnosticsLogic` of dstate/src/core/diagnostics.rs: what a node        *)
(* records of the syncs with each peer, and the health it derives from the *)
(* records and its view map.  Times, latencies and error texts are left    *)
(* out; a peer synced longer ago than the caller tolerates is a member of  *)
(* the set `aged`.  The StateSyncMetrics counters are left out: the code   *)
(* only ever adds to them.                                                 *)
(***************************************************************************)
EXTENDS ShardCore, FiniteSets

PeerDiagnostics == [failures : Nat, gaps : Nat]

\* or_default: the record a peer gets at its first sync, failure or gap.
DefaultDiagnostics == [failures |-> 0, gaps |-> 0]

DiagnosticsOf(records, p) ==
    IF p \in DOMAIN records THEN records[p] ELSE DefaultDiagnostics

Store(records, p, diagnostics) ==
    [q \in DOMAIN records \cup {p} |->
        IF q = p THEN diagnostics ELSE records[q]]

RecordSyncSuccess(records, p) ==
    Store(records, p, [DiagnosticsOf(records, p) EXCEPT !.failures = 0])

RecordSyncFailure(records, p) ==
    Store(records, p, [DiagnosticsOf(records, p) EXCEPT !.failures = @ + 1])

RecordGapDetected(records, p) ==
    Store(records, p, [DiagnosticsOf(records, p) EXCEPT !.gaps = @ + 1])

RemovePeer(records, p) == [q \in DOMAIN records \ {p} |-> records[q]]

-----------------------------------------------------------------------------
\* The three ranks of health_status, given the peers with an entry and those
\* of them that are stale, and that are failing.
Classify(peers, stale, failing) ==
    LET healthy == peers \ (stale \cup failing) IN
    CASE stale = {} /\ failing = {} -> "Healthy"
      [] /\ stale # {} \/ failing # {}
         /\ peers # {}
         /\ Cardinality(healthy) > Cardinality(peers) \div 2 -> "Degraded"
      [] OTHER -> "Unhealthy"

\* The peers a node with view map `views` has an entry of.
KnownPeers(me, views) == {p \in DOMAIN views \ {me} : views[p] # NoView}

\* Mutated form: judged by the gaps, a counter that no success resets.
HealthStatusByGaps(me, views, records, aged) ==
    LET peers == KnownPeers(me, views)
        stale == {p \in peers : views[p].pending # NoGen \/ p \in aged}
        failing == {p \in peers : DiagnosticsOf(records, p).gaps > 0}
    IN  Classify(peers, stale, failing)

HealthStatus(me, views, records, aged) ==
    LET peers == KnownPeers(me, views)
        stale == {p \in peers : views[p].pending # NoGen \/ p \in aged}
        failing == {p \in peers : DiagnosticsOf(records, p).failures > 0}
    IN  Classify(peers, stale, failing)

=============================================================================
