----------------------------- MODULE ShardCore -----------------------------
(***************************************************************************)
(* The view-map rules of `ShardCore` (dstate/src/core/shard_core.rs): what *)
(* one peer's entry, a `StateViewObject`, becomes on every inbound event.  *)
(* An entry keeps its generation, its value and the newest generation the  *)
(* peer is known to have reached (pending).  Timestamps are abstracted     *)
(* (see Query in StateCluster), the entry's wire_version is never read by  *)
(* the code and is left out.                                               *)
(***************************************************************************)
EXTENDS Generations

CONSTANTS
    View,       \* the values of the public view
    NoView      \* the peer has no entry in the view map

Entry == [gen : Generation, value : View, pending : OptGeneration]

ASSUME NoViewAssumption == NoView \notin Entry

OptEntry == Entry \cup {NoView}

\* update_own_view, and the entry ShardCore::new starts with.
OwnEntry(gen, value) == [gen |-> gen, value |-> value, pending |-> NoGen]

-----------------------------------------------------------------------------
\* Mutated forms: the order check is dropped; the ages alone are compared.
ShouldAcceptAlways(incoming, local) == TRUE
ShouldAcceptByAge(incoming, local) == local.age < incoming.age

\* should_accept: strictly newer wins.
ShouldAccept(incoming, local) == Lt(local, incoming)

\* Mutated forms: pending survives the snapshot that reaches it; any update
\* clears it.
KeptPendingForever(entry, gen) ==
    IF entry # NoView THEN entry.pending ELSE NoGen

KeptPendingNever(entry, gen) == NoGen

\* pending_remote_generation after the view moved to gen: kept only while
\* gen is still behind it.
KeptPending(entry, gen) ==
    IF entry # NoView /\ entry.pending # NoGen /\ Lt(gen, entry.pending)
    THEN entry.pending
    ELSE NoGen

Updated(entry, gen, value) ==
    [gen |-> gen, value |-> value, pending |-> KeptPending(entry, gen)]

\* accept_inbound_snapshot: is it Accepted, and the entry it leaves.
SnapshotAccepted(entry, gen) ==
    entry = NoView \/ ShouldAccept(gen, entry.gen)

AcceptSnapshot(entry, gen, value) ==
    IF SnapshotAccepted(entry, gen) THEN Updated(entry, gen, value) ELSE entry

-----------------------------------------------------------------------------
\* The DeltaAcceptResult of accept_inbound_delta.
DeltaVerdict(entry, gen) ==
    CASE entry = NoView -> "UnknownPeer"
      [] entry # NoView /\ gen.inc < entry.gen.inc -> "Discarded"
      [] entry # NoView /\ gen.inc > entry.gen.inc -> "GapDetected"
      [] entry # NoView /\ gen.inc = entry.gen.inc /\ gen.age <= entry.gen.age
            -> "Discarded"
      [] entry # NoView /\ gen.inc = entry.gen.inc /\ gen.age > entry.gen.age + 1
            -> "GapDetected"
      [] entry # NoView /\ gen.inc = entry.gen.inc /\ gen.age = entry.gen.age + 1
            -> "Applied"

AcceptDelta(entry, gen, value) ==
    IF DeltaVerdict(entry, gen) = "Applied"
    THEN Updated(entry, gen, value)
    ELSE entry

-----------------------------------------------------------------------------
\* mark_stale: a change-feed notification of generation gen.
MarkStale(entry, gen) ==
    IF entry # NoView /\ ~Le(gen, entry.gen)
    THEN [entry EXCEPT !.pending = gen]
    ELSE entry

\* Mutated form: the mark is one mutation too far.
PlaceholderPendingAged == NewGeneration(1, 1)

\* on_node_joined: a placeholder, unless the peer already has an entry.
PlaceholderPending == NewGeneration(1, 0)

Placeholder(default) ==
    [gen |-> Zero, value |-> default, pending |-> PlaceholderPending]

InsertPlaceholder(entry, default) ==
    IF entry = NoView THEN Placeholder(default) ELSE entry

=============================================================================
