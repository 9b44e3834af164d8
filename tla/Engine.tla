------------------------------- MODULE Engine -------------------------------
(***************************************************************************)
(* `DistributedStateEngine` (dstate/src/engine.rs) as a host without       *)
(* actors drives it: every method is a function of the engine, giving the  *)
(* engine after the call and the EngineActions the host has to carry out.  *)
(* StateCluster models the same methods as the steps of an actor system;   *)
(* here they are the parts of larger, sequential steps of a host.          *)
(***************************************************************************)
EXTENDS Diagnostics, SyncLogic, VersioningLogic, Sequences

CONSTANTS
    Node,
    State, InitState,           \* the owned states and the one a node starts in
    Change,                     \* what a mutation closure may do
    ApplyChange(_, _),          \* the state after a change
    Project(_),                 \* project_view
    Delta, ViewDelta(_, _),     \* the view delta of a change made in a state
    ApplyDelta(_, _),           \* apply_delta
    DefaultView,                \* the default view a joining node is given
    Malformed,                  \* a payload that does not decode
    Wire                        \* the wire_version of the build

ASSUME EngineAssumption ==
    /\ Wire \in WireVersion
    /\ Malformed \notin View \cup Delta

\* The engine of node n in a new lifetime.
NewEngine(n, inc) ==
    LET gen == NewGeneration(inc, 0) IN
    [id |-> n, gen |-> gen, value |-> InitState,
     views |-> [p \in Node |-> IF p = n THEN OwnEntry(gen, Project(InitState))
                               ELSE NoView],
     departed |-> {}, feed |-> NoGen, diag |-> [p \in {} |-> DefaultDiagnostics]]

Sync(e, type, data) ==
    [type |-> type, src |-> e.id, gen |-> e.gen, wire |-> Wire, data |-> data]

Request(e) == [type |-> "RequestSnapshot", src |-> e.id]

FeedBatch(e) == [type |-> "Feed", src |-> e.id, gen |-> e.feed]

\* The snapshot every method but mutate sends: own_view_value.
OwnSnapshot(e) == Sync(e, "FullSnapshot", e.views[e.id].value)

-----------------------------------------------------------------------------
(* mutate and mutate_with_delta.                                           *)

\* apply_mutation: state and own view-map entry.
Mutated(e, c) ==
    LET gen == NextAge(e.gen)
        value == ApplyChange(e.value, c)
    IN  [e EXCEPT !.gen = gen,
                  !.value = value,
                  !.views[e.id] = OwnEntry(gen, Project(value))]

\* ChangeFeedLogic::notify_change for the engine's own state.
Notified(e) ==
    [e EXCEPT !.feed = IF @ = NoGen \/ Lt(@, e.gen) THEN e.gen ELSE @]

\* The engine after a mutation whose urgency resolves to action.
AfterMutation(e, c, action) ==
    IF action = "NotifyChangeFeed" THEN Notified(Mutated(e, c)) ELSE Mutated(e, c)

\* What a mutation broadcasts or schedules, if it does.
SnapshotBody(e, c) ==
    Sync(Mutated(e, c), "FullSnapshot", Project(ApplyChange(e.value, c)))

DeltaBody(e, c, action) ==
    IF action = "BroadcastSnapshot" THEN SnapshotBody(e, c)
    ELSE Sync(Mutated(e, c), "DeltaUpdate", ViewDelta(e.value, c))

-----------------------------------------------------------------------------
(* Inbound messages.                                                       *)

\* ShardCore::on_node_left.
ViewRemoved(e, p) == IF p = e.id THEN e ELSE [e EXCEPT !.views[p] = NoView]

Failed(e, p) == [e EXCEPT !.diag = RecordSyncFailure(@, p)]

Succeeded(e, p) == [e EXCEPT !.diag = RecordSyncSuccess(@, p)]

AfterFullSnapshot(e, b) ==
    LET verdict == OnInbound(Wire, b.wire, b.data # Malformed) IN
    CASE verdict = "Ok" /\ SnapshotAccepted(e.views[b.src], b.gen) ->
            Succeeded([e EXCEPT !.views[b.src] = AcceptSnapshot(@, b.gen, b.data)],
                      b.src)
      [] verdict = "Ok" /\ ~SnapshotAccepted(e.views[b.src], b.gen) -> e
      [] verdict = "DropView" -> Failed(ViewRemoved(e, b.src), b.src)
      [] verdict \in {"KeepStale", "MalformedData"} -> Failed(e, b.src)

\* What handle_delta_update finds, in the order of its checks.
DeltaOutcome(e, b) ==
    LET entry == e.views[b.src] IN
    IF b.wire # Wire THEN "OtherVersion"
    ELSE IF ~SupportsDelta \/ entry = NoView THEN "NoBase"
    ELSE IF b.gen # NextAge(entry.gen)
         THEN IF Le(b.gen, entry.gen) THEN "Stale" ELSE "Gap"
    ELSE IF b.data = Malformed THEN "Malformed" ELSE "Applied"

AfterDelta(e, b) ==
    LET outcome == DeltaOutcome(e, b) IN
    CASE outcome = "OtherVersion" ->
            Failed(IF OnDeserializeError = "DropView" THEN ViewRemoved(e, b.src)
                   ELSE e, b.src)
      [] outcome \in {"NoBase", "Stale"} -> e
      [] outcome = "Gap" -> [e EXCEPT !.diag = RecordGapDetected(@, b.src)]
      [] outcome = "Malformed" -> Failed(e, b.src)
      [] outcome = "Applied" ->
            Succeeded([e EXCEPT !.views[b.src] =
                            AcceptDelta(@, b.gen, ApplyDelta(@.value, b.data))],
                      b.src)

\* Mutated form: a gap is recorded but not filled.
AsksForSnapshotNoGap(e, b) == DeltaOutcome(e, b) \in {"NoBase", "Malformed"}

AsksForSnapshot(e, b) == DeltaOutcome(e, b) \in {"NoBase", "Gap", "Malformed"}

\* handle_inbound: the engine after message b ...
HandleInbound(e, b) ==
    CASE b.src \in e.departed -> e
      [] b.src \notin e.departed /\ b.type = "FullSnapshot" -> AfterFullSnapshot(e, b)
      [] b.src \notin e.departed /\ b.type = "DeltaUpdate" -> AfterDelta(e, b)
      [] b.src \notin e.departed /\ b.type = "RequestSnapshot" -> e
      [] b.src \notin e.departed /\ b.type = "Feed" ->
            [e EXCEPT !.views[b.src] = MarkStale(@, b.gen)]

\* ... and the messages it answers the sender with.
Replies(e, b) ==
    CASE b.src \notin e.departed /\ b.type = "RequestSnapshot" -> <<OwnSnapshot(e)>>
      [] b.src \notin e.departed /\ b.type = "DeltaUpdate" /\ AsksForSnapshot(e, b) ->
            <<Request(e)>>
      [] OTHER -> <<>>

-----------------------------------------------------------------------------
(* Change feed, membership and queries.                                    *)

Flushed(e) == [e EXCEPT !.feed = NoGen]

\* on_node_joined; the snapshot for the joiner is OwnSnapshot(e).
OnNodeJoined(e, p) ==
    [e EXCEPT !.departed = @ \ {p},
              !.views[p] = IF p = e.id THEN @ ELSE InsertPlaceholder(@, DefaultView)]

OnNodeLeft(e, p) ==
    [ViewRemoved(e, p) EXCEPT !.departed = @ \cup {p}, !.diag = RemovePeer(@, p)]

\* query: the peers it asks for a snapshot.
Pulled(e, aged) ==
    IF PullOnQuery
    THEN {p \in KnownPeers(e.id, e.views) \ e.departed :
            e.views[p].pending # NoGen \/ p \in aged}
    ELSE {}

Health(e, aged) == HealthStatus(e.id, e.views, e.diag, aged)

=============================================================================
