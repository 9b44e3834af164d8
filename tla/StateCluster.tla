---------------------------- MODULE StateCluster ----------------------------
(***************************************************************************)
(* A cluster of `StateActor`s (dstate-dactor/src/state_actor.rs), each     *)
(* driving a `DistributedStateEngine` (dstate/src/engine.rs) for one       *)
(* distributed state.  Every node owns a state, publishes a projection of  *)
(* it, and keeps a view of every peer's projection.                        *)
(*                                                                         *)
(* An actor handles one mailbox message at a time, so each handler is one  *)
(* step; the steps of different nodes, the delayed tasks, the network, the *)
(* membership service and the host that wires the peer registry            *)
(* interleave freely.                                                      *)
(***************************************************************************)
EXTENDS ShardCore, SyncLogic, VersioningLogic

CONSTANTS
    Node,
    State, InitState,           \* the owned states and the one a node starts in
    Change,                     \* what a mutation closure may do
    ApplyChange(_, _),          \* the state after a change
    Project(_),                 \* project_view
    Delta, ViewDelta(_, _),     \* the view delta of a change made in a state
    ApplyDelta(_, _),           \* apply_delta
    DefaultView,                \* the default view a NodeJoined event carries
    Urgency,                    \* the urgencies mutations use
    Writers,                    \* bound: the nodes that mutate
    Crashers,                   \* bound: the nodes that crash
    MaxAge,                     \* bound: mutations per lifetime
    MaxInc,                     \* bound: the clock's last reading
    Redelivers,                 \* the network may deliver a message repeatedly
    Loses,                      \* the network may drop a message
    Damages,                    \* the network may damage a payload
    InOrder,                    \* the kinds of message that never overtake one of
                                \* an older generation on their link
    OrderedMembership           \* NodeLeft precedes the NodeJoined of a restart

ASSUME DataAssumption ==
    /\ InitState \in State
    /\ DefaultView \in View
    /\ \A s \in State : Project(s) \in View
    /\ \A s \in State, c \in Change :
          /\ ApplyChange(s, c) \in State
          /\ ViewDelta(s, c) \in Delta
    /\ \A v \in View, d \in Delta : ApplyDelta(v, d) \in View

\* What DeltaDistributedState asks of an application: the delta of a change
\* takes the view before it to the view after it.
ASSUME DeltaLaw ==
    \A s \in State, c \in Change :
        ApplyDelta(Project(s), ViewDelta(s, c)) = Project(ApplyChange(s, c))

ASSUME BoundAssumption ==
    /\ Urgency \subseteq SyncUrgency
    /\ Writers \subseteq Node
    /\ Crashers \subseteq Node
    /\ MaxAge \in Nat
    /\ MaxInc \in Nat
    /\ {Redelivers, Loses, Damages, OrderedMembership} \subseteq BOOLEAN
    /\ InOrder \subseteq {"FullSnapshot", "DeltaUpdate", "Feed"}

VARIABLES
    up,         \* up[n]: n's actor is running
    wire,       \* wire[n]: the wire_version of n's build
    state,      \* state[n]: n's StateObject, generation and value
    views,      \* views[n][p]: n's view-map entry for p
    departed,   \* departed[n]: LifecycleLogic.departed_nodes
    feed,       \* feed[n]: ChangeFeedLogic.pending for n's own state
    scheduled,  \* scheduled[n]: the delayed sends not yet fired
    diag,       \* diag[n][p]: DiagnosticsLogic's record of p
    peers,      \* peers[n]: the keys of n's PeerRegistry
    events,     \* events[n]: membership events not yet handled by n
    msgs,       \* the messages in transit
    hist        \* ghost: every view each node ever published, by generation

shardVars   == <<state, views, hist>>
engineVars  == <<wire, departed, feed, scheduled, diag>>
hostVars    == <<up, peers, events>>
vars == <<up, wire, state, views, departed, feed, scheduled, diag, peers,
          events, msgs, hist>>

-----------------------------------------------------------------------------
(* SyncMessage and WireMessage (types/sync_message.rs, engine.rs); a change *)
(* feed batch of one engine holds at most one notification, its own.        *)

FullSnapshotBody ==
    [type : {"FullSnapshot"}, src : Node, gen : Generation,
     wire : WireVersion, data : View]

DeltaUpdateBody ==
    [type : {"DeltaUpdate"}, src : Node, gen : Generation,
     wire : WireVersion, data : Delta]

RequestSnapshotBody == [type : {"RequestSnapshot"}, src : Node]

FeedBody == [type : {"Feed"}, src : Node, gen : Generation]

SyncBody == FullSnapshotBody \cup DeltaUpdateBody

Message == [dst : Node, body : SyncBody \cup RequestSnapshotBody \cup FeedBody]

MembershipEvent == [kind : {"NodeJoined", "NodeLeft"}, node : Node]

\* A PeerDiagnostics record: absent, without failures, or with
\* consecutive_failures > 0.
DiagStatus == {"none", "ok", "failing"}

FullSnapshot(n, gen, data) ==
    [type |-> "FullSnapshot", src |-> n, gen |-> gen, wire |-> wire[n],
     data |-> data]

DeltaUpdate(n, gen, data) ==
    [type |-> "DeltaUpdate", src |-> n, gen |-> gen, wire |-> wire[n],
     data |-> data]

RequestSnapshot(n) == [type |-> "RequestSnapshot", src |-> n]

Feed(n, gen) == [type |-> "Feed", src |-> n, gen |-> gen]

\* The snapshot every handler but mutate sends: the value of the node's own
\* view under the generation of its state.
OwnSnapshot(n) == FullSnapshot(n, state[n].gen, views[n][n].value)

\* route_actions: to the given targets that are in the registry, never to
\* oneself.
Send(n, targets, body) ==
    {[dst |-> d, body |-> body] : d \in (targets \cap peers[n]) \ {n}}

Broadcast(n, body) == Send(n, Node, body)

\* What stays in transit once x was delivered.
Remaining(x) == IF Redelivers THEN msgs ELSE msgs \ {x}

-----------------------------------------------------------------------------
(* Lifetimes: DistributedStateEngine::new seeds the incarnation from the   *)
(* clock, new_state_object starts at age 0, ShardCore::new with the own    *)
(* view only.                                                              *)

FirstViews(n, gen) ==
    [p \in Node |-> IF p = n THEN OwnEntry(gen, Project(InitState)) ELSE NoView]

Published(n, gen, version, view) ==
    [node |-> n, gen |-> gen, wire |-> version, view |-> view]

FirstGen == NewGeneration(1, 0)

Joined(p) == [kind |-> "NodeJoined", node |-> p]

Left(p) == [kind |-> "NodeLeft", node |-> p]

Init ==
    /\ up = [n \in Node |-> TRUE]
    /\ wire \in [Node -> WireVersion]
    /\ state = [n \in Node |-> [gen |-> FirstGen, value |-> InitState]]
    /\ views = [n \in Node |-> FirstViews(n, FirstGen)]
    /\ departed = [n \in Node |-> {}]
    /\ feed = [n \in Node |-> NoGen]
    /\ scheduled = [n \in Node |-> {}]
    /\ diag = [n \in Node |-> [p \in Node |-> "none"]]
    /\ peers = [n \in Node |-> Node \ {n}]
    /\ events = [n \in Node |-> {Joined(p) : p \in Node \ {n}}]
    /\ msgs = {}
    /\ hist = {Published(n, FirstGen, wire[n], Project(InitState)) : n \in Node}

\* The events about n that p has still to handle when n's departure is
\* detected: an ordered membership service no longer reports an earlier arrival.
Superseded(p, n) ==
    IF OrderedMembership THEN events[p] \ {Joined(n)} ELSE events[p]

\* The process dies, or the actor stops and cancels its delayed sends; the
\* membership service will report it to the others.
Crash(n) ==
    /\ up[n]
    /\ n \in Crashers
    /\ up' = [up EXCEPT ![n] = FALSE]
    /\ scheduled' = [scheduled EXCEPT ![n] = {}]
    /\ events' = [p \in Node |-> IF p # n /\ up[p]
                                 THEN Superseded(p, n) \cup {Left(n)}
                                 ELSE {}]
    /\ UNCHANGED <<wire, departed, feed, diag, peers, msgs, shardVars>>

\* Mutated form: the new lifetime reuses the incarnation of the last one.
LifetimeOfOld(n, inc) == state[n].gen.inc

\* The incarnation of a lifetime that starts when the clock reads inc.
Lifetime(n, inc) == inc

\* A new process with a new engine, at the build's wire version, with a
\* registry the host has filled.  The clock moved since the last start: inc is
\* greater than the last incarnation.
Restart(n) ==
    /\ ~up[n]
    /\ \E inc \in (state[n].gen.inc + 1) .. MaxInc, w \in WireVersion :
          LET gen == NewGeneration(Lifetime(n, inc), 0) IN
          /\ wire' = [wire EXCEPT ![n] = w]
          /\ state' = [state EXCEPT ![n] = [gen |-> gen, value |-> InitState]]
          /\ views' = [views EXCEPT ![n] = FirstViews(n, gen)]
          /\ hist' = hist \cup {Published(n, gen, w, Project(InitState))}
    /\ up' = [up EXCEPT ![n] = TRUE]
    /\ departed' = [departed EXCEPT ![n] = {}]
    /\ feed' = [feed EXCEPT ![n] = NoGen]
    /\ diag' = [diag EXCEPT ![n] = [p \in Node |-> "none"]]
    /\ peers' = [peers EXCEPT ![n] = Node \ {n}]
    /\ events' = [p \in Node |->
                    IF p = n THEN {Joined(q) : q \in {r \in Node : up[r]}}
                    ELSE IF up[p] THEN events[p] \cup {Joined(n)}
                    ELSE {}]
    /\ UNCHANGED <<scheduled, msgs>>

-----------------------------------------------------------------------------
(* Mutations.                                                              *)

\* Mutated forms: the own view-map entry is not refreshed; the state is
\* published as it is, private part included.
ApplyMutationOnly(n, gen, value) ==
    /\ state' = [state EXCEPT ![n] = [gen |-> gen, value |-> value]]
    /\ hist' = hist \cup {Published(n, gen, wire[n], Project(value))}
    /\ UNCHANGED views

ApplyMutationUnprojected(n, gen, value) ==
    /\ state' = [state EXCEPT ![n] = [gen |-> gen, value |-> value]]
    /\ views' = [views EXCEPT ![n][n] = OwnEntry(gen, value)]
    /\ hist' = hist \cup {Published(n, gen, wire[n], Project(value))}

\* ShardCore::apply_mutation: the owned state and the own view-map entry.
ApplyMutation(n, gen, value) ==
    /\ state' = [state EXCEPT ![n] = [gen |-> gen, value |-> value]]
    /\ views' = [views EXCEPT ![n][n] = OwnEntry(gen, Project(value))]
    /\ hist' = hist \cup {Published(n, gen, wire[n], Project(value))}

\* ChangeFeedLogic::notify_change: the higher generation is kept.
NotifyChange(pending, gen) ==
    IF pending = NoGen \/ Lt(pending, gen) THEN gen ELSE pending

\* sync_action_to_engine_actions_*, and route_actions of what they return.
Perform(n, action, gen, body) ==
    /\ msgs' = IF action \in {"BroadcastSnapshot", "BroadcastDelta"}
               THEN msgs \cup Broadcast(n, body)
               ELSE msgs
    /\ scheduled' = IF action = "ScheduleDelayed"
                    THEN [scheduled EXCEPT ![n] = @ \cup {body}]
                    ELSE scheduled
    /\ feed' = IF action = "NotifyChangeFeed"
               THEN [feed EXCEPT ![n] = NotifyChange(@, gen)]
               ELSE feed

\* What mutate sends: the whole view, whatever the action.
MutateBody(n, gen, value) == FullSnapshot(n, gen, Project(value))

\* Mutated form: the delta carries the generation it starts from.
MutateWithDeltaBodyFromBase(n, gen, c, action) ==
    IF action = "BroadcastSnapshot"
    THEN FullSnapshot(n, gen, Project(ApplyChange(state[n].value, c)))
    ELSE DeltaUpdate(n, state[n].gen, ViewDelta(state[n].value, c))

\* What mutate_with_delta sends: the delta, unless a snapshot was asked for.
MutateWithDeltaBody(n, gen, c, action) ==
    IF action = "BroadcastSnapshot"
    THEN FullSnapshot(n, gen, Project(ApplyChange(state[n].value, c)))
    ELSE DeltaUpdate(n, gen, ViewDelta(state[n].value, c))

Mutate(n, c, urgency) ==
    /\ up[n]
    /\ n \in Writers
    /\ state[n].gen.age < MaxAge
    /\ LET gen == NextAge(state[n].gen)
           value == ApplyChange(state[n].value, c)
       IN /\ ApplyMutation(n, gen, value)
          /\ Perform(n, ResolveAction(urgency), gen, MutateBody(n, gen, value))
    /\ UNCHANGED <<wire, departed, diag, hostVars>>

MutateWithDelta(n, c, urgency) ==
    /\ up[n]
    /\ n \in Writers
    /\ state[n].gen.age < MaxAge
    /\ LET gen == NextAge(state[n].gen)
           action == ResolveAction(urgency)
       IN /\ ApplyMutation(n, gen, ApplyChange(state[n].value, c))
          /\ Perform(n, action, gen, MutateWithDeltaBody(n, gen, c, action))
    /\ UNCHANGED <<wire, departed, diag, hostVars>>

\* The task a ScheduleDelayed spawned wakes up: it sends the message made at
\* the mutation to the peers registered now.
FireDelayed(n) ==
    /\ up[n]
    /\ \E body \in scheduled[n] :
          /\ msgs' = msgs \cup Broadcast(n, body)
          /\ scheduled' = [scheduled EXCEPT ![n] = @ \ {body}]
    /\ UNCHANGED <<wire, departed, feed, diag, shardVars, hostVars>>

\* FlushChangeFeed: drain the pending notification and broadcast it.
FlushChangeFeed(n) ==
    /\ up[n]
    /\ feed[n] # NoGen
    /\ msgs' = msgs \cup Broadcast(n, Feed(n, feed[n]))
    /\ feed' = [feed EXCEPT ![n] = NoGen]
    /\ UNCHANGED <<wire, departed, scheduled, diag, shardVars, hostVars>>

PeriodicSync(n) ==
    /\ up[n]
    /\ PeriodicFullSync
    /\ msgs' = msgs \cup Broadcast(n, OwnSnapshot(n))
    /\ UNCHANGED <<engineVars, shardVars, hostVars>>

\* query_local: a peer is stale if its entry is pending, or if it was synced
\* longer ago than the query tolerates: aged is the set of those.
StalePeers(n, aged) ==
    {p \in Node \ {n} : /\ views[n][p] # NoView
                        /\ views[n][p].pending # NoGen \/ p \in aged}

\* QueryViews.
Query(n, aged) ==
    /\ up[n]
    /\ LET pulled == IF PullOnQuery THEN StalePeers(n, aged) \ departed[n] ELSE {}
       IN msgs' = msgs \cup Send(n, pulled, RequestSnapshot(n))
    /\ UNCHANGED <<engineVars, shardVars, hostVars>>

-----------------------------------------------------------------------------
(* Inbound messages.  A handler's early return leaves everything but the   *)
(* transit unchanged.                                                      *)

\* Mutated form: the departed check is missing.
TakesFromAnyone(n, x, type) ==
    /\ up[n]
    /\ x.dst = n
    /\ x.body.type = type

\* n's actor takes x, of the given kind, from a sender that has not departed.
Takes(n, x, type) ==
    /\ up[n]
    /\ x.dst = n
    /\ x.body.type = type
    /\ x.body.src \notin departed[n]

\* Every handler starts by ignoring what comes from a departed node.
IgnoreDeparted(n, x) ==
    /\ up[n]
    /\ x.dst = n
    /\ x.body.src \in departed[n]
    /\ msgs' = Remaining(x)
    /\ UNCHANGED <<engineVars, shardVars, hostVars>>

Recorded(n, p, status) == [diag EXCEPT ![n][p] = status]

\* record_gap_detected creates the record if there is none.
GapRecorded(n, p) == [diag EXCEPT ![n][p] = IF @ = "none" THEN "ok" ELSE @]

\* ShardCore::on_node_left: the entry goes, one's own stays.
ViewRemoved(n, p) == [views EXCEPT ![n][p] = IF p = n THEN @ ELSE NoView]

\* The verdicts VersioningLogic may give on a payload, intact or damaged on
\* the way.
Verdicts(n, w) ==
    {OnInbound(wire[n], w, intact) :
        intact \in IF Damages THEN BOOLEAN ELSE {TRUE}}

\* handle_full_snapshot, once the payload is decoded.
HandleFullSnapshot(n, x) ==
    LET b == x.body
        entry == views[n][b.src]
    IN
    /\ Takes(n, x, "FullSnapshot")
    /\ "Ok" \in Verdicts(n, b.wire)
    /\ views' = [views EXCEPT ![n][b.src] = AcceptSnapshot(@, b.gen, b.data)]
    /\ diag' = IF SnapshotAccepted(entry, b.gen)
               THEN Recorded(n, b.src, "ok") ELSE diag
    /\ msgs' = Remaining(x)
    /\ UNCHANGED <<state, hist, wire, departed, feed, scheduled, hostVars>>

\* handle_full_snapshot, when decoding fails.
RejectFullSnapshot(n, x) ==
    LET b == x.body IN
    /\ Takes(n, x, "FullSnapshot")
    /\ \E verdict \in Verdicts(n, b.wire) \ {"Ok"} :
          views' = IF verdict = "DropView" THEN ViewRemoved(n, b.src) ELSE views
    /\ diag' = Recorded(n, b.src, "failing")
    /\ msgs' = Remaining(x)
    /\ UNCHANGED <<state, hist, wire, departed, feed, scheduled, hostVars>>

\* Mutated form: whatever does not follow is taken for old.
PreCheckNoGap(local, gen) == IF gen = NextAge(local) THEN "Follows" ELSE "Stale"

\* The engine's check before the delta applier runs.
PreCheck(local, gen) ==
    CASE gen = NextAge(local)                      -> "Follows"
      [] gen # NextAge(local) /\ Le(gen, local)    -> "Stale"
      [] gen # NextAge(local) /\ ~Le(gen, local)   -> "Gap"

\* handle_delta_update of another wire version: no delta crosses versions.
RejectDeltaVersion(n, x) ==
    LET b == x.body IN
    /\ Takes(n, x, "DeltaUpdate")
    /\ b.wire # wire[n]
    /\ views' = IF OnDeserializeError = "DropView" THEN ViewRemoved(n, b.src)
                ELSE views
    /\ diag' = Recorded(n, b.src, "failing")
    /\ msgs' = Remaining(x)
    /\ UNCHANGED <<state, hist, wire, departed, feed, scheduled, hostVars>>

\* No applier, or no view to apply to: ask for a snapshot.
RequestInsteadOfDelta(n, x) ==
    LET b == x.body IN
    /\ Takes(n, x, "DeltaUpdate")
    /\ b.wire = wire[n]
    /\ ~SupportsDelta \/ views[n][b.src] = NoView
    /\ msgs' = Remaining(x) \cup Send(n, {b.src}, RequestSnapshot(n))
    /\ UNCHANGED <<engineVars, shardVars, hostVars>>

\* A delta n can apply, and how it relates to the view n holds.
ReadableDelta(n, x, relation) ==
    /\ Takes(n, x, "DeltaUpdate")
    /\ x.body.wire = wire[n]
    /\ SupportsDelta
    /\ views[n][x.body.src] # NoView
    /\ PreCheck(views[n][x.body.src].gen, x.body.gen) = relation

DiscardStaleDelta(n, x) ==
    /\ ReadableDelta(n, x, "Stale")
    /\ msgs' = Remaining(x)
    /\ UNCHANGED <<engineVars, shardVars, hostVars>>

RequestAfterGap(n, x) ==
    /\ ReadableDelta(n, x, "Gap")
    /\ diag' = GapRecorded(n, x.body.src)
    /\ msgs' = Remaining(x) \cup Send(n, {x.body.src}, RequestSnapshot(n))
    /\ UNCHANGED <<wire, departed, feed, scheduled, shardVars, hostVars>>

\* The applier fails on a damaged delta.
RequestAfterDamage(n, x) ==
    /\ Damages
    /\ ReadableDelta(n, x, "Follows")
    /\ diag' = Recorded(n, x.body.src, "failing")
    /\ msgs' = Remaining(x) \cup Send(n, {x.body.src}, RequestSnapshot(n))
    /\ UNCHANGED <<wire, departed, feed, scheduled, shardVars, hostVars>>

\* The applier runs on the current view, accept_inbound_delta stores its
\* result.
ApplyDeltaUpdate(n, x) ==
    LET b == x.body IN
    /\ ReadableDelta(n, x, "Follows")
    /\ views' = [views EXCEPT ![n][b.src] =
                    AcceptDelta(@, b.gen, ApplyDelta(@.value, b.data))]
    /\ diag' = Recorded(n, b.src, "ok")
    /\ msgs' = Remaining(x)
    /\ UNCHANGED <<state, hist, wire, departed, feed, scheduled, hostVars>>

HandleRequestSnapshot(n, x) ==
    /\ Takes(n, x, "RequestSnapshot")
    /\ msgs' = Remaining(x) \cup Send(n, {x.body.src}, OwnSnapshot(n))
    /\ UNCHANGED <<engineVars, shardVars, hostVars>>

\* handle_inbound_change_feed: mark_stale for the state's notification.
HandleChangeFeed(n, x) ==
    /\ Takes(n, x, "Feed")
    /\ views' = [views EXCEPT ![n][x.body.src] = MarkStale(@, x.body.gen)]
    /\ msgs' = Remaining(x)
    /\ UNCHANGED <<state, hist, engineVars, hostVars>>

\* A message of a kind that keeps order waits for those of older generations
\* from the same sender.
Deliverable(x) ==
    x.body.type \in InOrder =>
        \A y \in msgs :
            /\ y.dst = x.dst
            /\ y.body.src = x.body.src
            /\ y.body.type # "RequestSnapshot"
            => Le(x.body.gen, y.body.gen)

\* handle_inbound: one message of the mailbox.
Receive(n, x) ==
    /\ Deliverable(x)
    /\ \/ IgnoreDeparted(n, x)
       \/ HandleFullSnapshot(n, x)
       \/ RejectFullSnapshot(n, x)
       \/ RejectDeltaVersion(n, x)
       \/ RequestInsteadOfDelta(n, x)
       \/ DiscardStaleDelta(n, x)
       \/ RequestAfterGap(n, x)
       \/ RequestAfterDamage(n, x)
       \/ ApplyDeltaUpdate(n, x)
       \/ HandleRequestSnapshot(n, x)
       \/ HandleChangeFeed(n, x)

\* The network drops x.
Lose(x) ==
    /\ Loses
    /\ msgs' = msgs \ {x}
    /\ UNCHANGED <<engineVars, shardVars, hostVars>>

-----------------------------------------------------------------------------
(* Cluster membership (ClusterChange) and the peer registry.               *)

\* Mutated form: the departure is not forgotten.
ReadmittedNever(n, p) == departed[n]

\* LifecycleLogic::on_node_joined: who stays departed once p is back.
Readmitted(n, p) == departed[n] \ {p}

\* NodeJoined: forget the departure, add a placeholder, send the joiner our
\* snapshot.
NodeJoined(n, p) ==
    /\ up[n]
    /\ Joined(p) \in events[n]
    /\ OrderedMembership => Left(p) \notin events[n]
    /\ events' = [events EXCEPT ![n] = @ \ {Joined(p)}]
    /\ departed' = [departed EXCEPT ![n] = Readmitted(n, p)]
    /\ views' = [views EXCEPT ![n][p] =
                    IF p = n THEN @ ELSE InsertPlaceholder(@, DefaultView)]
    /\ msgs' = msgs \cup Send(n, {p}, OwnSnapshot(n))
    /\ UNCHANGED <<state, hist, wire, feed, scheduled, diag, up, peers>>

\* LifecycleLogic::on_node_left: the view goes, late messages are filtered.
Depart(n, p) ==
    /\ views' = ViewRemoved(n, p)
    /\ departed' = [departed EXCEPT ![n] = @ \cup {p}]

\* The engine's on_node_left also drops the diagnostics.
EngineNodeLeft(n, p) ==
    /\ Depart(n, p)
    /\ diag' = Recorded(n, p, "none")

\* The actor's: the registry forgets the sender.
NodeLeft(n, p) ==
    /\ up[n]
    /\ Left(p) \in events[n]
    /\ events' = [events EXCEPT ![n] = @ \ {Left(p)}]
    /\ EngineNodeLeft(n, p)
    /\ peers' = [peers EXCEPT ![n] = @ \ {p}]
    /\ UNCHANGED <<state, hist, wire, feed, scheduled, up, msgs>>

\* The host, which owns the registry, registers a running peer again.
RegisterPeer(n, p) ==
    /\ up[n]
    /\ up[p]
    /\ p \notin peers[n] \cup {n}
    /\ peers' = [peers EXCEPT ![n] = @ \cup {p}]
    /\ UNCHANGED <<engineVars, shardVars, up, events, msgs>>

-----------------------------------------------------------------------------
Next ==
    \/ \E n \in Node :
          \/ Crash(n)
          \/ Restart(n)
          \/ \E c \in Change, u \in Urgency :
                Mutate(n, c, u) \/ MutateWithDelta(n, c, u)
          \/ FireDelayed(n)
          \/ FlushChangeFeed(n)
          \/ PeriodicSync(n)
          \/ \E aged \in SUBSET Node : Query(n, aged)
          \/ \E p \in Node :
                NodeJoined(n, p) \/ NodeLeft(n, p) \/ RegisterPeer(n, p)
          \/ \E x \in msgs : Receive(n, x)
    \/ \E x \in msgs : Lose(x)

Spec == Init /\ [][Next]_vars

-----------------------------------------------------------------------------
(* Fairness.  Timers fire, mailboxes are served and the host registers the *)
(* peers it announces; how deliveries behave depends on the network.       *)

ReceiveFrom(n, p, type) ==
    \E x \in msgs : /\ x.body.src = p
                    /\ x.body.type = type
                    /\ Receive(n, x)

\* The snapshot p would send now reaches n.
ReceiveCurrent(n, p) ==
    \E x \in msgs : /\ x.body = OwnSnapshot(p)
                    /\ Receive(n, x)

TimerFairness ==
    \A n \in Node :
        /\ WF_vars(FireDelayed(n))
        /\ WF_vars(FlushChangeFeed(n))
        /\ WF_vars(PeriodicSync(n))
        /\ WF_vars(Query(n, {}))

MembershipFairness ==
    \A n, p \in Node :
        /\ WF_vars(NodeJoined(n, p))
        /\ WF_vars(NodeLeft(n, p))
        /\ WF_vars(RegisterPeer(n, p))

\* Every message that is sent arrives.
ReliableDelivery ==
    \A n, p \in Node :
        \A type \in {"FullSnapshot", "DeltaUpdate", "RequestSnapshot", "Feed"} :
            WF_vars(ReceiveFrom(n, p, type))

\* Messages may be lost, but one that is sent over and over gets through.
FairLossDelivery == \A n, p \in Node : SF_vars(ReceiveCurrent(n, p))

ReliableSpec == Spec /\ TimerFairness /\ MembershipFairness /\ ReliableDelivery

LossySpec == Spec /\ TimerFairness /\ MembershipFairness /\ FairLossDelivery

-----------------------------------------------------------------------------
(* Safety.                                                                 *)

\* Every variable stays in its type (one conjunct per field of the code's
\* structures, total over the nodes).
TypeOK ==
    /\ up \in [Node -> BOOLEAN]
    /\ wire \in [Node -> WireVersion]
    /\ state \in [Node -> [gen : Generation, value : State]]
    /\ views \in [Node -> [Node -> OptEntry]]
    /\ departed \in [Node -> SUBSET Node]
    /\ feed \in [Node -> OptGeneration]
    /\ scheduled \in [Node -> SUBSET SyncBody]
    /\ diag \in [Node -> [Node -> DiagStatus]]
    /\ peers \in [Node -> SUBSET Node]
    /\ events \in [Node -> SUBSET MembershipEvent]
    /\ msgs \subseteq Message
    /\ hist \subseteq [node : Node, gen : Generation, wire : WireVersion, view : View]

\* One generation of one node names one view, in one version: no lifetime and
\* no mutation ever reuses a generation (DistributedStateEngine::new,
\* apply_mutation).
GenerationNamesView ==
    \A h, k \in hist : h.node = k.node /\ h.gen = k.gen => h = k

\* Whatever was lost, repeated, reordered, damaged or delayed, the view a node
\* holds of a peer is exactly what that peer published at the generation the
\* entry carries, in a version the node reads: no delta was applied to a wrong
\* base (handle_delta_update, accept_inbound_delta), no payload of an unknown
\* version was stored (handle_full_snapshot).
ViewIntegrity ==
    \A n, p \in Node :
        views[n][p] # NoView /\ views[n][p].gen # Zero =>
            \E w \in Reads[wire[n]] :
                Published(p, views[n][p].gen, w, views[n][p].value) \in hist

\* The own entry every snapshot is read from is the projection of the state
\* whose generation the snapshot is sent under (own_view_value, update_own_view).
OwnViewCurrent ==
    \A n \in Node :
        views[n][n] = OwnEntry(state[n].gen, Project(state[n].value))

\* Nobody believes in a generation its owner has not reached, neither as a view
\* nor as an announcement: a pull can always clear the staleness mark
\* (mark_stale, on_node_joined's pending of (1, 0), notify_change).
NotFromTheFuture ==
    \A n, p \in Node :
        views[n][p] # NoView =>
            /\ Le(views[n][p].gen, state[p].gen)
            /\ views[n][p].pending # NoGen =>
                  Le(views[n][p].pending, state[p].gen)

\* A staleness mark is ahead of the view it marks: it is gone as soon as the
\* view catches up, so no query pulls for what it already has.
PendingAhead ==
    \A n, p \in Node :
        views[n][p] # NoView /\ views[n][p].pending # NoGen =>
            Lt(views[n][p].gen, views[n][p].pending)

\* No late message brings back the view or the diagnostics of a peer that left
\* (LifecycleLogic.departed_nodes, DiagnosticsLogic::remove_peer).
NoGhosts ==
    \A n \in Node : \A p \in departed[n] \ {n} :
        views[n][p] = NoView /\ diag[n][p] = "none"

-----------------------------------------------------------------------------
(* Action properties.                                                      *)

\* While an entry exists it only moves to newer generations, within a lifetime
\* of its owner and across them.
ViewsMoveForward ==
    [][\A n, p \in Node :
          views[n][p] # NoView /\ views'[n][p] # NoView =>
              Le(views[n][p].gen, views'[n][p].gen)]_vars

\* "Only clear pending_remote_generation if we've caught up"
\* (accept_inbound_snapshot, accept_inbound_delta): once a peer announced a
\* generation, the entry stays marked, at least that far ahead, until the view
\* has reached it.
AnnouncementKept ==
    [][\A n, p \in Node :
          LET e == views[n][p]
              f == views'[n][p]
          IN  e # NoView /\ f # NoView /\ e.pending # NoGen =>
                \/ Le(e.pending, f.gen)
                \/ f.pending # NoGen /\ Le(e.pending, f.pending)]_vars

\* "Do not push this mutation; accumulate into the next non-suppressed delta"
\* (SyncUrgency::Suppress): where no message is lost or overtaken, the delta that
\* arrives next, of the lifetime a node has a view of, continues that view
\* (mutate_with_delta, DeltaAccumulator).
SuppressedJoinNextDelta ==
    \A x \in msgs :
        Deliverable(x) /\ ReadableDelta(x.dst, x, "Gap") =>
            x.body.gen.inc # views[x.dst][x.body.src].gen.inc

-----------------------------------------------------------------------------
(* Refinement.                                                             *)

\* The copies the view maps hold: every entry but the own ones, without marks.
Copies ==
    [n \in Node |-> [p \in Node |->
        IF p = n \/ views[n][p] = NoView THEN NoView
        ELSE [gen |-> views[n][p].gen, value |-> views[n][p].value]]]

Abstract == INSTANCE ReplicatedViews
                WITH NoCopy <- NoView, published <- hist, copy <- Copies

\* The whole protocol implements the promise of ReplicatedViews: copies are
\* genuine published versions and are replaced by newer ones only.
ImplementsReplicatedViews == Abstract!Spec

-----------------------------------------------------------------------------
(* Liveness.                                                               *)

Current(n, p) == views[n][p] # NoView /\ views[n][p].gen = state[p].gen

\* Two nodes that stay up end up with each other's latest state.
Converges ==
    \A n, p \in Node :
        <>[](up[n] /\ up[p]) => <>[]Current(n, p)

=============================================================================
