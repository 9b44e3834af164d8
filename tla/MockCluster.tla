---------------------------- MODULE MockCluster ----------------------------
(***************************************************************************)
(* The deterministic cluster of dstate-integration/src/cluster.rs: engines *)
(* driven by a tick, joined by MockTransport, under the faults a test      *)
(* installs.  The steps are the calls of a test; a tick is one step, with  *)
(* every delivery, timer and flush it makes.                               *)
(*                                                                         *)
(* Ticks are relative, so a settled cluster that ticks does not change.    *)
(***************************************************************************)
EXTENDS Engine, SequencesExt, Functions

CONSTANTS
    NodeOrder,          \* the nodes in the order of the BTreeMap's keys
    Absent,             \* the cluster has no such node
    Garbage,            \* bytes that do not decode to a message
    OtherWire,          \* a wire version no build reads
    Interceptor,        \* the interceptors tests install
    TickMs,             \* tick_duration
    BatchMs,            \* change_feed.batch_interval
    DelayMs,            \* the delay of SyncUrgency::Delayed
    UrgencyOf(_, _),    \* the urgencies a change made in a state may be given
    Writers,            \* bound: the nodes that mutate
    Leavers,            \* bound: the nodes that are removed
    MaxCalls            \* bound: the calls of a test, besides its ticks

ASSUME ClusterAssumption ==
    /\ NodeOrder \in Seq(Node) /\ ToSet(NodeOrder) = Node /\ IsInjective(NodeOrder)
    /\ OtherWire \notin WireVersion
    /\ {TickMs, BatchMs, DelayMs, MaxCalls} \subseteq Nat
    /\ \A c \in Change : UrgencyOf(InitState, c) \subseteq SyncUrgency

\* Finitely many built-in interceptors, each as its constructor makes it.
ASSUME InterceptorAssumption ==
    /\ IsFiniteSet(Interceptor)
    /\ \A i \in Interceptor :
          /\ i.kind \in {"PassThrough", "DropAll", "DropRate", "Partition",
                         "DelayTicks", "DuplicateAll", "CorruptBytes"}
          /\ i.kind = "DelayTicks" => i.ticks \in Nat

VARIABLES
    nodes,          \* nodes[n]: a MockNode, or Absent
    in_flight,      \* MockTransport's queue
    interceptors,   \* MockTransport's pipeline
    lives,          \* lives[n]: the incarnation of n's latest engine
    calls,          \* how many calls the test has made
    waited,         \* ticks since the last call, while not settled
    stamped,        \* the nodes whose latest engine the clock has not moved past
    excused,        \* ghost: <<n, p>>: n may have missed the latest of p
    withheld,       \* ghost: the nodes whose latest mutation is not to be sent
    crashed         \* ghost: the nodes removed hard and not added again

vars == <<nodes, in_flight, interceptors, lives, calls, waited, stamped,
          excused, withheld, crashed>>

testVars == <<interceptors, lives, stamped, crashed>>

-----------------------------------------------------------------------------
(* What one flipped bit makes of a message: bytes that do not decode (or   *)
(* name another state, which every engine ignores), a version nobody reads *)
(* or a payload that does not decode.  A flip that leaves a valid message  *)
(* saying something else is left out: neither the transport nor the engine *)
(* could notice it.                                                        *)

IsSync(b) == b # Garbage /\ b.type \in {"FullSnapshot", "DeltaUpdate"}

BitFlipped(b) ==
    {Garbage} \cup
    IF IsSync(b)
    THEN {[b EXCEPT !.wire = OtherWire], [b EXCEPT !.data = Malformed]}
    ELSE {}

INSTANCE MockTransport

IsHurt(b) == b = Garbage \/ (IsSync(b) /\ (b.wire = OtherWire \/ b.data = Malformed))

-----------------------------------------------------------------------------
(* Sending.  A network is the queue and the ghost; what a list of sends    *)
(* makes of it depends on the fates of the messages.                       *)

Network == [queue |-> in_flight, excused |-> excused]

Message(from, to, body) == [from |-> from, to |-> to, body |-> body]

\* Whose view of whom a message is to bring forward.
Concerns(m) ==
    IF m.body.type = "RequestSnapshot" THEN <<m.from, m.to>> ELSE <<m.to, m.from>>

OnLink(net, m) == {f \in ToSet(net.queue) : f.from = m.from /\ f.to = m.to}

\* An announcement that will arrive before one sent earlier: the late one
\* lowers its mark (run FeedReorder).
Overtakes(net, m, fate) ==
    /\ m.body.type = "Feed"
    /\ \E f \in OnLink(net, m) :
          f.data # Garbage /\ f.data.type = "Feed" /\ f.due > 1 + fate.ticks

\* The ghost after m met its fate: a message lost, or overtaken so, may leave a
\* view behind; the first copy of a generation makes up for it, unless something
\* damaged is still to come on the link.
Excuses(net, m, fate, news) ==
    IF fate.copies = 0 \/ fate.data # m.body \/ Overtakes(net, m, fate)
    THEN net.excused \cup {Concerns(m)}
    ELSE IF news /\ ~\E f \in OnLink(net, m) : IsHurt(f.data)
    THEN net.excused \ {Concerns(m)}
    ELSE net.excused

\* MockTransport::send.
Send(net, m, news) ==
    {[queue |-> net.queue \o Queued(m.from, m.to, fate),
      excused |-> Excuses(net, m, fate, news)] :
        fate \in ApplyInterceptors(interceptors, m.from, m.to, m.body)}

SendAll(net, messages, news) ==
    FoldLeft(LAMBDA nets, m : UNION {Send(x, m, news) : x \in nets}, {net}, messages)

\* The outcome is stored.
Into(nets) ==
    \E net \in nets : in_flight' = net.queue /\ excused' = net.excused

Present(ns) == Only(NodeOrder, {n \in Node : ns[n] # Absent})

\* MockTransport::broadcast to all_node_ids.
Broadcast(ns, from, body) ==
    LET others == Only(Present(ns), Node \ {from})
    IN  [k \in DOMAIN others |-> Message(from, others[k], body)]

\* The messages F(n) of every node of a list, in order.
ForEach(list, F(_)) == FlattenSeq([k \in DOMAIN list |-> F(list[k])])

\* is_settled.
IsSettled ==
    /\ in_flight = <<>>
    /\ \A n \in Node : nodes[n] # Absent =>
          nodes[n].scheduled = <<>> /\ nodes[n].engine.feed = NoGen

-----------------------------------------------------------------------------
(* Membership.                                                             *)

\* Rounded up: never flushed more often than configured, nor sent earlier.
CeilTicks(ms) ==
    LET tick == Max({TickMs, 1}) IN (ms + tick - 1) \div tick

FeedFlushInterval == Max({CeilTicks(BatchMs), 1})

MockNode(e) == [engine |-> e, scheduled |-> <<>>, counter |-> 0]

\* add_node: the others and the newcomer hear of each other ...
Admitted(ns, n, inc) ==
    [p \in Node |->
        IF p = n THEN MockNode(FoldLeft(OnNodeJoined, NewEngine(n, inc), Present(ns)))
        ELSE IF ns[p] = Absent THEN Absent
        ELSE [ns[p] EXCEPT !.engine = OnNodeJoined(@, n)]]

\* ... and send each other their snapshots.
Greetings(ns, n, inc) ==
    LET existing == Present(ns) IN
    [k \in DOMAIN existing |->
        Message(existing[k], n, OwnSnapshot(ns[existing[k]].engine))]
    \o
    [k \in DOMAIN existing |->
        Message(n, existing[k], OwnSnapshot(NewEngine(n, inc)))]

\* with_test_state: the nodes are added one by one to an empty cluster, over a
\* network without faults.
Init ==
    LET Build(c, n) ==
            [nodes |-> Admitted(c.nodes, n, 1),
             sent |-> c.sent \o Greetings(c.nodes, n, 1)]
        built == FoldLeft(Build, [nodes |-> [n \in Node |-> Absent], sent |-> <<>>],
                          NodeOrder)
    IN
    /\ nodes = built.nodes
    /\ in_flight = [k \in DOMAIN built.sent |->
            Frame(built.sent[k].from, built.sent[k].to, built.sent[k].body, 1)]
    /\ interceptors = <<>>
    /\ lives = [n \in Node |-> 1]
    /\ stamped = Node
    /\ calls = 0
    /\ waited = 0
    /\ excused = {}
    /\ withheld = {}
    /\ crashed = {}

\* The calls of a test, but for the ticks, are counted.
Call ==
    /\ calls < MaxCalls
    /\ calls' = calls + 1
    /\ waited' = 0

\* The incarnation of n's new engine is the reading of the TestClock: a test
\* lets the clock move before it brings a node back.
Stamp(n) ==
    /\ n \notin stamped
    /\ lives' = [lives EXCEPT ![n] = @ + 1]
    /\ stamped' = stamped \cup {n}

\* TestClock::advance: the next reading is above all earlier ones.
AdvanceClock == stamped' = {}

AddNode(n) ==
    /\ Call
    /\ nodes[n] = Absent
    /\ Stamp(n)
    /\ nodes' = Admitted(nodes, n, lives[n] + 1)
    /\ Into(SendAll(Network, Greetings(nodes, n, lives[n] + 1), TRUE))
    /\ crashed' = crashed \ {n}
    /\ withheld' = withheld \ {n}
    /\ UNCHANGED interceptors

Without(n) ==
    [p \in Node |-> IF p = n \/ nodes[p] = Absent THEN Absent
                    ELSE [nodes[p] EXCEPT !.engine = OnNodeLeft(@, n)]]

\* remove_node: a graceful departure; what n sent may still arrive.
RemoveNode(n) ==
    /\ Call
    /\ nodes[n] # Absent
    /\ n \in Leavers
    /\ nodes' = Without(n)
    /\ UNCHANGED <<in_flight, excused, withheld, testVars>>

\* remove_node_hard: a crash that takes along all that is queued for or by n.
RemoveNodeHard(n) ==
    /\ Call
    /\ nodes[n] # Absent
    /\ n \in Leavers
    /\ nodes' = Without(n)
    /\ in_flight' = DropInFlightFor(in_flight, n)
    /\ crashed' = crashed \cup {n}
    /\ UNCHANGED <<interceptors, lives, stamped, excused, withheld>>

-----------------------------------------------------------------------------
(* Mutations and reads of a test, and the routing of what they return.     *)

DelayInTicks == CeilTicks(DelayMs)

\* The ghost after a mutation of n that is sent or announced, or is not.
Shares(n) == withheld' = withheld \ {n}

Withholds(n) == withheld' = withheld \cup {n} /\ UNCHANGED <<in_flight, excused>>

\* MockCluster::mutate and its route_actions.
Mutate(n, c, urgency) ==
    /\ Call
    /\ nodes[n] # Absent
    /\ n \in Writers
    /\ urgency \in UrgencyOf(nodes[n].engine.value, c)
    /\ LET e == nodes[n].engine
           action == ResolveAction(urgency)
           body == SnapshotBody(e, c)
           moved == [nodes EXCEPT ![n].engine = AfterMutation(e, c, action)]
       IN \/ /\ action \in {"BroadcastSnapshot", "BroadcastDelta"}
             /\ nodes' = moved
             /\ Into(SendAll(Network, Broadcast(nodes, n, body), TRUE))
             /\ Shares(n)
          \/ /\ action = "ScheduleDelayed"
             /\ nodes' = [moved EXCEPT ![n].scheduled =
                            Append(@, [body |-> body, in |-> DelayInTicks])]
             /\ Shares(n)
             /\ UNCHANGED <<in_flight, excused>>
          \/ /\ action = "NotifyChangeFeed"
             /\ nodes' = moved
             /\ Shares(n)
             /\ UNCHANGED <<in_flight, excused>>
          \/ /\ action = "Suppress"
             /\ nodes' = moved
             /\ Withholds(n)
    /\ UNCHANGED testVars

\* mutate_with_delta on the engine, its actions routed by the test's helper,
\* which leaves delayed ones out.
MutateWithDelta(n, c, urgency) ==
    /\ Call
    /\ nodes[n] # Absent
    /\ n \in Writers
    /\ urgency \in UrgencyOf(nodes[n].engine.value, c)
    /\ LET e == nodes[n].engine
           action == ResolveAction(urgency)
       IN /\ nodes' = [nodes EXCEPT ![n].engine = AfterMutation(e, c, action)]
          /\ \/ /\ action \in {"BroadcastSnapshot", "BroadcastDelta"}
                /\ Into(SendAll(Network,
                                Broadcast(nodes, n, DeltaBody(e, c, action)), TRUE))
                /\ Shares(n)
             \/ /\ action = "NotifyChangeFeed"
                /\ Shares(n)
                /\ UNCHANGED <<in_flight, excused>>
             \/ /\ action \in {"ScheduleDelayed", "Suppress"}
                /\ Withholds(n)
    /\ UNCHANGED testVars

Query(n, aged) ==
    /\ Call
    /\ nodes[n] # Absent
    /\ LET e == nodes[n].engine
           pulled == Only(NodeOrder, Pulled(e, aged))
       IN  Into(SendAll(Network, [k \in DOMAIN pulled |->
                                    Message(n, pulled[k], Request(e))], FALSE))
    /\ UNCHANGED <<nodes, withheld, testVars>>

PeriodicSync(n) ==
    /\ Call
    /\ nodes[n] # Absent
    /\ PeriodicFullSync
    /\ Into(SendAll(Network, Broadcast(nodes, n, OwnSnapshot(nodes[n].engine)), FALSE))
    /\ UNCHANGED <<nodes, withheld, testVars>>

AddInterceptor(i) ==
    /\ Call
    /\ i \notin ToSet(interceptors)
    /\ interceptors' = Append(interceptors, i)
    /\ UNCHANGED <<nodes, in_flight, lives, stamped, excused, withheld, crashed>>

ClearInterceptors ==
    /\ Call
    /\ interceptors' = <<>>
    /\ UNCHANGED <<nodes, in_flight, lives, stamped, excused, withheld, crashed>>

-----------------------------------------------------------------------------
(* tick.                                                                   *)

\* Phase 1: the frames that are due, one after the other; the answers are
\* routed when all are handled.
Handle(acc, f) ==
    IF acc.nodes[f.to] = Absent THEN acc
    ELSE LET e == acc.nodes[f.to].engine
             answers == Replies(e, f.data)
         IN  [nodes |-> [acc.nodes EXCEPT ![f.to].engine = HandleInbound(e, f.data)],
              out |-> acc.out \o [k \in DOMAIN answers |->
                                    Message(f.to, f.data.src, answers[k])]]

\* Phase 2: the delayed sends whose tick has come.
Timers(ns, n) ==
    LET due == Only(ns[n].scheduled, {s \in ToSet(ns[n].scheduled) : s.in = 0})
    IN  ForEach(due, LAMBDA s : Broadcast(ns, n, s.body))

\* Phase 3: the counter runs only while something is pending.
Flushes(ns, n) ==
    /\ ns[n].engine.feed # NoGen
    /\ ns[n].counter + 1 >= FeedFlushInterval

Feeds(ns, n) ==
    IF Flushes(ns, n) THEN Broadcast(ns, n, FeedBatch(ns[n].engine)) ELSE <<>>

Later(scheduled) == Only(scheduled, {s \in ToSet(scheduled) : s.in # 0})

\* Phases 2 to 4 at one node.
AfterTimers(ns, n) ==
    LET later == Later(ns[n].scheduled) IN
    [engine |-> IF Flushes(ns, n) THEN Flushed(ns[n].engine) ELSE ns[n].engine,
     scheduled |-> [k \in DOMAIN later |-> [later[k] EXCEPT !.in = @ - 1]],
     counter |-> IF ns[n].engine.feed = NoGen \/ Flushes(ns, n) THEN 0
                 ELSE ns[n].counter + 1]

\* The ghost: an announcement that finds no entry of its sender marks nothing
\* (mark_stale), so what it announced is missed.
Unheard ==
    {<<f.to, f.from>> : f \in {g \in ToSet(Delivered(in_flight)) :
        /\ g.data.type = "Feed"
        /\ nodes[g.to] # Absent /\ nodes[g.to].engine.views[g.from] = NoView}}

Tick ==
    LET handled == FoldLeft(Handle, [nodes |-> nodes, out |-> <<>>],
                            Delivered(in_flight))
        ns == handled.nodes
        sends == handled.out
                    \o ForEach(Present(ns), LAMBDA n : Timers(ns, n))
                    \o ForEach(Present(ns), LAMBDA n : Feeds(ns, n))
        before == [queue |-> StillWaiting(in_flight), excused |-> excused \cup Unheard]
    IN
    /\ nodes' = [n \in Node |-> IF ns[n] = Absent THEN Absent ELSE AfterTimers(ns, n)]
    /\ Into({[net EXCEPT !.queue = AdvanceTick(@)] :
                net \in SendAll(before, sends, FALSE)})
    /\ AdvanceClock
    /\ waited' = IF IsSettled' THEN 0 ELSE waited + 1
    /\ UNCHANGED <<interceptors, lives, calls, withheld, crashed>>

-----------------------------------------------------------------------------
Next ==
    \/ \E n \in Node :
          \/ AddNode(n)
          \/ RemoveNode(n)
          \/ RemoveNodeHard(n)
          \/ \E c \in Change, u \in SyncUrgency :
                Mutate(n, c, u) \/ MutateWithDelta(n, c, u)
          \/ \E aged \in {{}, Node} : Query(n, aged)
          \/ PeriodicSync(n)
    \/ \E i \in Interceptor : AddInterceptor(i)
    \/ ClearInterceptors
    \/ Tick

Spec == Init /\ [][Next]_vars

-----------------------------------------------------------------------------
\* The nodes, the queue and the pipeline stay in their types; nothing waits
\* past its tick.
ClusterTypeOK ==
    /\ \A n \in Node : nodes[n] # Absent =>
          LET e == nodes[n].engine IN
          /\ e.id = n
          /\ e.gen \in Generation
          /\ e.value \in State
          /\ e.views \in [Node -> OptEntry]
          /\ e.departed \subseteq Node
          /\ e.feed \in OptGeneration
          /\ DOMAIN e.diag \subseteq Node
          /\ \A p \in DOMAIN e.diag : e.diag[p] \in PeerDiagnostics
          /\ \A s \in ToSet(nodes[n].scheduled) : s.in \in Nat
          /\ nodes[n].counter \in 0 .. FeedFlushInterval - 1
    /\ \A f \in ToSet(in_flight) : f.from \in Node /\ f.to \in Node /\ f.due \in Nat
    /\ ToSet(interceptors) \subseteq Interceptor
    /\ lives \in [Node -> Nat]
    /\ calls \in 0 .. MaxCalls
    /\ waited \in Nat
    /\ stamped \subseteq Node
    /\ excused \subseteq Node \X Node
    /\ withheld \subseteq Node
    /\ crashed \subseteq Node

\* What a test may rely on after settle(): a node's view of a peer is the peer's
\* latest, or is marked as behind it, unless a message the view depended on was
\* lost, or a mutation was held back, and nothing newer was sent since (mutate,
\* tick, handle_delta_update, route_actions).  Flipped bits are those of
\* BitFlipped: nothing is said where a flip made another valid message.
SettledIsCurrent ==
    IsSettled =>
        \A n, p \in Node :
            /\ nodes[n] # Absent /\ nodes[p] # Absent
            /\ <<n, p>> \notin excused /\ p \notin withheld
            =>
                LET entry == nodes[n].engine.views[p]
                    owner == nodes[p].engine
                IN  /\ entry # NoView
                    /\ \/ entry.gen = owner.gen /\ entry.value = Project(owner.value)
                       \/ entry.pending # NoGen

\* After settle() a node that missed nothing of the peers it has an entry of, and
\* has nothing to pull, reports itself healthy: no failure outlives the first
\* newer update that follows it (health_status, record_sync_success).  Flipped
\* bits are those of BitFlipped.
SettledIsHealthy ==
    IsSettled =>
        \A n \in Node :
            /\ nodes[n] # Absent
            /\ \A p \in KnownPeers(n, nodes[n].engine.views) :
                  /\ <<n, p>> \notin excused
                  /\ nodes[n].engine.views[p].pending = NoGen
            => Health(nodes[n].engine, {}) = "Healthy"

\* A hard crash is silent: until the node is added again nothing is under way
\* from it or to it (remove_node_hard, drop_in_flight_for, departed_nodes).
CrashSilences ==
    \A f \in ToSet(in_flight) : f.from \notin crashed /\ f.to \notin crashed

\* settle() never meets its limit ("possible infinite loop"): what a call sets
\* off is a timer and the message it sends, or a delta, a request and an answer,
\* each message held as long as an interceptor holds it, and then the cluster is
\* quiet (settle_with_limit, tick, handle_delta_update).
LongestTimer == Max({DelayInTicks, FeedFlushInterval})

LongestHop ==
    1 + Max({0} \cup {i.ticks : i \in {j \in Interceptor : j.kind = "DelayTicks"}})

SettlesInTime == waited <= Max({LongestTimer + LongestHop, 3 * LongestHop})

=============================================================================
