# A TLA+ model of dstate

dstate replicates small application states in a cluster. Every node owns one
instance of a state, publishes a projection of it (the *view*) and keeps a map
of the views of all other nodes, to be read locally. This directory holds a
model of that protocol, the TLC runs that check it on small instances, and
proofs of its safety properties for every instance.

## 1. Inventory

| Component | State it keeps | Operations | Talks to |
|---|---|---|---|
| `DistributedStateEngine` (`dstate/src/engine.rs`) | the parts below | `new`, `mutate`, `mutate_with_delta`, `handle_inbound*`, `flush_change_feed`, `on_node_joined`, `on_node_left`, `query`, `periodic_sync` | returns `EngineAction`s to its host |
| `ShardCore` (`core/shard_core.rs`) | the owned `StateObject`, the view map | `apply_mutation*`, `prepare/commit_mutation`, `accept_inbound_snapshot/delta`, `mark_stale`, `on_node_joined/left`, `query_local` | called by the engine |
| `ViewMap` (`core/view_map.rs`) | two levels of `ArcSwap`: map, entries | `get`, `update`, `update_if`, `insert_node`, `upsert`, `remove_node`, `snapshot` | read lock-free by other threads |
| `SyncLogic` (`core/sync_logic.rs`) | the `SyncStrategy` | `resolve_action` | pure |
| `ChangeFeedLogic` (`core/change_feed_logic.rs`) | pending notifications | `notify_change`, `flush`, `route_inbound_batch` | engine |
| `VersioningLogic` (`core/versioning_logic.rs`) | policy, versions | `on_inbound`, `on_deserialize_error`, `try_load_with_migration` | engine, startup |
| `LifecycleLogic` (`core/lifecycle_logic.rs`) | `departed_nodes` | `on_node_joined/left`, `should_accept_from` | engine |
| `DiagnosticsLogic` (`core/diagnostics.rs`) | counters, one record per peer | `record_*`, `remove_peer`, `health_status` | engine |
| `StateActor`, `PeerRegistry` (`dstate-dactor/src/state_actor.rs`) | the engine, the senders of the peers, a cancellation token | one handler per message, `route_actions`, delayed tasks | mailboxes of the peers; the registry is shared with the host |
| `PersistenceStartupLogic` (`core/persistence_startup_logic.rs`) | storage version | `initialize` | the persistence backend |
| `DeltaAccumulator` (`core/delta_accumulator.rs`) | a buffer of deltas | `accumulate`, `flush` | nobody: the engine does not use it |
| `StateRegistry` (`registry.rs`) | shards by name, with their types | `register`, `lookup_typed`, `broadcast_node_joined/left` | the shards of a node |
| `MockCluster`, `MockTransport`, interceptors (`dstate-integration/src`) | engines, their timers, messages in flight, the fault pipeline | `add_node`, `remove_node`, `remove_node_hard`, `mutate`, `tick`, `settle` | engines under test |
| `NodeResource` (`dstate/examples/node_resource.rs`) | CPU, memory and disk of a node | `project_view`, `project_delta`, `apply_delta`, `sync_urgency`, `find_lowest_memory_node` | an application of the library |

What is hard here:

* **Order of messages.** Snapshots, deltas and announcements of one sender,
  immediate or delayed, overtake each other; a delta only makes sense on the
  view it starts from. Properties: `ViewIntegrity`, `ViewsMoveForward`,
  `AnnouncementKept`.
* **Loss and repetition.** Nothing is acknowledged. Currency rests on gap
  detection, pulls and periodic full syncs: `Converges`.
* **Crash and restart.** A node comes back without its state, with a new
  incarnation and ages that start at zero, while its earlier messages are
  still in transit: `GenerationNamesView`, `NotFromTheFuture`,
  `ViewsMoveForward`.
* **Persistence.** Between preparing, saving and committing a mutation, and
  between what is announced and what is stored, a crash, a failed save, another
  caller or a new build may come: `Durable`, `CommitsContinue`,
  `DeltasContinue`, `NeverBehind`, `ImplementsOwner`, `EqualIsDuplicate`.
* **Membership.** `NodeJoined` and `NodeLeft` come from outside and race with
  messages and with each other: `NoGhosts`, `Converges`.
* **Mixed versions.** In a rolling upgrade some payloads cannot be read:
  `ViewIntegrity`, `ImplementsReplicatedViews`.
* **Two copies of one fact.** The state and the own view-map entry; an entry
  and its staleness mark: `OwnViewCurrent`, `PendingAhead`.
* **Lock-free reads.** Other threads load the outer map and then the entries
  while the owner replaces both: `ReadsAreCurrent`, `ReadsMoveForward`,
  `VerdictMatchesProjection`.
* **Faults in sequence.** Losses, delays, duplicates, flipped bits, departures
  and crashes combine over several ticks, and a cluster must still come to rest:
  `SettlesInTime`, `SettledIsCurrent`, `SettledIsHealthy`, `CrashSilences`,
  `PlacementIsRight`.
* **States that share a feed.** Announcements of all states of a node are
  deduplicated and sent in one batch: `ChangesAreAnnounced`, `NobodyAhead`.

`PROJECT.json` lists these as hazards with the line at which each one bites.

## 2. Modules

| Module | Models |
|---|---|
| `Generations` | `Generation` and its order |
| `SyncLogic` | which action an urgency resolves to under a strategy |
| `VersioningLogic` | what becomes of a payload that may be unreadable |
| `ShardCore` | what one view-map entry becomes on each inbound event |
| `StateCluster` | the composition: engines in actors, delayed tasks, network, membership, host; all properties |
| `ReplicatedViews` | the abstract specification: copies are published versions, replaced by newer ones only |
| `PersistentShard` | one owner with storage: two-phase mutations, crashes, startup and migration; its properties |
| `ViewMap` | the two levels of `ArcSwap`: the owner's writes and each load of a reader |
| `StateHost` | nodes with several states: `StateRegistry` and the shared `ChangeFeedLogic` |
| `Diagnostics` | the records of the peers and the health classification |
| `Engine` | an engine as a value: each method as a function to the next engine and its messages |
| `MockTransport` | the queue of the mock transport and its interceptors |
| `MockCluster` | the composition of engines, transport and ticks, and what `settle` promises |
| `NodeResource` | the example application: its views, deltas and urgencies |
| `Placement` | the harness with the example application: what placing work by `find_lowest_memory_node` relies on |
| `MCStateCluster`, `MCPersistentShard`, `MCViewMap`, `MCStateHost`, `MCMockCluster` | data and small sets for TLC |
| `GenerationsProofs` | the order lemmas |
| `StateClusterProofs` | the cluster: types, the inductive invariant and the safety theorems, the theorems about steps, the refinement of `ReplicatedViews`, the agreement with `Engine`; the law of the health ranks |
| `PersistentShardProofs` | the theorems about persistent shards |
| `ViewMapProofs` | the theorems about readers of the view map |
| `StateHostProofs` | the theorems about hosts with several states |
| `FoldProofs` | what a fold over a list of any length goes through, for any operator |
| `MockClusterProofs` | the harness: types, silent crashes, bounded settling; whatever is stored or under way is what its owner showed |
| `SettledProofs` | the harness: what a settled cluster is left with; the laws of the example and its placement of work |

`StateCluster` restarts a node without its state, as the engine does, which
never persists. `PersistentShard` is the other way to start a lifetime. Both
implement the same `ReplicatedViews`: `StateCluster` as a whole, and
`PersistentShard` the part that says how an owner publishes, each storage version
as an owner of its own.

### State and actions

A handler runs to completion on its actor, so a handler is one step, with all
the engine calls and all the sends it makes. `Receive` splits `handle_inbound`
into one action per outcome: each early return of `handle_full_snapshot` and
`handle_delta_update` is a disjunct. `FireDelayed` is the task spawned for
`ScheduleDelayed`; it reads the registry when it fires, as the code does.

| Variable | Code |
|---|---|
| `state[n]` | `ShardCore.state` (generation and value) |
| `views[n][p]` | the entry of `p` in `ShardCore.views`; `NoView` when absent |
| `departed[n]` | `LifecycleLogic.departed_nodes` |
| `feed[n]` | `ChangeFeedLogic.pending`: an engine notifies for its own state only, so one generation or none |
| `scheduled[n]` | delayed tasks that have not fired |
| `diag[n][p]` | the record of `p` in `DiagnosticsLogic.peers`: absent, without, with consecutive failures |
| `peers[n]` | the keys of the `PeerRegistry` |
| `wire[n]` | `wire_version` of the running build |
| `up`, `events`, `msgs` | environment: processes, membership events under way, messages under way |
| `hist` | ghost: everything ever published; it is read by properties only |

Abstractions:

* One state per engine; messages of other `state_name`s are ignored by the code
  at once and are left out.
* States, views, changes and deltas are constants. `DeltaLaw` is what
  `DeltaDistributedState` requires of an application: applying the delta of a
  change to the view before it gives the view after it.
* Time: a delayed task fires at any later step; `Query(n, aged)` takes the set
  of peers whose `synced_at` is too old as an arbitrary input.
* `msgs` is a set. Sending the same message twice while the first is in transit
  is one message. With `Redelivers` it may be taken any number of times; with
  `Damages` a payload may fail to decode; with `Loses` a message may vanish (in
  the runs without fairness, never being delivered is loss as well).
  `InOrder` is the set of the message kinds of which, on one link, none
  overtakes an older generation.
* The clock that seeds incarnations advances between two starts of one node:
  `Restart` takes an incarnation above the last one. This is the assumption
  of `DistributedStateEngine::new` (`clock.unix_ms()`); what happens without it
  is the mutated form `LifetimeOfOld`, which breaks `GenerationNamesView`.
* Ages and incarnations are naturals; a `u64` counter of milliseconds or
  mutations does not wrap in practice, and nothing in the code depends on it.
* The membership service reports each departure and each arrival once, in any
  order unless `OrderedMembership`. The host registers the senders of running
  peers (`RegisterPeer`); `NodeLeft` removes them, as the handler does.

### The persistent shard

| Variable | Code |
|---|---|
| `state`, `own` | `ShardCore.state` and the own entry of `ShardCore.views`; absent while the process is down |
| `prepared[t]` | the `PreparedMutation` or `PreparedDeltaMutation` task `t` holds, and whether its `save` has returned |
| `disk` | what `StatePersistence::load` would return |
| `build` | `current_storage_version` of the deployed build |
| `clock` | the last `Clock::unix_ms()` |
| `serial` | whether the host makes its callers take turns; chosen at the start and never changed |
| `published` | ghost: every outcome a commit or a start has returned, with the storage version of its build |

The repository has the parts (`prepare_mutation`, `commit_mutation`,
`initialize`, the trait) and no code that strings them together, so the order
in which a caller uses them is taken from their documentation: prepare, save,
then commit, or drop what was prepared when the save fails. A save is one
atomic write; one that reports an error may have written all the same, but not
later. The shard does not keep callers apart; the design has a single actor that does.
Both hosts are in the model: with `serial` a caller prepares only while no other
holds a preparation, without it preparations overlap. A failing assertion in a commit takes the process down. `load()` returns
what is stored or, with `LoadFails`, an error, which `initialize` treats as it
treats an empty storage. `Migrate` and `Migratable` are the application's
`migrate_state`, a function of the stored state and the two versions. `Redeploy`
says which build may replace which. The clock never goes back; with
`ClockStalls` a restart may find it unchanged.

`ApplicationLaw` is the contract of deltas and asks nothing of migrations: they may
change the view, as those of the tests PERSIST-14 and PERSIST-16 do, and builds may
begin with different empty states. A migrated state keeps its generation all the same.
So `Durable` speaks of the stored state as the announcing build reads it
(`ReadBy`), and `DeltasContinue` and `ImplementsOwner` of the announcements of one
storage version. Across storage versions, between which peers make no
difference, they do not hold; `EqualIsDuplicate`, under "Disagreements", is about that.

### Readers of the view map

`ShardCore`'s reading methods take `&self`, so other threads may call them while
the owner works. `outer` is the map the outer `ArcSwap` points to, `cells` what
each inner one holds. There is one writer, so a write is the one atomic store
that makes it visible. A read is not one step: `Begin` loads the map, each
`LoadEntry` one entry, `TakeNow` the clock, in the order `query_local` and
`stale_peers` have them. `CheckStaleness` then takes the verdict and `Project` runs the
caller's projection, which may take long; the owner writes in between, and
`VerdictMatchesProjection` compares the verdict with what was projected. A cell stays alive while the map or a reader's copy of
it leads to it (`Kept`), and is then free for another peer. The ghost `during`
collects what an entry has been since a call began, `floor` the newest
generation a reader has seen of a peer since the peer last left.

### Hosts with several states

`StateHost` has the parts of the design in which one aggregator serves all
states of a node. The repository has `StateRegistry`, `ChangeFeedLogic` and
`ChangeFeedMsg`, and no actor that connects them; their documentation says who
calls what. A mutation sends a `NotifyChange`, which the aggregator reads in the
order the shard sent it; a flush makes one batch for all nodes, the sender's own
included, and batches from one node to another keep their order. Snapshots of any
generation the owner has had may arrive at any time. The views carry no values
here. The ghost `since` is the generation an owner had when a shard got its entry:
what was announced before that passed the shard by.

### The harness

`MockCluster` is the deterministic simulation in which the repository tests its
engines. A step is a call of a test. A tick is one step: it takes the messages
due, handles them in order, fires the delayed sends, flushes the feeds, sends what
comes of it through the interceptors and advances the clock. Ticks are kept
relative (what is `due`, a countdown), so that a quiet cluster that ticks stays the
same state. The seeded random choices of `DropRate` and `CorruptBytes` are
arbitrary. A flipped bit gives bytes that do not decode, a version nobody
reads or a payload that does not decode; a flip that yields another valid message
is left out, as nothing in the transport or the engine could notice it. All engines
have one wire version.

Three ghosts say what a test cannot expect. `excused` has the pairs of a node and
a peer of which it may have missed the latest, because a message was dropped,
damaged or cut off, an announcement was overtaken by an older one, or one arrived
where there is no entry of its sender to mark (`Unheard`), and nothing newer was sent;
`withheld` has the nodes whose latest change is suppressed; `crashed` the nodes removed hard. `Stamp` lets a node come
back only after the clock has moved: its incarnation is the clock's reading.

The application is `NodeResource`, with percentages as exact fractions. That it
satisfies the law of deltas is proved (`ResourceDeltaLaw`), not assumed.

## 3. Runs

In the runs of `StateCluster` deadlock is not checked: a cluster whose bounds are
spent, or whose nodes are all down, may stop. The bounds are `MaxAge` (mutations per lifetime), `MaxInc`
(the clock's last reading), `Writers` and `Crashers`. All runs have two nodes:
every rule of the code relates one holder to one owner, and an engine never
forwards what it learnt of a third node, so a third node adds interleavings of
independent pairs only. Three generations of one owner are enough for every
overtaking: a view, one ahead of it and one ahead of that. The view is the
square of a counter, so that no two successive deltas are equal and a delta on
a wrong base gives a wrong view.

| Run | Instance | Checks |
|---|---|---|
| `Replication` | change feed with pulls, immediate and delayed pushes of deltas and snapshots; everything is delivered, and all but announcements may be overtaken; queries keep coming | `TypeOK`, `ViewIntegrity`, `OwnViewCurrent`, `NotFromTheFuture`, `PendingAhead`, `ViewsMoveForward`, `AnnouncementKept`, `ImplementsReplicatedViews`, `Converges` |
| `RollingUpgrade` | a writer crashes and restarts as another of two builds; DropAndWait, unordered membership, repeated and damaged messages | `ViewIntegrity`, `GenerationNamesView`, `NotFromTheFuture`, `NoGhosts`, `ViewsMoveForward`, `ImplementsReplicatedViews` |
| `Rejoin` | no push, lossy network, crash and restart, ordered membership, periodic sync | `Converges` |
| `Redeployments` | two callers that take turns or overlap, crashes, failing saves, a clock that may stall, three builds: two that migrate each other's state, which changes the view, and a third that cannot and is not rolled back | `PersistTypeOK`, `CommitsContinue`, `Durable`, `DeltasContinue`, `NeverBehind`, `ImplementsOwner` |
| `Readers` | the local node and a peer that comes and goes, one reader, three cells | `TypeOK`, `ReadsAreCurrent`, `VerdictMatchesProjection`, `ReadsMoveForward` |
| `Hosting` | two nodes, two state names, two shard types; one node mutates twice, two membership events | `HostTypeOK`, `ChangesAreAnnounced`, `NobodyAhead` |
| `Simulation` | two nodes that run `NodeResource`, tests of four calls and any number of ticks, one or more of five interceptors | `ClusterTypeOK`, `SettledIsCurrent`, `SettledIsHealthy`, `CrashSilences`, `SettlesInTime`, `PlacementIsRight` |

`Redeployments` is an instance of `PersistentShard`. Two mutations per lifetime
let a retry follow a failed save and a delta follow a restored state. The clock
has two readings, and may stall. A history has at most six different announcements
(`FewAnnouncements`): two lifetimes of one build with a mutation each, and a start of
each of the others. Where callers overlap four are enough, as only the state and
the types are spoken of; callers are symmetric. In the runs that find a violation
every start takes a new reading; the node stops when they are used up, so deadlock is
not checked there.

In `Readers` one reader is enough, as readers share nothing that a reader writes
but the life of a cell, and the third cell lets a peer come back while the reader
still holds its old one. In `Hosting` two mutations may be two of one state, which
are deduplicated, or one of each, which share a batch. `NobodyAhead` says that no
entry and no mark is above its owner; `register` refusing a second shard under a
name is what keeps it. In `Simulation` four calls allow a fault to be installed, a
change to be hit by it, the fault to be cleared and another change, or a crash and
a return, to follow. The node that writes makes changes of every urgency: CPU jitter is
suppressed, a small change of memory is announced, a large one sent at once, and
the disk's is delayed. The bound in `SettlesInTime`, the longest timer and a
message or three messages, is reached.

Each property of a passing run has a mutated form of a definition of the model,
such as a dropped guard or a missing reset, under which TLC finds it violated;
they stand before the definitions they replace.

### Disagreements with the documentation

| Run | What it shows |
|---|---|
| `LateNodeLeft` | `NodeLeft` of the old lifetime handled after `NodeJoined` of the new one puts the live node into `departed_nodes`. All it pushes is rejected until some other `NodeJoined` arrives; the design document and test LIFE-10 of the test plan say its next push repopulates the entry. |
| `FeedReorder` | `mark_stale` replaces the mark of a newer announcement by that of an older one that arrives late. The view then counts as fresh as soon as it reaches the older one, although the comments say the mark goes only once the view has caught up. |
| `SuppressGap` | A suppressed mutation is counted and forgotten. The documentation of `SyncUrgency::Suppress` says it is accumulated into the next delta; that delta carries one change only, looks like a gap to every peer, and costs each of them a snapshot request. Where every change is pushed and nothing is lost or overtaken there is no such gap (theorem `NoGapWithoutCause`). |
| `LoadErrorFallback` | A load error makes the node announce a fresh, higher incarnation that is not stored. If the next start can load, it resumes the stored, lower one, and peers that saw the fallback refuse it and every later mutation of it, until the state is lost again. The design document says incarnations increase monotonically and that peers accept a restart with persistence. A build that cannot migrate, rolled back to one that can, has the same effect. |

| `MigrationRewrites` | A build that migrates what it loads announces the result under the generation of the stored state. If the migration changes the view, one generation has been announced with two views: peers that hold the first take the second for a duplicate, as the documentation of `Generation` says equal generations are, and keep the old view; the delta of the next mutation has the age they expect and is made on a view they do not have. Nothing but a change of the view by a migration, or by the choice of an empty state, does this (theorem `DuplicatesWithoutMigration`). |

### Fairness

`TimerFairness` and `MembershipFairness`: tokio's timers fire, a mailbox is
served, membership events are handled, the host registers running peers.
`Query(n, {})` is weakly fair because lazy pull promises currency to a node that
keeps querying, and to no other. `ReliableDelivery`: each kind of message on
each link keeps being delivered. `FairLossDelivery`: messages may be lost, but
the current snapshot, if it is sent over and over, is received some time
(strong fairness); this is the least that makes a periodic sync meaningful.
`Replication` needs announcements `InOrder`: without it a late announcement
(`FeedReorder`), or one that arrives before the entry exists, is lost and
nothing repeats it. The batches of `StateHost` are ordered for the same reason.

## 4. Proofs

The theorems hold for every value of the constants that satisfies the
assumptions and the condition in the table: any set of nodes, any data, any
strategy, versions and policy and, unless a condition speaks of it, any behaviour
of the network.

| Theorem | About | Statement |
|---|---|---|
| `TypeCorrect` | cluster | `Spec => []TypeOK` |
| `OwnViewIsCurrent` | cluster | `Spec => []OwnViewCurrent` |
| `GenerationsUnique` | cluster | `Spec => []GenerationNamesView` |
| `ViewsAreGenuine` | cluster | `Spec => []ViewIntegrity` |
| `NothingFromTheFuture` | cluster | `Spec => []NotFromTheFuture` |
| `MarksAreAhead` | cluster | `Spec => []PendingAhead` |
| `GhostFree` | cluster | `Spec => []NoGhosts` |
| `NeverBackwards` | cluster | `Spec => ViewsMoveForward` |
| `AnnouncementsAreKept` | cluster | `"Feed" \in InOrder` implies `Spec => AnnouncementKept` |
| `NoGapWithoutCause` | cluster | `EveryChangePushed` implies `Spec => []SuppressedJoinNextDelta` |
| `Refinement` | cluster | `Spec => ImplementsReplicatedViews` |
| `PersistTypeCorrect` | persistent shard | `Spec => []PersistTypeOK` |
| `NoUpdateLost` | persistent shard | `Spec => CommitsContinue` |
| `MutationsDurable` | persistent shard | `Steady` implies `Spec => []Durable` |
| `RestartsAhead` | persistent shard | `Steady` implies `Spec => []NeverBehind` |
| `DeltasApply` | persistent shard | `Steady` implies `Spec => []DeltasContinue` |
| `OwnerRefines` | persistent shard | `Steady` implies `Spec => ImplementsOwner` |
| `DuplicatesWithoutMigration` | persistent shard | `Steady` and `MigrationsKeepViews` imply `Spec => []EqualIsDuplicate` |
| `ViewMapTypeOK` | view map | `Spec => []TypeOK` |
| `ReadsLinearizable` | view map | `Spec => []ReadsAreCurrent` |
| `VerdictSound` | view map | `Spec => []VerdictMatchesProjection` |
| `ReadsMonotonic` | view map | `Spec => ReadsMoveForward` |
| `HostTypeCorrect` | hosts | `Spec => []HostTypeOK` |
| `NobodyIsAhead` | hosts | `Spec => []NobodyAhead` |
| `NoChangeIsLost` | hosts | `Spec => []ChangesAreAnnounced` |
| `ClusterTyped` | harness | `Typed` implies `Spec => []ClusterTypeOK` |
| `CrashIsSilent` | harness | `Typed` implies `Spec => []CrashSilences` |
| `SettleIsBounded` | harness | `Typed` implies `Spec => []SettlesInTime` |
| `SettledHealthy` | harness | `Typed` implies `Spec => []SettledIsHealthy` |
| `SettledCurrent` | harness | `Typed` and `Lawful` imply `Spec => []SettledIsCurrent` |
| `PlacementRight` | harness with the example | `RunsNodeResource`, `FollowsSyncUrgency`, `PushMode # "None"` and that the markers are no values imply `Spec => []PlacementIsRight` |
| `ChecksAgree` | engine | the check of `handle_delta_update` before it runs the applier and that of `accept_inbound_delta` after it give the same answer |
| `EnginesAgree` | engine | the steps of an actor of `StateCluster` are the calls of `Engine`'s methods, with the same outcomes and messages |
| `ResourceDeltaLaw` | example | the delta of a change, applied to the view before it, gives the view after it |
| `SuppressedIsJitter` | example | what is suppressed leaves memory and disk as they were and moves the CPU by less than the threshold |
| `RanksMeanMajorities` | diagnostics | `Healthy` if no peer is stale or failing, `Degraded` if fewer than half are, else `Unhealthy` |

Assumptions: `NoGenAssumption`, `NoViewAssumption` (the absent values are not
values), `StrategyAssumption`, `VersionAssumption` (a build reads what it
writes), `DataAssumption` and `DeltaLaw` (typing of the application's functions
and its law of deltas), `BoundAssumption` (typing of the bounds). TLC evaluates
them in every run.

The cluster's first two follow from `TypeInv`, which adds to the types that the own entry
is current and that messages carry their sender's name. The others follow from
`Inv`. A view is genuine if the message it came from was, so `Traffic` says it
of all messages, delayed sends and pending announcements: a snapshot is a
published view, and a delta leads from *some* published view to the next. A delta
is applied to the view the receiver holds, which is published too and carries
the generation before the delta's; that these two are the same view is
`GenerationNamesView`. That a new version never reuses a generation needs
`HistBound`: nothing was published beyond the owner's generation, which a
mutation or a restart exceeds. `StatePublished` makes the snapshots read from
the own entry genuine. `Entries` is `ViewIntegrity` with the bounds on the
marks; its upper bound needs `HistBound` for announcements and, for placeholders,
that incarnations are positive.

The proof has one lemma for steps that publish nothing (`QuietStep`) and one for
steps that do (`PublishStep`); the actions are cases of one or the other.

The theorems about steps start from two lemmas. `StepKinds` splits every step into those that
leave all entries alone, a restart, a mutation, a join, a departure and the receipt
of one message, and `ReceiveStep` says what a receipt can make of the one entry it
concerns: nothing, an update to a newer published version, or its removal under
`DropAndWait`. `NoGhosts` and `ViewsMoveForward` follow kind by kind. For the
refinement `OneCopy` maps a change of one entry to the step `Learn`, `Introduce`
or `Forget` of `ReplicatedViews`, or to a stutter; a mutation is its `Publish` and
a restart its `StartAnew`. That what is learnt was published is `Inv`.

`AnnouncementKept` says that an announced generation stays on record until the view
has reached it. `mark_stale` stores the announcement that arrives last, so this needs
that announcements of one sender arrive in order, and an invariant about those that
have not arrived. `FeedInv` says that a mark is not above anything its owner has
still to announce to the holder, be it on the way or in the owner's feed, and that
nothing on the way is above what is in the feed. The delivery order keeps the first
when an announcement is taken. A node that restarts announces a new incarnation,
above all the earlier ones (`HistBound`), and a placeholder's mark of (1, 0) is below
all of them. With this the only way to lose an announcement is that it is overtaken,
which is what `FeedReorder` shows.

`EveryChangePushed` says that no urgency resolves to anything but a broadcast, no node
crashes, nothing is lost or damaged, and snapshots and deltas of a link keep their
order. Then (`PushInv`) every age of an owner that follows a view a peer holds is on
its way to that peer, and every age that follows a message on a link is behind it on
that link. A delta that would show a gap would have overtaken the one it misses. Views
of other wire versions are left out of the invariant, since a delta of another version
is refused before generations are compared; members stay (`Undisturbed`), because a
node that is told of a departure stops sending. The instance of the run `SuppressGap`
satisfies all of this but the first condition.

For the view map, `Inv` adds to the types that the local node has an entry
(`outer[Me] # NoCell`); that a cell belongs to one peer, in the map and in every
copy a reader holds (`CellsAreOwned`), so that a store for one peer cannot show
up in a read of another; that a verdict, once taken, is that of the loaded entries
and the time read, of which there are no more to come, and that the projection was given
the same entries (`AnswersAgree`); that what a reader holds, has loaded or found absent is in
`during` (`HeldIsWitnessed`); and that the map is never behind what a reader has
seen (`FloorIsBelow`). The theorems hold for any number of readers.

Of the persistent shard, `NoUpdateLost` holds for any number of callers. Its
invariant `PreparedInv` says that a preparation was made in this lifetime from
a state no newer than the current one and, if from the current one, is that
state with one change: a commit moves the generation past the base of every other
preparation, so comparing generations is enough. `MutationsDurable` and
`RestartsAhead` speak of hosts whose callers take turns (`serial`), share `RestartInv`
and need `Steady`: `load()` does not fail, and no build that could not read the storage
is replaced by one that can. At most one caller then holds a preparation, of the
current state, and what it saved is stored (`TurnTaken`). Mutations are announced only once they are stored, so what can lie
above the storage is the first, unsaved version of a lifetime begun by a build
that could not migrate. `LifetimeReached` bounds it by what the next start will
choose, the later of the clock and one above the stored incarnation.
`LoadErrorFallback` drops the first condition of `Steady` and finds
`NeverBehind` violated. `DeltasApply` and `OwnerRefines` add to it, in `OwnerInv`,
that whatever builds of the current storage version announced under the current
generation shows the current view (`CurrentView`); that the first version of a
lifetime shows the view of its build's empty state and is never what is stored
(`FirstViews`); and that a prepared delta leads from the current view to the prepared
one (`PreparedDelta`). A start repeats a generation of its storage version only if it
reads the same stored state, by the same migration if by any, or begins with the same
empty state, so it repeats the view. A delta may then be applied by a peer that
got its base in another lifetime of that storage version. All assume
`PersistAssumption` (typing), and those about deltas `ApplicationLaw`. With
`MigrationsKeepViews` as a further hypothesis, which no code states or checks, the
same holds across storage versions: `DuplicatesWithoutMigration`.

Of the hosts, `NobodyAhead` and `ChangesAreAnnounced` are not inductive. `HostInv`
adds that what an aggregator is told, keeps and sends is about its own registered
states and no newer than they are (`FeedIsOwn`), and that the generations of one
state do not decrease on their way from the mailbox through the pending map to the
batches of a link (`FeedInOrder`), each batch naming a state once. Deduplication
keeps the higher generation, and a batch taken first is never the newer one, so the
mark that replaces another is not below it. `EntryFollows` then says of every entry
that neither it nor its mark is ahead of the owner, that the mark is not ahead of
anything still under way, and that the owner's latest change, if made while the entry
existed, has reached the entry, its mark or something under way. They assume
`HostAssumption` and hold for any nodes, names, types, registrations and bounds.

`EnginesAgree` ties together the two modules that model `engine.rs`: `StateCluster`
with one action per outcome of a handler, for proofs, and `Engine` with one function
per method, for the harness. `EngineOf(n, records)` is the state of node `n` as an
engine value; `Counts` says which of the engine's failure counters a status of
`StateCluster` stands for. Initially and after a restart the engine is a new one, each
step in which an actor calls its engine is a call of a method of `Engine`, with the
messages the actor makes of the returned actions, and no other step changes an
engine. The theorem is stated for nodes of the wire version `Engine` is instantiated
with. `ChecksAgree` is why `ApplyDeltaUpdate` has one outcome: the arms of
`handle_delta_update` for a delta that was applied and then not accepted are never
reached.

### The harness

A tick folds `Handle` over the messages due, and sends fold the interceptors over each
message and the messages over the queue. `FoldProofs` shows, for any operator, that a
fold is the last of a chain of values, each obtained from the one before and the
next element; the operator is a constant of the module, which is instantiated once
per fold. Induction along a chain is `SetInduction`: of the naturals outside a set that
holds 0 and is closed under successor none is the least. Everything about a tick is then an
invariant of its chain of deliveries, of its sends or of the interceptors of one send.

`Typed` says that the application's functions have their types and that the markers
`Absent` and `Garbage` are no values; `Lawful` is the contract of
`DeltaDistributedState`. They are hypotheses and not `ASSUME`s because they speak of
infinite sets, which TLC cannot evaluate. Of the example application they hold:
`RunsNodeResource` says that the harness runs it, for any set of its changes, and
lemma `ResourceRuns` derives the types and `Lawful` from it, by `ResourceTypes`,
`ResourceDefaults` and the theorem `ResourceDeltaLaw`. `FollowsSyncUrgency` says that a
host gives a change the urgency `sync_urgency` returns, or, of a change of the disk, any.
`PlacementRight` also needs `PushMode # "None"`: that strategy suppresses what has the
default urgency, a change of memory too.

* `TypeInv`: nodes, queue and ghosts have their types. It needs that a node handles
  only what decodes.
* `CrashInv`: a crashed node is absent, nobody has an entry of it, and nothing is under
  way from it or to it. So nobody asks it for anything, and nothing it sent revives it.
* `TimeInv`: the time waited since the last call and the time a message, and what it
  can set off (`Rest`: a delta a request, a request a snapshot), has still to go do not
  exceed the bound; nor do the timers or a feed that is not flushed yet.
* `BaseInv`: there is a history of what each node showed in each generation it
  reached, and every entry, timer, feed and message says of a node only what is in that history.
  The history is quantified, not a variable of the model. It is what makes an entry
  of the owner's generation one of the owner's value, and needs `Lawful`: a delta leads from the
  view of one generation to that of the next.
* `HealthInv`: a node that counts failures of a peer will hear something newer of it,
  has asked it, or has marked its entry, or the pair is excused.
* `CurrentInv`: of each peer a node follows a generation `g`: the peer's latest, or an
  earlier one if all that came since was held back, so that the peer has shown no other
  memory since `g` if what is held back never changes it (`Kept`). The node has `g`, or
  something at least as new is under way, in a timer or in the peer's feed, or a request
  for it is, or the entry is marked with it and nothing else is still to be announced, or the
  announcement that will arrive last is of it; or the pair is excused. A mark is
  replaced by whatever announcement arrives later, so the invariant is about the order of
  arrival, which is by due tick and then by place in the queue. With `g` the latest
  this is `SettledIsCurrent`. For `PlacementIsRight` the history of `BaseInv` gives the
  memory an entry shows, `Kept` that it is still the peer's, and `SuppressedIsJitter`
  that the example holds nothing back that changes it.

The last two were not provable of the model as it first stood: an announcement that
arrives where there is no entry is lost without a trace, as `mark_stale` marks
nothing. `Simulation` is too small to show it; `Unheard` now excuses it.

### Only model-checked

`Converges`, because it is liveness. Every other property of the passing runs is a
theorem.

## 5. Not modelled

* `state_mut` and `try_load_with_migration`, which nothing calls (`initialize`
  makes the same decision and is modelled), and `DeltaAccumulator`, which the
  engine does not use: what follows from that is `SuppressGap`.
* The metric counters, which are only added to, and times, latencies, logging and
  error texts. `query`'s age limit is an arbitrary set of aged peers.
* The message enums of `dstate/src/messages` other than `ChangeFeedMsg`: data of
  actors that are not in the repository.
* The unit tests' states and doubles, and the example `engine_demo`, a script of
  calls that are all actions of `MockCluster`.

* Harness clusters of mixed wire versions, as in the tests FAULT-08 and FAULT-09:
  `MockCluster` has one version. Mixed versions and both mismatch policies are in
  `StateCluster` (run `RollingUpgrade`).

Known limits of what the properties say, each listed as a hazard: a bit flip that
yields another valid message (test FAULT-04 allows it any effect but a panic);
storage where callers overlap, of which `Durable` does not speak; a node that is added after another left and hears of
it from a late message, which leaves a view nothing removes; CPU drift in steps
that are each suppressed; a shard registered after the nodes it should know of had
joined.

## 6. Plan

1. *(done)* The replication core: safety, liveness, the abstract specification,
   the inductive invariant.
2. *(done)* `PersistentShard`, its runs and its first theorems.
3. *(done)* Readers of the view map, with proofs.
4. *(done)* Diagnostics, the harness with its faults, the example application.
5. *(done)* `NoGhosts`, `ViewsMoveForward` and the refinement of
   `ReplicatedViews` as theorems.
6. *(done)* Several states on one node: registry and shared feed.
7. False suspicion and partitions in the membership of `StateCluster`.
8. *(done)* Proofs: `DeltasContinue`, `ImplementsOwner`, the properties of the
   hosts, `AnnouncementKept`, the absence of gaps, and the agreement of the two
   models of the engine.
9. *(done)* Proofs about the harness: folds, transport, ticks, what settling leaves.
