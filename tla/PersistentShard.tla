-------------------------- MODULE PersistentShard --------------------------
(***************************************************************************)
(* One node whose shard survives restarts: the two-phase mutation of       *)
(* `ShardCore` (prepare, save, commit: dstate/src/core/shard_core.rs), the *)
(* storage behind `StatePersistence`, and `PersistenceStartupLogic`        *)
(* (dstate/src/core/persistence_startup_logic.rs), which computes the      *)
(* first state of a lifetime from what the storage returns.                *)
(*                                                                         *)
(* A caller prepares a mutation on a clone, awaits the save and commits;   *)
(* other callers, a crash or a redeployment may come in between.  The      *)
(* shard itself does not serialise callers: a host may make them take      *)
(* turns, as the design's single actor does, or let preparations overlap.  *)
(***************************************************************************)
EXTENDS ShardCore

CONSTANTS
    Caller,                 \* the tasks that mutate
    State,
    DefaultState(_),        \* the state a build starts empty with
    Change, ApplyChange(_, _),
    Project(_),             \* project_view
    Delta, ViewDelta(_, _), ApplyDelta(_, _),
    NoDelta,                \* the outcome of a mutation without a delta
    StorageVersion,         \* the storage versions builds write
    Redeploy,               \* pairs: a build that may replace another
    Migrate(_, _, _),       \* migrate_fn: a state, its version, the build's
    Migratable,             \* pairs of versions migrate_fn has a path for
    LoadFails,              \* load() may return an error
    ClockStalls,            \* a restart may find the clock where it was
    MaxAge,                 \* bound: mutations per lifetime
    MaxClock,               \* bound: the clock's last reading
    None                    \* None of the code's options

StateObject == [gen : Generation, version : StorageVersion, value : State]

\* A prepared mutation, and whether its caller has saved it.
PreparedMutation ==
    [base : Generation, new : StateObject, view : View,
     delta : Delta \cup {NoDelta}, saved : BOOLEAN]

\* What peers may be sent: a view under its generation and storage version
\* (the entry's wire_version), and the delta that led to it, if any.
Outcome ==
    [gen : Generation, version : StorageVersion, view : View,
     delta : Delta \cup {NoDelta}]

ASSUME PersistAssumption ==
    /\ NoDelta \notin Delta
    /\ None \notin StateObject \cup PreparedMutation
    /\ Redeploy \subseteq StorageVersion \X StorageVersion
    /\ Migratable \subseteq StorageVersion \X StorageVersion
    /\ {LoadFails, ClockStalls} \subseteq BOOLEAN
    /\ MaxAge \in Nat /\ MaxClock \in Nat
    /\ \A b \in StorageVersion : DefaultState(b) \in State
    /\ \A s \in State : Project(s) \in View
    /\ \A s \in State, c \in Change :
          ApplyChange(s, c) \in State /\ ViewDelta(s, c) \in Delta
    /\ \A s \in State, m \in Migratable : Migrate(s, m[1], m[2]) \in State

\* What a delta-aware application promises of its deltas.  Nothing is asked of
\* its migrations nor of the empty states of its builds: either may change the
\* view, as the migrations of tests persist_14 and persist_16 do.
ASSUME ApplicationLaw ==
    \A s \in State, c \in Change :
        ApplyDelta(Project(s), ViewDelta(s, c)) = Project(ApplyChange(s, c))

VARIABLES
    serial,     \* rigid: the host makes callers take turns
    build,      \* the storage version of the deployed build
    clock,      \* the last reading of the wall clock
    disk,       \* the StateObject in storage, or None
    state,      \* the shard's StateObject, None while the node is down
    own,        \* the node's own view-map entry
    prepared,   \* prepared[t]: what caller t holds
    published   \* ghost: every outcome peers may have been sent

vars == <<serial, build, clock, disk, state, own, prepared, published>>

running == state # None

NothingPrepared == [t \in Caller |-> None]

Init ==
    /\ serial \in BOOLEAN
    /\ build \in StorageVersion
    /\ clock = 1
    /\ disk = None
    /\ state = None
    /\ own = NoView
    /\ prepared = NothingPrepared
    /\ published = {}

-----------------------------------------------------------------------------
(* Startup.                                                                *)

FreshState(b, now) ==
    [gen |-> NewGeneration(now, 0), version |-> b, value |-> DefaultState(b)]

\* Mutated form: the clock alone.
FreshStateAtClock(b, now, old) == FreshState(b, now)

\* fresh_state_at_least: above the lifetime it replaces, whatever the clock.
FreshStateAtLeast(b, now, old) ==
    FreshState(b, IF now > old THEN now ELSE old + 1)

\* The value build b makes of a stored state it can take over.
ReadBy(b, stored) ==
    IF stored.version = b THEN stored.value
    ELSE Migrate(stored.value, stored.version, b)

\* migrate_fn succeeded: the same generation under the build's version.
Migrated(b, loaded) ==
    [gen |-> loaded.gen, version |-> b, value |-> ReadBy(b, loaded)]

\* PersistenceStartupLogic::initialize for a build b, when load() returned
\* `loaded` (None: nothing stored, or an error).
Initialize(b, now, loaded) ==
    CASE loaded = None -> FreshState(b, now)
      [] loaded # None /\ loaded.version = b -> loaded
      [] loaded # None /\ loaded.version # b /\ <<loaded.version, b>> \in Migratable
            -> Migrated(b, loaded)
      [] loaded # None /\ loaded.version # b /\ <<loaded.version, b>> \notin Migratable
            -> FreshStateAtLeast(b, now, loaded.gen.inc)

\* StatePersistence::load: what is stored, or an error, which initialize
\* answers as it answers an empty storage.
LoadResults == {disk} \cup (IF LoadFails THEN {None} ELSE {})

Announced(s, view, delta) ==
    [gen |-> s.gen, version |-> s.version, view |-> view, delta |-> delta]

\* ShardCore::new with the initial state and its projection.
Start(b, now) ==
    /\ ~running
    /\ <<build, b>> \in Redeploy
    /\ \E loaded \in LoadResults :
          LET s == Initialize(b, now, loaded) IN
          /\ state' = s
          /\ own' = OwnEntry(s.gen, Project(s.value))
          /\ published' = published \cup
                {Announced(s, Project(s.value), NoDelta)}
    /\ build' = b
    /\ clock' = now
    /\ UNCHANGED <<serial, disk, prepared>>

\* The process ends: what was prepared is lost with the shard, storage stays.
Stop ==
    /\ state' = None
    /\ own' = NoView
    /\ prepared' = NothingPrepared
    /\ UNCHANGED <<serial, build, clock, disk, published>>

Crash == running /\ Stop

-----------------------------------------------------------------------------
(* Two-phase mutation.                                                     *)

\* Mutated form: the age is not advanced.
MutatedSameAge(s, c) == [s EXCEPT !.value = ApplyChange(s.value, c)]

\* The clone with the change made and its age advanced.
Mutated(s, c) ==
    [s EXCEPT !.value = ApplyChange(s.value, c), !.gen = NextAge(s.gen)]

Prepare(t, c, delta) ==
    /\ running
    /\ prepared[t] = None
    /\ serial => \A u \in Caller : prepared[u] = None
    /\ state.gen.age < MaxAge
    /\ LET new == Mutated(state, c) IN
       prepared' = [prepared EXCEPT ![t] =
           [base |-> state.gen, new |-> new, view |-> Project(new.value),
            delta |-> delta, saved |-> FALSE]]
    /\ UNCHANGED <<serial, build, clock, disk, state, own, published>>

PrepareMutation(t, c) == Prepare(t, c, NoDelta)

\* Mutated form: the delta of the change made once more, on the new state.
ChangeDeltaFromNew(s, c) == ViewDelta(ApplyChange(s, c), c)

\* project_delta of the StateDeltaChange the closure returned.
ChangeDelta(s, c) == ViewDelta(s, c)

PrepareMutationWithDelta(t, c) ==
    running /\ Prepare(t, c, ChangeDelta(state.value, c))

\* StatePersistence::save succeeded.
Save(t) ==
    /\ prepared[t] # None /\ ~prepared[t].saved
    /\ disk' = prepared[t].new
    /\ prepared' = [prepared EXCEPT ![t].saved = TRUE]
    /\ UNCHANGED <<serial, build, clock, state, own, published>>

\* save returned an error: the write may have reached storage all the same,
\* and the caller drops what it prepared.
SaveFails(t) ==
    /\ prepared[t] # None /\ ~prepared[t].saved
    /\ disk' \in {disk, prepared[t].new}
    /\ prepared' = [prepared EXCEPT ![t] = None]
    /\ UNCHANGED <<serial, build, clock, state, own, published>>

\* Mutated form: the state the mutation was derived from is not looked at.
DerivesFromAnything(p) == TRUE

\* The assertion of commit_mutation and commit_delta_mutation.
DerivesFromCurrent(p) == p.base = state.gen

\* Mutated form: the commit does not wait for the save.
MayCommitUnsaved(t) == prepared[t] # None

\* The caller goes on to commit only when the save succeeded.
MayCommit(t) == prepared[t] # None /\ prepared[t].saved

\* Mutated form: the whole state is put in the view map, not its projection.
CommitUnprojected(t) ==
    LET p == prepared[t] IN
    /\ MayCommit(t)
    /\ DerivesFromCurrent(p)
    /\ state' = p.new
    /\ own' = OwnEntry(p.new.gen, p.new.value)
    /\ published' = published \cup {Announced(p.new, p.view, p.delta)}
    /\ prepared' = [prepared EXCEPT ![t] = None]
    /\ UNCHANGED <<serial, build, clock, disk>>

Commit(t) ==
    LET p == prepared[t] IN
    /\ MayCommit(t)
    /\ DerivesFromCurrent(p)
    /\ state' = p.new
    /\ own' = OwnEntry(p.new.gen, p.view)
    /\ published' = published \cup {Announced(p.new, p.view, p.delta)}
    /\ prepared' = [prepared EXCEPT ![t] = None]
    /\ UNCHANGED <<serial, build, clock, disk>>

CommitMutation(t) == Commit(t) /\ prepared[t].delta = NoDelta

CommitDeltaMutation(t) == Commit(t) /\ prepared[t].delta # NoDelta

\* The assertion fails: the panic takes the shard down.
CommitPanics(t) ==
    /\ MayCommit(t)
    /\ ~DerivesFromCurrent(prepared[t])
    /\ Stop

-----------------------------------------------------------------------------
Readings == {now \in clock .. MaxClock : ClockStalls \/ now > clock}

Next ==
    \/ \E b \in StorageVersion : \E now \in Readings : Start(b, now)
    \/ Crash
    \/ \E t \in Caller :
          \/ \E c \in Change : PrepareMutation(t, c)
          \/ \E c \in Change : PrepareMutationWithDelta(t, c)
          \/ Save(t)
          \/ SaveFails(t)
          \/ CommitMutation(t)
          \/ CommitDeltaMutation(t)
          \/ CommitPanics(t)

Spec == Init /\ [][Next]_vars

-----------------------------------------------------------------------------
(* Properties.                                                             *)

\* The type invariant.
PersistTypeOK ==
    /\ serial \in BOOLEAN
    /\ build \in StorageVersion
    /\ clock \in Nat
    /\ disk \in StateObject \cup {None}
    /\ state \in StateObject \cup {None}
    /\ own \in OptEntry
    /\ prepared \in [Caller -> PreparedMutation \cup {None}]
    /\ published \subseteq Outcome

\* Where callers take turns, a mutation whose commit returned survives every
\* crash that follows: storage holds its generation or a later one, and what it
\* holds under that very generation is, to the build that announced it, the
\* view it announced.  About saving before commit_mutation, a save that fails
\* after writing, and initialize.
Durable ==
    serial => \A o \in published : o.gen.age > 0 =>
        /\ disk # None
        /\ Le(o.gen, disk.gen)
        /\ o.gen = disk.gen => o.view = Project(ReadBy(o.version, disk))

\* A commit makes exactly its own change to the state it finds, so no other
\* committed change is lost under it: about the base-generation assertion of
\* commit_mutation and commit_delta_mutation when preparations overlap.
CommitsContinue ==
    [][running /\ state' # None /\ state' # state =>
          /\ state'.gen = NextAge(state.gen)
          /\ \E c \in Change : state'.value = ApplyChange(state.value, c)
          /\ own' = OwnEntry(state'.gen, Project(state'.value))]_vars

\* Where callers take turns, a peer at the generation before a committed delta,
\* from whatever lifetime of a build of that storage version it got it, arrives
\* at the committed view by applying it.  About prepare_mutation_with_delta,
\* whose delta is made before the save and sent after it, and about a restored
\* age continuing an earlier one.  Of a view from before a migration nothing is
\* said: see EqualIsDuplicate.
DeltasContinue ==
    serial => \A o, p \in published :
        o.delta # NoDelta /\ o.gen = NextAge(p.gen) /\ o.version = p.version
            => ApplyDelta(p.view, o.delta) = o.view

\* Where callers take turns, a running node is never behind what it published in
\* any lifetime, so its peers never refuse it as stale: about the incarnation
\* rules of initialize.
NeverBehind ==
    serial /\ running => \A o \in published : Le(o.gen, state.gen)

\* Two announcements of one generation carry one view, so that a peer may take
\* the second for a duplicate (types/node.rs) and keep what it holds.  About
\* initialize, which gives a migrated state the generation of the state it was
\* made from.
EqualIsDuplicate ==
    serial => \A o, p \in published : o.gen = p.gen => o.view = p.view

\* What a host with callers that take turns announced, each storage version as
\* an owner of its own.
Versions ==
    {[node |-> o.version, gen |-> o.gen, view |-> o.view] :
        o \in {p \in published : serial}}

Announcements == INSTANCE ReplicatedViews WITH
    Node <- StorageVersion,
    NoCopy <- NoView,
    DefaultView <- None,
    published <- Versions,
    copy <- [n \in StorageVersion |-> [p \in StorageVersion |-> NoView]]

\* Across crashes, redeployments and failed saves, the builds of one storage
\* version publish as ReplicatedViews lets an owner publish: every version they
\* announce is newer than all they announced before or is one of them,
\* unchanged, also when another build wrote to the storage in between.  From one
\* storage version to another this does not hold, although peers make no
\* difference between them: a migration may change the view and keeps the
\* generation (see EqualIsDuplicate).
ImplementsOwner == Announcements!Spec

=============================================================================
