----------------------- MODULE PersistentShardProofs -----------------------
(***************************************************************************)
(* Proofs about PersistentShard.  What a commit does is proved for any     *)
(* number of overlapping callers; durability and the order of generations  *)
(* across restarts need callers that take turns, a storage that can be     *)
(* read, and no way back from a build that could not migrate.  Nothing is  *)
(* assumed of what a migration does to the view, but for the last theorem. *)
(***************************************************************************)
EXTENDS PersistentShard, TLAPS

\* Facts about a data type of the model: what Mutated and FreshState yield.
LEMMA MutatedType ==
    ASSUME NEW s \in StateObject, NEW c \in Change
    PROVE  /\ Mutated(s, c) \in StateObject
           /\ Mutated(s, c).gen = NextAge(s.gen)
           /\ Mutated(s, c).value = ApplyChange(s.value, c)
           /\ Mutated(s, c).version = s.version
<1>1. NextAge(s.gen) \in Generation
  BY DEF StateObject, Generation, NextAge, NewGeneration
<1>2. ApplyChange(s.value, c) \in State
  BY PersistAssumption DEF StateObject
<1> QED BY <1>1, <1>2 DEF Mutated, StateObject

\* A fresh state is at age 0 of the incarnation the clock gave it.
LEMMA FreshType ==
    ASSUME NEW b \in StorageVersion, NEW now \in Nat
    PROVE  /\ FreshState(b, now) \in StateObject
           /\ FreshState(b, now).gen = NewGeneration(now, 0)
           /\ FreshState(b, now).version = b
BY PersistAssumption
   DEF FreshState, StateObject, Generation, NewGeneration

\* Whatever was loaded, initialize returns a state of the running build.
LEMMA InitializeType ==
    ASSUME NEW b \in StorageVersion, NEW now \in Nat,
           NEW loaded \in StateObject \cup {None}
    PROVE  /\ Initialize(b, now, loaded) \in StateObject
           /\ Initialize(b, now, loaded).version = b
<1>1. CASE loaded = None
  BY <1>1, FreshType DEF Initialize
<1>2. CASE loaded # None /\ loaded.version = b
  BY <1>2 DEF Initialize
<1>3. CASE loaded # None /\ loaded.version # b /\ <<loaded.version, b>> \in Migratable
  <2>1. Migrated(b, loaded) \in StateObject /\ Migrated(b, loaded).version = b
    <3>1. loaded.value \in State /\ loaded.gen \in Generation
      BY <1>3 DEF StateObject
    <3>2. ReadBy(b, loaded) \in State
      BY <1>3, <3>1, PersistAssumption DEF ReadBy
    <3> QED BY <3>1, <3>2 DEF Migrated, StateObject
  <2> QED BY <1>3, <2>1 DEF Initialize
<1>4. CASE loaded # None /\ loaded.version # b /\ <<loaded.version, b>> \notin Migratable
  <2>1. loaded.gen.inc \in Nat
    BY <1>4 DEF StateObject, Generation
  <2>2. /\ FreshStateAtLeast(b, now, loaded.gen.inc) \in StateObject
        /\ FreshStateAtLeast(b, now, loaded.gen.inc).version = b
    BY <2>1, FreshType DEF FreshStateAtLeast
  <2> QED BY <1>4, <2>2 DEF Initialize
<1> QED BY <1>1, <1>2, <1>3, <1>4

\* The own entry is an entry.
LEMMA OwnEntryType ==
    ASSUME NEW g \in Generation, NEW v \in View
    PROVE  OwnEntry(g, v) \in OptEntry
BY DEF OwnEntry, OptEntry, Entry, OptGeneration

-----------------------------------------------------------------------------
\* The types hold while nothing has started.
LEMMA TypeInit == Init => PersistTypeOK
BY DEF Init, PersistTypeOK, NothingPrepared, OptEntry

\* Every step keeps the types.
LEMMA TypeStep == PersistTypeOK /\ [Next]_vars => PersistTypeOK'
<1> SUFFICES ASSUME PersistTypeOK, [Next]_vars PROVE PersistTypeOK'
  OBVIOUS
<1>1. ASSUME NEW b \in StorageVersion, NEW now \in Readings, Start(b, now)
      PROVE  PersistTypeOK'
  <2>1. now \in Nat
    BY PersistAssumption DEF Readings, PersistTypeOK
  <2>2. PICK loaded \in LoadResults :
          LET s == Initialize(b, now, loaded) IN
          /\ state' = s
          /\ own' = OwnEntry(s.gen, Project(s.value))
          /\ published' = published \cup
                {Announced(s, Project(s.value), NoDelta)}
    BY <1>1 DEF Start
  <2>3. loaded \in StateObject \cup {None}
    BY DEF LoadResults, PersistTypeOK
  <2> DEFINE s == Initialize(b, now, loaded)
  <2>4. s \in StateObject
    BY <2>1, <2>3, InitializeType
  <2>5. /\ s.gen \in Generation /\ s.version \in StorageVersion
        /\ s.value \in State /\ Project(s.value) \in View
    BY <2>4, PersistAssumption DEF StateObject
  <2>6. own' \in OptEntry
    BY <2>2, <2>5, OwnEntryType
  <2>7. published' \subseteq Outcome
    BY <2>2, <2>5 DEF Announced, Outcome, PersistTypeOK
  <2> QED
    BY <1>1, <2>1, <2>2, <2>4, <2>6, <2>7 DEF Start, PersistTypeOK
<1>2. CASE Stop
  BY <1>2 DEF Stop, PersistTypeOK, NothingPrepared, OptEntry
<1>3. ASSUME NEW t \in Caller, NEW c \in Change, NEW d \in Delta \cup {NoDelta},
             Prepare(t, c, d)
      PROVE  PersistTypeOK'
  <2> DEFINE new == Mutated(state, c)
  <2>1. state \in StateObject
    BY <1>3 DEF Prepare, running, PersistTypeOK
  <2>2. new \in StateObject /\ new.value \in State /\ state.gen \in Generation
    BY <2>1, MutatedType DEF StateObject
  <2>3. Project(new.value) \in View
    BY <2>2, PersistAssumption
  <2> DEFINE p == [base |-> state.gen, new |-> new, view |-> Project(new.value),
                   delta |-> d, saved |-> FALSE]
  <2>4. p \in PreparedMutation
    BY <2>2, <2>3 DEF PreparedMutation
  <2>5. prepared' = [prepared EXCEPT ![t] = p]
    BY <1>3 DEF Prepare
  <2> HIDE DEF p
  <2> QED BY <1>3, <2>4, <2>5 DEF Prepare, PersistTypeOK
<1>4. ASSUME NEW t \in Caller, Save(t) PROVE PersistTypeOK'
  <2>1. prepared[t] \in PreparedMutation
    BY <1>4 DEF Save, PersistTypeOK
  <2>2. prepared[t].new \in StateObject
    BY <2>1 DEF PreparedMutation
  <2>3. [prepared[t] EXCEPT !.saved = TRUE] \in PreparedMutation
    BY <2>1 DEF PreparedMutation
  <2>4. prepared' = [prepared EXCEPT ![t] = [prepared[t] EXCEPT !.saved = TRUE]]
    BY <1>4 DEF Save, PersistTypeOK
  <2> QED BY <1>4, <2>2, <2>3, <2>4 DEF Save, PersistTypeOK
<1>5. ASSUME NEW t \in Caller, SaveFails(t) PROVE PersistTypeOK'
  <2>1. prepared[t].new \in StateObject
    BY <1>5 DEF SaveFails, PersistTypeOK, PreparedMutation
  <2> QED BY <1>5, <2>1 DEF SaveFails, PersistTypeOK
<1>6. ASSUME NEW t \in Caller, Commit(t) PROVE PersistTypeOK'
  <2>1. prepared[t] \in PreparedMutation
    BY <1>6 DEF Commit, MayCommit, PersistTypeOK
  <2>2. /\ prepared[t].new \in StateObject
        /\ prepared[t].new.gen \in Generation
        /\ prepared[t].new.version \in StorageVersion
        /\ prepared[t].view \in View
        /\ prepared[t].delta \in Delta \cup {NoDelta}
    BY <2>1 DEF PreparedMutation, StateObject
  <2>3. own' \in OptEntry
    BY <1>6, <2>2, OwnEntryType DEF Commit
  <2>4. published' \subseteq Outcome
    BY <1>6, <2>2 DEF Commit, Announced, Outcome, PersistTypeOK
  <2> QED BY <1>6, <2>2, <2>3, <2>4 DEF Commit, PersistTypeOK
<1>7. CASE UNCHANGED vars
  BY <1>7 DEF vars, PersistTypeOK
<1>8. ASSUME NEW t \in Caller, NEW c \in Change,
             PrepareMutation(t, c) \/ PrepareMutationWithDelta(t, c)
      PROVE  PersistTypeOK'
  <2>1. CASE PrepareMutation(t, c)
    BY <2>1, <1>3 DEF PrepareMutation
  <2>2. CASE PrepareMutationWithDelta(t, c)
    <3>1. ChangeDelta(state.value, c) \in Delta
      BY <2>2, PersistAssumption
         DEF PrepareMutationWithDelta, running, PersistTypeOK, StateObject, ChangeDelta
    <3> QED BY <2>2, <3>1, <1>3 DEF PrepareMutationWithDelta
  <2> QED BY <1>8, <2>1, <2>2
<1> QED
  BY <1>1, <1>2, <1>4, <1>5, <1>6, <1>7, <1>8
     DEF Next, Crash, CommitMutation, CommitDeltaMutation, CommitPanics

\* Every reachable state of a persistent shard is well typed, whatever its
\* callers, its storage and its builds do: about all of its operations.
THEOREM PersistTypeCorrect == Spec => []PersistTypeOK
<1> QED BY TypeInit, TypeStep, PTL DEF Spec

-----------------------------------------------------------------------------
(* What a preparation knows of the shard.                                  *)

\* What caller t holds was derived in this lifetime, from a state no newer than
\* the current one; if from the current one, it is that state changed once.
PreparedHere(t) ==
    prepared[t] # None =>
        /\ state # None
        /\ prepared[t].base.inc = state.gen.inc
        /\ prepared[t].base.age <= state.gen.age
        /\ prepared[t].base = state.gen =>
              \E c \in Change : prepared[t].new = Mutated(state, c)
        /\ prepared[t].view = Project(prepared[t].new.value)

PreparedInv == PersistTypeOK /\ \A t \in Caller : PreparedHere(t)

\* Nothing is prepared at the start.
LEMMA PreparedInit == Init => PreparedInv
BY TypeInit DEF Init, PreparedInv, PreparedHere, NothingPrepared

\* A commit moves the state past every other preparation.
LEMMA CommitStep ==
    ASSUME PreparedInv, NEW t \in Caller, Commit(t)
    PROVE  /\ state \in StateObject
           /\ \E c \in Change : state' = Mutated(state, c)
           /\ state'.gen = NextAge(state.gen)
           /\ own' = OwnEntry(state'.gen, Project(state'.value))
<1>1. prepared[t] # None /\ prepared[t].base = state.gen /\ state' = prepared[t].new
  BY DEF Commit, MayCommit, DerivesFromCurrent
<1>2. state \in StateObject
  BY <1>1 DEF PreparedInv, PreparedHere, PersistTypeOK
<1>3. PICK c \in Change : prepared[t].new = Mutated(state, c)
  BY <1>1 DEF PreparedInv, PreparedHere
<1>4. state'.gen = NextAge(state.gen)
  BY <1>1, <1>2, <1>3, MutatedType
<1>5. own' = OwnEntry(state'.gen, Project(state'.value))
  BY <1>1 DEF Commit, PreparedInv, PreparedHere
<1> QED BY <1>1, <1>2, <1>3, <1>4, <1>5

\* Every step keeps what preparations rest on.
LEMMA PreparedStep == PreparedInv /\ [Next]_vars => PreparedInv'
<1> SUFFICES ASSUME PreparedInv, [Next]_vars
             PROVE  \A t \in Caller : PreparedHere(t)'
  BY TypeStep DEF PreparedInv
<1> USE DEF PreparedInv
<1> TAKE t \in Caller
<1>1. ASSUME NEW b \in StorageVersion, NEW now \in Readings, Start(b, now)
      PROVE  PreparedHere(t)'
  BY <1>1 DEF Start, running, PreparedHere
<1>2. CASE Stop
  BY <1>2 DEF Stop, NothingPrepared, PreparedHere
<1>3. ASSUME NEW u \in Caller, NEW c \in Change, NEW d, Prepare(u, c, d)
      PROVE  PreparedHere(t)'
  <2>1. state \in StateObject /\ UNCHANGED state
    BY <1>3 DEF Prepare, running, PersistTypeOK
  <2>2. CASE t = u
    <3> DEFINE new == Mutated(state, c)
    <3> DEFINE p == [base |-> state.gen, new |-> new, view |-> Project(new.value),
                     delta |-> d, saved |-> FALSE]
    <3>1. prepared'[t] = p
      BY <1>3, <2>2 DEF Prepare, PersistTypeOK
    <3>2. /\ p.base = state.gen /\ p.new = Mutated(state, c)
          /\ p.view = Project(p.new.value)
      OBVIOUS
    <3>3. state.gen.inc \in Nat /\ state.gen.age \in Nat
      BY <2>1 DEF StateObject, Generation
    <3>4. state # None
      BY <1>3 DEF Prepare, running
    <3> HIDE DEF p
    <3> QED BY <2>1, <3>1, <3>2, <3>3, <3>4 DEF PreparedHere
  <2>3. CASE t # u
    <3>1. prepared'[t] = prepared[t]
      BY <1>3, <2>3 DEF Prepare, PersistTypeOK
    <3> QED BY <2>1, <3>1 DEF PreparedHere
  <2> QED BY <2>2, <2>3
<1>4. ASSUME NEW u \in Caller, Save(u) PROVE PreparedHere(t)'
  <2>1. UNCHANGED state
    BY <1>4 DEF Save
  <2>2. prepared[u] \in PreparedMutation
    BY <1>4 DEF Save, PersistTypeOK
  <2>3. CASE t = u
    <3>1. prepared'[t] = [prepared[t] EXCEPT !.saved = TRUE]
      BY <1>4, <2>3 DEF Save, PersistTypeOK
    <3>2. /\ prepared'[t].base = prepared[t].base
          /\ prepared'[t].new = prepared[t].new
          /\ prepared'[t].view = prepared[t].view
      BY <2>2, <2>3, <3>1 DEF PreparedMutation
    <3> QED BY <1>4, <2>1, <2>3, <3>2 DEF Save, PreparedHere
  <2>4. CASE t # u
    <3>1. prepared'[t] = prepared[t]
      BY <1>4, <2>4 DEF Save, PersistTypeOK
    <3> QED BY <2>1, <3>1 DEF PreparedHere
  <2> QED BY <2>3, <2>4
<1>5. ASSUME NEW u \in Caller, SaveFails(u) PROVE PreparedHere(t)'
  <2>1. prepared'[t] = IF t = u THEN None ELSE prepared[t]
    BY <1>5 DEF SaveFails, PersistTypeOK
  <2>2. UNCHANGED state
    BY <1>5 DEF SaveFails
  <2> QED BY <2>1, <2>2 DEF PreparedHere
<1>6. ASSUME NEW u \in Caller, Commit(u) PROVE PreparedHere(t)'
  <2>1. prepared'[t] = IF t = u THEN None ELSE prepared[t]
    BY <1>6 DEF Commit, PersistTypeOK
  <2>2. state \in StateObject /\ state'.gen = NextAge(state.gen)
    BY <1>6, CommitStep
  <2>3. /\ state.gen.inc \in Nat /\ state.gen.age \in Nat
        /\ state'.gen.inc = state.gen.inc /\ state'.gen.age = state.gen.age + 1
    BY <2>2 DEF StateObject, Generation, NextAge, NewGeneration
  <2>4. state' # None
    <3>1. prepared[u] \in PreparedMutation /\ state' = prepared[u].new
      BY <1>6 DEF Commit, MayCommit, PersistTypeOK
    <3> QED BY <3>1, PersistAssumption DEF PreparedMutation
  <2>5. CASE prepared'[t] # None
    <3>1. prepared'[t] = prepared[t] /\ prepared[t] \in PreparedMutation
      BY <2>1, <2>5 DEF PersistTypeOK
    <3>2. prepared[t].base.age \in Nat
      BY <3>1 DEF PreparedMutation, Generation
    <3>3. prepared[t].base.age <= state.gen.age /\ prepared[t].base.inc = state.gen.inc
      BY <2>1, <2>5 DEF PreparedHere
    <3>4. prepared[t].base # state'.gen
      BY <2>3, <3>2, <3>3
    <3> QED BY <2>1, <2>3, <2>4, <2>5, <3>1, <3>2, <3>3, <3>4 DEF PreparedHere
  <2> QED BY <2>5 DEF PreparedHere
<1>7. CASE UNCHANGED vars
  BY <1>7 DEF vars, PreparedHere
<1> QED
  BY <1>1, <1>2, <1>3, <1>4, <1>5, <1>6, <1>7
     DEF Next, Crash, CommitMutation, CommitDeltaMutation, CommitPanics,
         PrepareMutation, PrepareMutationWithDelta

\* However many callers overlap, a commit makes exactly its own change to the
\* state it finds: the assertion of commit_mutation stops every preparation
\* another commit has overtaken.
THEOREM NoUpdateLost == Spec => CommitsContinue
<1> DEFINE Step ==
      running /\ state' # None /\ state' # state =>
          /\ state'.gen = NextAge(state.gen)
          /\ \E c \in Change : state'.value = ApplyChange(state.value, c)
          /\ own' = OwnEntry(state'.gen, Project(state'.value))
<1>1. PreparedInv /\ [Next]_vars => [Step]_vars
  <2> SUFFICES ASSUME PreparedInv, Next, running, state' # None, state' # state
               PROVE  Step
    OBVIOUS
  <2>1. PICK t \in Caller : Commit(t)
    BY DEF Next, Start, Crash, CommitPanics, Stop, Save, SaveFails, Prepare,
           PrepareMutation, PrepareMutationWithDelta, CommitMutation,
           CommitDeltaMutation
  <2>2. PICK c \in Change : state' = Mutated(state, c)
    BY <2>1, CommitStep
  <2>3. state'.value = ApplyChange(state.value, c)
    BY <2>1, <2>2, CommitStep, MutatedType
  <2> QED BY <2>1, <2>3, CommitStep
<1> QED BY <1>1, PreparedInit, PreparedStep, PTL DEF Spec, CommitsContinue

-----------------------------------------------------------------------------
(* Across restarts.                                                        *)

\* A build can take over what version v stored.
Readable(v, b) == v = b \/ <<v, b>> \in Migratable

\* The regime of the next theorems: load() does not fail, and a build that
\* cannot read what a predecessor stored is never replaced by one that can
\* (redeployments form a preorder of builds).  Run LoadErrorFallback shows what
\* becomes of NeverBehind otherwise.
Steady ==
    /\ ~LoadFails
    /\ \A v \in StorageVersion : <<v, v>> \in Redeploy
    /\ \A v, b1, b2 \in StorageVersion :
          <<v, b1>> \in Redeploy /\ <<b1, b2>> \in Redeploy =>
              /\ <<v, b2>> \in Redeploy
              /\ Readable(v, b2) => Readable(v, b1)

\* One caller at a time works, on the current state, and what it saved is
\* stored.
TurnTaken ==
    \A t \in Caller : prepared[t] # None =>
        /\ prepared[t].base = state.gen
        /\ prepared[t].saved => disk = prepared[t].new
        /\ \A u \in Caller : prepared[u] # None => u = t

\* A published lifetime above the stored one was begun by a build that could
\* not read the storage, and the next start will not fall below it.
LifetimeReached(o) ==
    /\ disk = None => o.gen.inc <= clock
    /\ disk # None /\ o.gen.inc > disk.gen.inc =>
          /\ ~Readable(disk.version, build)
          /\ o.gen.inc <= clock \/ o.gen.inc <= disk.gen.inc + 1

\* Durable, for one outcome: its build could read what is stored under the same
\* generation.
Kept(o) ==
    o.gen.age > 0 =>
        /\ disk # None
        /\ Le(o.gen, disk.gen)
        /\ o.gen = disk.gen =>
              /\ Readable(disk.version, o.version)
              /\ o.view = Project(ReadBy(o.version, disk))

\* The state was made by the build that runs, what is stored by one it may
\* have replaced.
VersionInv ==
    /\ state # None => state.version = build
    /\ disk # None => <<disk.version, build>> \in Redeploy

RestartInv ==
    /\ PreparedInv
    /\ VersionInv
    /\ TurnTaken
    /\ \A o \in published :
          LifetimeReached(o) /\ Kept(o) /\ (running => Le(o.gen, state.gen))

\* Nothing is stored or announced at the start.
LEMMA RestartInit == Init => RestartInv
BY PreparedInit DEF Init, RestartInv, TurnTaken, VersionInv, NothingPrepared

\* What can be read is taken over, under its generation.
LEMMA InitializeReads ==
    ASSUME NEW b \in StorageVersion, NEW now \in Nat, NEW loaded \in StateObject,
           Readable(loaded.version, b)
    PROVE  /\ Initialize(b, now, loaded).gen = loaded.gen
           /\ Initialize(b, now, loaded).value = ReadBy(b, loaded)
<1>0. loaded # None
  BY PersistAssumption
<1>1. CASE loaded.version = b
  BY <1>0, <1>1 DEF Initialize, ReadBy
<1>2. CASE loaded.version # b
  <2>1. <<loaded.version, b>> \in Migratable
    BY <1>2 DEF Readable
  <2>2. Initialize(b, now, loaded) = Migrated(b, loaded)
    BY <1>0, <1>2, <2>1 DEF Initialize
  <2> QED BY <2>2 DEF Migrated
<1> QED BY <1>1, <1>2

\* What initialize makes of a storage that could be read: the first state of
\* the lifetime is not behind anything published, and what it announces is kept.
LEMMA StartStep ==
    ASSUME Steady, serial, RestartInv, NEW b \in StorageVersion, NEW now \in Readings,
           Start(b, now), NEW o \in published'
    PROVE  LifetimeReached(o)' /\ Kept(o)' /\ Le(o.gen, state'.gen)
<1> DEFINE s == Initialize(b, now, disk)
<1>1. /\ state' = s /\ clock' = now /\ build' = b /\ disk' = disk
      /\ <<build, b>> \in Redeploy
      /\ published' = published \cup {Announced(s, Project(s.value), NoDelta)}
  BY DEF Start, LoadResults, Steady
<1>2. /\ now \in Nat /\ clock \in Nat /\ clock <= now
      /\ disk \in StateObject \cup {None}
      /\ build \in StorageVersion
  BY PersistAssumption DEF Readings, RestartInv, PreparedInv, PersistTypeOK
<1>3. s \in StateObject /\ s.version = b
  BY <1>2, InitializeType
<1>4. /\ s.gen \in Generation /\ s.gen.inc \in Nat /\ s.gen.age \in Nat
  BY <1>3 DEF StateObject, Generation
<1> DEFINE a == Announced(s, Project(s.value), NoDelta)
<1>5. a.gen = s.gen /\ a.view = Project(s.value) /\ a.version = b
  BY <1>3 DEF Announced
<1>6. published' \subseteq Outcome
  BY <1>1, TypeStep DEF RestartInv, PreparedInv, Next, PersistTypeOK
<1>7. /\ o.gen \in Generation /\ o.gen.inc \in Nat /\ o.gen.age \in Nat
  BY <1>6 DEF Outcome, Generation
<1>8. o = a \/ (o \in published /\ LifetimeReached(o) /\ Kept(o))
  BY <1>1 DEF RestartInv
<1>9. CASE disk = None
  <2>1. s.gen.inc = now /\ s.gen.age = 0
    <3>1. s = FreshState(b, now)
      BY <1>9 DEF Initialize
    <3>2. s.gen = NewGeneration(now, 0)
      BY <1>2, <3>1, FreshType
    <3> QED BY <3>2 DEF NewGeneration
  <2>2. o.gen.age = 0 /\ o.gen.inc <= now
    BY <1>2, <1>4, <1>5, <1>7, <1>8, <1>9, <2>1 DEF LifetimeReached, Kept
  <2>3. Le(o.gen, s.gen)
    BY <1>4, <1>7, <2>1, <2>2 DEF Le, Lt, Generation
  <2> QED BY <1>1, <1>9, <2>2, <2>3 DEF LifetimeReached, Kept
<1>10. CASE disk # None /\ Readable(disk.version, b)
  <2>1. /\ disk.version \in StorageVersion /\ disk.value \in State
        /\ disk.gen \in Generation /\ disk.gen.inc \in Nat /\ disk.gen.age \in Nat
    BY <1>2, <1>10 DEF StateObject, Generation
  <2>2. s.gen = disk.gen /\ s.value = ReadBy(b, disk)
    BY <1>2, <1>10, InitializeReads
  <2>3. Readable(disk.version, build)
    <3>1. <<disk.version, build>> \in Redeploy
      BY <1>10 DEF RestartInv, VersionInv
    <3> QED BY <1>1, <1>2, <1>10, <2>1, <3>1 DEF Steady
  <2>4. o.gen.inc <= disk.gen.inc
    BY <1>5, <1>7, <1>8, <1>10, <2>1, <2>2, <2>3 DEF LifetimeReached
  <2>5. Kept(o)
    BY <1>5, <1>8, <1>10, <2>2 DEF Kept, Le
  <2>6. Le(o.gen, s.gen)
    BY <1>7, <1>10, <2>1, <2>2, <2>4, <2>5 DEF Kept, Le, Lt, Generation
  <2> QED BY <1>1, <1>7, <1>10, <2>1, <2>4, <2>5, <2>6 DEF LifetimeReached, Kept
<1>11. CASE disk # None /\ ~Readable(disk.version, b)
  <2>1. /\ disk.gen \in Generation /\ disk.gen.inc \in Nat /\ disk.gen.age \in Nat
    BY <1>2, <1>11 DEF StateObject, Generation
  <2>2. s = FreshStateAtLeast(b, now, disk.gen.inc)
    BY <1>11 DEF Initialize, Readable
  <2>3. /\ s.gen.age = 0 /\ s.gen.inc >= now /\ s.gen.inc > disk.gen.inc
        /\ s.gen.inc = now \/ s.gen.inc = disk.gen.inc + 1
    <3> DEFINE i == IF now > disk.gen.inc THEN now ELSE disk.gen.inc + 1
    <3>1. i \in Nat /\ i >= now /\ i > disk.gen.inc /\ (i = now \/ i = disk.gen.inc + 1)
      BY <1>2, <2>1
    <3>2. s = FreshState(b, i)
      BY <2>2 DEF FreshStateAtLeast
    <3> HIDE DEF i
    <3>3. s.gen = NewGeneration(i, 0)
      BY <3>1, <3>2, FreshType
    <3> QED BY <3>1, <3>3 DEF NewGeneration
  <2>4. Kept(o)
    BY <1>5, <1>8, <2>3 DEF Kept
  <2>5. o.gen.inc <= s.gen.inc
    BY <1>2, <1>4, <1>5, <1>7, <1>8, <1>11, <2>1, <2>3 DEF LifetimeReached
  <2>6. o.gen.age > 0 => o.gen.inc < s.gen.inc
    BY <1>4, <1>7, <2>1, <2>3, <2>4 DEF Kept, Le, Lt
  <2>7. Le(o.gen, s.gen)
    BY <1>4, <1>7, <2>3, <2>5, <2>6 DEF Le, Lt, Generation
  <2>8. o.gen.inc > disk.gen.inc => o.gen.inc <= now \/ o.gen.inc <= disk.gen.inc + 1
    BY <1>2, <1>4, <1>5, <1>7, <1>8, <1>11, <2>1, <2>3 DEF LifetimeReached
  <2> QED BY <1>1, <1>11, <2>4, <2>7, <2>8 DEF LifetimeReached, Kept
<1> QED BY <1>9, <1>10, <1>11

\* The state stays one of the running build, the storage one of a build it may
\* replace.
LEMMA VersionStep ==
    ASSUME Steady, serial, RestartInv, [Next]_vars PROVE VersionInv'
<1>0. /\ PreparedInv /\ PersistTypeOK /\ VersionInv
      /\ \A v \in StorageVersion : <<v, v>> \in Redeploy
  BY DEF RestartInv, PreparedInv, Steady
<1>a. ASSUME NEW t \in Caller, prepared[t] # None
      PROVE  prepared[t].new.version = build /\ state # None
  <2>1. state \in StateObject /\ state # None
    BY <1>0, <1>a DEF PreparedInv, PreparedHere, PersistTypeOK
  <2>2. PICK c \in Change : prepared[t].new = Mutated(state, c)
    BY <1>0, <1>a DEF PreparedInv, PreparedHere, RestartInv, TurnTaken
  <2> QED BY <1>0, <2>1, <2>2, MutatedType DEF VersionInv
<1>1. ASSUME NEW b \in StorageVersion, NEW now \in Readings, Start(b, now)
      PROVE  VersionInv'
  <2>1. state' = Initialize(b, now, disk) /\ build' = b /\ UNCHANGED disk
    BY <1>1 DEF Start, LoadResults, Steady
  <2>2. state'.version = b
    <3>1. now \in Nat /\ disk \in StateObject \cup {None}
      BY <1>0, PersistAssumption DEF Readings, PersistTypeOK
    <3> QED BY <2>1, <3>1, InitializeType
  <2>3. disk # None => <<disk.version, b>> \in Redeploy
    <3>1. <<build, b>> \in Redeploy /\ build \in StorageVersion
      BY <1>0, <1>1 DEF Start, PersistTypeOK
    <3>2. disk # None => disk.version \in StorageVersion
      BY <1>0 DEF PersistTypeOK, StateObject
    <3> QED BY <1>0, <3>1, <3>2 DEF VersionInv, Steady
  <2> QED BY <2>1, <2>2, <2>3 DEF VersionInv
<1>2. CASE Stop
  BY <1>0, <1>2 DEF Stop, VersionInv
<1>3. ASSUME NEW t \in Caller, NEW c, NEW d, Prepare(t, c, d) PROVE VersionInv'
  BY <1>0, <1>3 DEF Prepare, VersionInv
<1>4. ASSUME NEW t \in Caller, Save(t) \/ SaveFails(t) PROVE VersionInv'
  <2>1. /\ UNCHANGED <<build, state>> /\ prepared[t] # None
        /\ disk' = disk \/ disk' = prepared[t].new
    BY <1>4 DEF Save, SaveFails
  <2> QED BY <1>0, <1>a, <2>1 DEF VersionInv, PersistTypeOK
<1>5. ASSUME NEW t \in Caller, Commit(t) PROVE VersionInv'
  BY <1>0, <1>5, <1>a DEF Commit, MayCommit, VersionInv
<1>6. CASE UNCHANGED vars
  BY <1>0, <1>6 DEF vars, VersionInv
<1> QED
  BY <1>1, <1>2, <1>3, <1>4, <1>5, <1>6
     DEF Next, Crash, CommitMutation, CommitDeltaMutation, CommitPanics,
         PrepareMutation, PrepareMutationWithDelta

\* While one caller is at work, or begins, no other holds anything.
LEMMA OthersIdle ==
    ASSUME serial, RestartInv, NEW t \in Caller, NEW c, NEW d,
           Prepare(t, c, d) \/ Save(t) \/ SaveFails(t) \/ Commit(t)
    PROVE  \A u \in Caller : prepared'[u] # None => u = t
<1>1. prepared \in [Caller -> PreparedMutation \cup {None}]
  BY DEF RestartInv, PreparedInv, PersistTypeOK
<1>2. PICK x : prepared' = [prepared EXCEPT ![t] = x]
  BY DEF Prepare, Save, SaveFails, Commit
<1>3. prepared[t] # None \/ \A u \in Caller : prepared[u] = None
  BY DEF Prepare, Save, SaveFails, Commit, MayCommit
<1>4. \A u \in Caller : prepared[u] # None => u = t
  BY <1>3 DEF RestartInv, TurnTaken
<1> QED BY <1>1, <1>2, <1>4

\* Every step keeps the bounds on what was announced.
LEMMA RestartStep ==
    ASSUME Steady, serial, RestartInv, [Next]_vars PROVE RestartInv'
<1> DEFINE Good(o) ==
      LifetimeReached(o) /\ Kept(o) /\ (running => Le(o.gen, state.gen))
<1>0. PreparedInv /\ PreparedInv'
  BY PreparedStep DEF RestartInv
<1>a. PersistTypeOK /\ PersistTypeOK'
  BY <1>0 DEF PreparedInv
<1> SUFFICES TurnTaken' /\ \A o \in published' : Good(o)'
  BY <1>0, VersionStep DEF RestartInv
<1>c. \A o \in published : /\ o.gen \in Generation
                           /\ o.gen.inc \in Nat /\ o.gen.age \in Nat
  BY <1>a DEF PersistTypeOK, Outcome, Generation
\* Where the save may have reached storage: everything published is older.
<1>d. ASSUME NEW t \in Caller, prepared[t] # None, disk' = prepared[t].new,
             NEW o \in published
      PROVE  LifetimeReached(o)' /\ Kept(o)'
  <2>1. state \in StateObject
    BY <1>0, <1>a, <1>d DEF PreparedInv, PreparedHere, PersistTypeOK
  <2>2. PICK c \in Change : disk' = Mutated(state, c)
    BY <1>0, <1>d DEF PreparedInv, PreparedHere, RestartInv, TurnTaken
  <2>3. disk' \in StateObject /\ disk'.gen = NextAge(state.gen) /\ disk' # None
    BY <2>1, <2>2, MutatedType, PersistAssumption
  <2>4. /\ state.gen.inc \in Nat /\ state.gen.age \in Nat
        /\ disk'.gen.inc = state.gen.inc /\ disk'.gen.age = state.gen.age + 1
    BY <2>1, <2>3 DEF StateObject, Generation, NextAge, NewGeneration
  <2>5. Le(o.gen, state.gen)
    BY <2>1, PersistAssumption DEF RestartInv, running
  <2>6. o.gen.inc <= disk'.gen.inc /\ Lt(o.gen, disk'.gen) /\ o.gen # disk'.gen
    BY <1>c, <2>4, <2>5 DEF Le, Lt
  <2> QED BY <1>c, <2>3, <2>4, <2>6 DEF LifetimeReached, Kept, Le
\* Where nothing that the parts of Good speak of changes but the shard.
<1>e. ASSUME UNCHANGED <<disk, clock, build>>, NEW o \in published
      PROVE  LifetimeReached(o)' /\ Kept(o)'
  BY <1>e DEF RestartInv, LifetimeReached, Kept
<1>1. ASSUME NEW b \in StorageVersion, NEW now \in Readings, Start(b, now)
      PROVE  TurnTaken' /\ \A o \in published' : Good(o)'
  <2>1. \A o \in published' : Good(o)'
    BY <1>1, StartStep
  <2>2. TurnTaken'
    BY <1>0, <1>1 DEF Start, running, PreparedInv, PreparedHere, TurnTaken
  <2> QED BY <2>1, <2>2
<1>2. CASE Stop
  <2>1. TurnTaken'
    BY <1>2 DEF Stop, NothingPrepared, TurnTaken
  <2>2. UNCHANGED <<disk, clock, build, published>> /\ ~running'
    BY <1>2 DEF Stop, running
  <2> QED BY <1>e, <2>1, <2>2
<1>3. ASSUME NEW t \in Caller, NEW c \in Change, NEW d, Prepare(t, c, d)
      PROVE  TurnTaken' /\ \A o \in published' : Good(o)'
  <2>1. UNCHANGED <<disk, clock, build, published, state>>
    BY <1>3 DEF Prepare
  <2>2. TurnTaken'
    <3>1. \A u \in Caller : prepared'[u] # None => u = t
      BY <1>3, OthersIdle
    <3>2. prepared'[t].base = state.gen /\ ~prepared'[t].saved
      BY <1>3, <1>a DEF Prepare, PersistTypeOK
    <3> QED BY <2>1, <3>1, <3>2 DEF TurnTaken
  <2>3. \A o \in published' : Good(o)'
    BY <1>e, <2>1 DEF RestartInv, running
  <2> QED BY <2>2, <2>3
<1>4. ASSUME NEW t \in Caller, Save(t)
      PROVE  TurnTaken' /\ \A o \in published' : Good(o)'
  <2>1. /\ UNCHANGED <<clock, build, published, state>>
        /\ prepared[t] # None /\ disk' = prepared[t].new
    BY <1>4 DEF Save
  <2>2. TurnTaken'
    <3>1. \A u \in Caller : prepared'[u] # None => u = t
      BY <1>4, OthersIdle
    <3>2. prepared[t] \in PreparedMutation
      BY <1>a, <2>1 DEF PersistTypeOK
    <3>3. prepared'[t] = [prepared[t] EXCEPT !.saved = TRUE]
      BY <1>4, <1>a DEF Save, PersistTypeOK
    <3>4. prepared'[t].base = prepared[t].base /\ prepared'[t].new = prepared[t].new
      BY <3>2, <3>3 DEF PreparedMutation
    <3> QED BY <2>1, <3>1, <3>4 DEF TurnTaken, RestartInv
  <2>3. \A o \in published' : Good(o)'
    BY <1>d, <2>1 DEF RestartInv, running
  <2> QED BY <2>2, <2>3
<1>5. ASSUME NEW t \in Caller, SaveFails(t)
      PROVE  TurnTaken' /\ \A o \in published' : Good(o)'
  <2>1. /\ UNCHANGED <<clock, build, published, state>>
        /\ prepared[t] # None /\ (disk' = disk \/ disk' = prepared[t].new)
    BY <1>5 DEF SaveFails
  <2>2. TurnTaken'
    <3>1. prepared'[t] = None
      BY <1>5, <1>a DEF SaveFails, PersistTypeOK
    <3>2. \A u \in Caller : prepared'[u] # None => u = t
      BY <1>5, OthersIdle
    <3> QED BY <3>1, <3>2 DEF TurnTaken
  <2>3. \A o \in published' : LifetimeReached(o)' /\ Kept(o)'
    BY <1>d, <1>e, <2>1
  <2> QED BY <2>1, <2>2, <2>3 DEF RestartInv, running
<1>6. ASSUME NEW t \in Caller, Commit(t)
      PROVE  TurnTaken' /\ \A o \in published' : Good(o)'
  <2>1. /\ UNCHANGED <<disk, clock, build>>
        /\ prepared[t] # None /\ state' = prepared[t].new
        /\ published' = published \cup
              {Announced(prepared[t].new, prepared[t].view, prepared[t].delta)}
    BY <1>6 DEF Commit, MayCommit
  <2>2. TurnTaken'
    <3>1. prepared'[t] = None
      BY <1>6, <1>a DEF Commit, PersistTypeOK
    <3>2. \A u \in Caller : prepared'[u] # None => u = t
      BY <1>6, OthersIdle
    <3> QED BY <3>1, <3>2 DEF TurnTaken
  <2>3. disk = state' /\ disk \in StateObject /\ disk # None
    <3>1. disk = state'
      BY <1>6, <2>1 DEF Commit, MayCommit, RestartInv, TurnTaken
    <3>2. prepared[t].new \in StateObject
      BY <1>a, <2>1 DEF PersistTypeOK, PreparedMutation
    <3> QED BY <2>1, <3>1, <3>2, PersistAssumption
  <2>4. state \in StateObject /\ state'.gen = NextAge(state.gen)
    BY <1>0, <1>6, CommitStep
  <2>5. /\ state.gen.inc \in Nat /\ state.gen.age \in Nat
        /\ state'.gen.inc = state.gen.inc /\ state'.gen.age = state.gen.age + 1
    BY <2>4 DEF StateObject, Generation, NextAge, NewGeneration
  <2>6. ASSUME NEW o \in published PROVE Good(o)'
    <3>1. Le(o.gen, state.gen)
      BY <2>4, PersistAssumption DEF RestartInv, running
    <3>2. Le(o.gen, state'.gen)
      BY <1>c, <2>5, <3>1 DEF Le, Lt
    <3> QED BY <1>e, <2>1, <3>2
  <2>7. ASSUME NEW o \in published', o \notin published PROVE Good(o)'
    <3>1. /\ o.gen = disk.gen /\ o.view = Project(disk.value)
          /\ o.version = disk.version
      BY <1>0, <2>1, <2>3, <2>7 DEF Announced, PreparedInv, PreparedHere
    <3>2. disk.gen.inc \in Nat
      BY <2>3 DEF StateObject, Generation
    <3>3. LifetimeReached(o)' /\ Kept(o)'
      BY <2>1, <2>3, <3>1, <3>2 DEF LifetimeReached, Kept, Le, Readable, ReadBy
    <3> QED BY <2>3, <3>1, <3>3 DEF Le
  <2> QED BY <2>2, <2>6, <2>7
<1>7. CASE UNCHANGED vars
  <2>1. TurnTaken'
    BY <1>7 DEF vars, TurnTaken, RestartInv
  <2>2. UNCHANGED <<disk, clock, build, published, state>>
    BY <1>7 DEF vars
  <2>3. \A o \in published' : Good(o)'
    BY <1>e, <2>2 DEF RestartInv, running
  <2> QED BY <2>1, <2>3
<1> QED
  BY <1>1, <1>2, <1>3, <1>4, <1>5, <1>6, <1>7
     DEF Next, Crash, CommitMutation, CommitDeltaMutation, CommitPanics,
         PrepareMutation, PrepareMutationWithDelta

\* The host's discipline does not change.
LEMMA SerialStep == [Next]_vars => serial' = serial
BY DEF Next, vars, Start, Crash, CommitPanics, Stop, Save, SaveFails, Prepare,
       PrepareMutation, PrepareMutationWithDelta, CommitMutation,
       CommitDeltaMutation, Commit

\* Where callers take turns, what a commit returned is in storage, or a later
\* generation is, through failed saves, crashes between save and commit,
\* migrations and fallbacks.
THEOREM MutationsDurable == ASSUME Steady PROVE Spec => []Durable
<1> DEFINE Inv == serial => RestartInv
<1>1. Inv => Durable
  BY DEF RestartInv, Kept, Durable
<1>2. Inv /\ [Next]_vars => Inv'
  BY RestartStep, SerialStep
<1> QED BY <1>1, <1>2, RestartInit, PTL DEF Spec

\* Where callers take turns, no restart falls behind what the node ever
\* announced, however often it happens within one clock reading: the rules of initialize are enough when
\* load() does not fail and no build returns that can read what its successor
\* could not.
THEOREM RestartsAhead == ASSUME Steady PROVE Spec => []NeverBehind
<1> DEFINE Inv == serial => RestartInv
<1>1. Inv => NeverBehind
  BY DEF RestartInv, NeverBehind
<1>2. Inv /\ [Next]_vars => Inv'
  BY RestartStep, SerialStep
<1> QED BY <1>1, <1>2, RestartInit, PTL DEF Spec

-----------------------------------------------------------------------------
(* What is announced, across restarts.                                     *)

\* What builds of the running one's storage version announced under the current
\* generation is the view of the current state.
CurrentView ==
    running => \A o \in published :
        o.gen = state.gen /\ o.version = state.version => o.view = Project(state.value)

\* A lifetime that was not restored begins with the view of its build's empty
\* state, and storage only ever holds mutated states.
FirstViews ==
    /\ \A o \in published : o.gen.age = 0 =>
          o.view = Project(DefaultState(o.version))
    /\ disk # None => disk.gen.age > 0

\* The delta a caller holds leads from the current view to the prepared one.
PreparedDelta ==
    \A t \in Caller : prepared[t] # None /\ prepared[t].delta # NoDelta =>
        ApplyDelta(Project(state.value), prepared[t].delta) = prepared[t].view

OwnerInv ==
    RestartInv /\ CurrentView /\ FirstViews /\ PreparedDelta /\ DeltasContinue

\* Nothing is announced at the start.
LEMMA OwnerInit == Init => OwnerInv
BY RestartInit
   DEF Init, OwnerInv, CurrentView, FirstViews, PreparedDelta, DeltasContinue,
       running, NothingPrepared

\* What a start announces: if a build of this storage version announced the
\* generation before, the view is the same, whether the state was restored,
\* migrated or begun anew.
LEMMA StartView ==
    ASSUME Steady, OwnerInv, NEW b \in StorageVersion, NEW now \in Readings,
           Start(b, now)
    PROVE  /\ state' \in StateObject /\ state'.version = b
           /\ published' = published \cup
                {Announced(state', Project(state'.value), NoDelta)}
           /\ disk' = disk
           /\ \A o \in published : o.gen = state'.gen /\ o.version = b
                 => o.view = Project(state'.value)
           /\ state'.gen.age = 0 => state'.value = DefaultState(b)
<1> DEFINE s == Initialize(b, now, disk)
<1>1. /\ state' = s /\ disk' = disk
      /\ published' = published \cup {Announced(s, Project(s.value), NoDelta)}
  BY DEF Start, LoadResults, Steady
<1>2. /\ now \in Nat /\ disk \in StateObject \cup {None}
      /\ published \subseteq Outcome
  BY PersistAssumption
     DEF Readings, OwnerInv, RestartInv, PreparedInv, PersistTypeOK
<1>3. s \in StateObject /\ s.version = b
  BY <1>2, InitializeType
<1>5. \A o \in published : o.gen.age = 0 /\ o.version = b =>
        o.view = Project(DefaultState(b))
  BY DEF OwnerInv, FirstViews
<1>6. ASSUME NEW i \in Nat, s = FreshState(b, i)
      PROVE  /\ \A o \in published : o.gen = s.gen /\ o.version = b
                   => o.view = Project(s.value)
             /\ s.value = DefaultState(b)
  <2>1. s.gen = NewGeneration(i, 0) /\ s.value = DefaultState(b)
    BY <1>6 DEF FreshState
  <2>2. s.gen.age = 0
    BY <2>1 DEF NewGeneration
  <2> QED BY <1>5, <2>1, <2>2
<1>7. CASE disk = None
  BY <1>1, <1>2, <1>3, <1>6, <1>7 DEF Initialize
<1>8. CASE disk # None /\ Readable(disk.version, b)
  <2>1. /\ disk.version \in StorageVersion /\ disk.value \in State
        /\ disk.gen.age \in Nat /\ disk.gen.age > 0
    BY <1>2, <1>8 DEF StateObject, Generation, OwnerInv, FirstViews
  <2>2. s.gen = disk.gen /\ s.value = ReadBy(b, disk)
    BY <1>2, <1>8, InitializeReads
  <2>3. \A o \in published : o.gen = s.gen /\ o.version = b
              => o.view = Project(s.value)
    BY <2>1, <2>2 DEF OwnerInv, RestartInv, Kept
  <2> QED BY <1>1, <1>3, <2>1, <2>2, <2>3
<1>9. CASE disk # None /\ ~Readable(disk.version, b)
  <2> DEFINE i == IF now > disk.gen.inc THEN now ELSE disk.gen.inc + 1
  <2>1. i \in Nat
    BY <1>2, <1>9 DEF StateObject, Generation
  <2>2. s = FreshState(b, i)
    BY <1>9 DEF Initialize, Readable, FreshStateAtLeast
  <2> HIDE DEF i
  <2> QED BY <1>1, <1>3, <1>6, <2>1, <2>2
<1> QED BY <1>7, <1>8, <1>9

\* A commit announces a generation above all that was announced.
LEMMA CommitAhead ==
    ASSUME RestartInv, NEW t \in Caller, Commit(t)
    PROVE  /\ state \in StateObject /\ state' \in StateObject
           /\ prepared[t] # None
           /\ published' = published \cup
                {Announced(state', Project(state'.value), prepared[t].delta)}
           /\ prepared[t].view = Project(state'.value)
           /\ state'.gen = NextAge(state.gen) /\ state'.version = state.version
           /\ \A o \in published : Lt(o.gen, state'.gen)
<1>1. PreparedInv /\ PersistTypeOK
  BY DEF RestartInv, PreparedInv
<1>2. /\ state \in StateObject /\ state'.gen = NextAge(state.gen)
      /\ state'.version = state.version
  BY <1>1, CommitStep, MutatedType
<1>3. /\ prepared[t] # None /\ prepared[t] \in PreparedMutation
      /\ state' = prepared[t].new
      /\ published' = published \cup
            {Announced(prepared[t].new, prepared[t].view, prepared[t].delta)}
  BY <1>1 DEF Commit, MayCommit, PersistTypeOK
<1>4. state' \in StateObject /\ prepared[t].view = Project(state'.value)
  BY <1>1, <1>3 DEF PreparedMutation, PreparedInv, PreparedHere
<1>5. ASSUME NEW o \in published PROVE Lt(o.gen, state'.gen)
  <2>1. Le(o.gen, state.gen)
    BY <1>2, PersistAssumption DEF RestartInv, running
  <2>2. o.gen \in Generation /\ state.gen \in Generation
    BY <1>1, <1>2 DEF PersistTypeOK, Outcome, StateObject
  <2> QED BY <1>2, <2>1, <2>2 DEF Le, Lt, NextAge, NewGeneration, Generation
<1> QED BY <1>2, <1>3, <1>4, <1>5

\* Every step announces views that continue those before.
LEMMA OwnerStep ==
    ASSUME Steady, serial, OwnerInv, [Next]_vars PROVE OwnerInv'
<1>0. RestartInv /\ RestartInv'
  BY RestartStep DEF OwnerInv
<1>a. PreparedInv /\ PersistTypeOK /\ PersistTypeOK'
  BY <1>0 DEF RestartInv, PreparedInv
<1> DEFINE Goal == CurrentView /\ FirstViews /\ PreparedDelta /\ DeltasContinue
<1> SUFFICES Goal'
  BY <1>0 DEF OwnerInv
<1>c. \A o \in published : o.gen \in Generation
  BY <1>a DEF PersistTypeOK, Outcome
\* A view that is announced for the first time or once more, and goes with the
\* state that is now current, breaks no delta sent before.
<1>d. ASSUME NEW d, state' \in StateObject,
             published' = published \cup
                {Announced(state', Project(state'.value), d)},
             \A o \in published : o.gen = state'.gen /\ o.version = state'.version
                => o.view = Project(state'.value),
             d # NoDelta => \A p \in published :
                state'.gen = NextAge(p.gen) /\ state'.version = p.version =>
                    ApplyDelta(p.view, d) = Project(state'.value)
      PROVE  CurrentView' /\ DeltasContinue'
  <2> DEFINE a == Announced(state', Project(state'.value), d)
  <2>1. /\ a.gen = state'.gen /\ a.version = state'.version
        /\ a.view = Project(state'.value) /\ a.delta = d
    BY DEF Announced
  <2>2. state'.gen \in Generation
    BY <1>d DEF StateObject
  <2> HIDE DEF a
  <2>3. \A o \in published' : o \in published \/ o = a
    BY <1>d DEF a
  <2>4. CurrentView'
    BY <1>d, <2>1, <2>3 DEF CurrentView
  <2>5. \A o \in published' : Le(o.gen, state'.gen)
    BY <1>0, <1>d, PersistAssumption DEF RestartInv, running
  <2>6. ASSUME NEW o \in published', NEW p \in published',
               o.delta # NoDelta, o.gen = NextAge(p.gen), o.version = p.version
        PROVE  ApplyDelta(p.view, o.delta) = o.view
    <3>1. CASE p = a
      <4>1. Le(o.gen, state'.gen) /\ o.gen = NextAge(state'.gen)
        BY <2>1, <2>5, <2>6, <3>1
      <4> QED BY <2>2, <4>1 DEF Le, Lt, NextAge, NewGeneration, Generation
    <3>2. CASE p \in published /\ o = a
      BY <1>d, <2>1, <2>6, <3>2
    <3>3. CASE p \in published /\ o \in published
      BY <2>6, <3>3 DEF OwnerInv, DeltasContinue
    <3> QED BY <2>3, <3>1, <3>2, <3>3
  <2> QED BY <2>4, <2>6 DEF DeltasContinue
\* A step that leaves the shard and what it announced alone.
<1>e. ASSUME UNCHANGED <<state, published>>
      PROVE  CurrentView' /\ DeltasContinue'
  BY <1>e DEF OwnerInv, CurrentView, DeltasContinue, running
<1>1. ASSUME NEW b \in StorageVersion, NEW now \in Readings, Start(b, now)
      PROVE  Goal'
  <2>1. CurrentView' /\ DeltasContinue'
    BY <1>1, <1>d, StartView
  <2>2. PreparedDelta'
    BY <1>a, <1>1
       DEF Start, running, PreparedInv, PreparedHere, PreparedDelta
  <2>3. FirstViews'
    BY <1>1, StartView DEF OwnerInv, FirstViews, Announced
  <2> QED BY <2>1, <2>2, <2>3
<1>2. CASE Stop
  BY <1>2 DEF Stop, NothingPrepared, OwnerInv, CurrentView, FirstViews,
              PreparedDelta, DeltasContinue, running
<1>3. ASSUME NEW t \in Caller, NEW c \in Change, Prepare(t, c, NoDelta)
                \/ Prepare(t, c, ChangeDelta(state.value, c))
      PROVE  Goal'
  <2>1. UNCHANGED <<disk, published, state>> /\ state \in StateObject
    BY <1>3, <1>a DEF Prepare, running, PersistTypeOK
  <2>0. \A u \in Caller : prepared'[u] # None => u = t
    BY <1>0, <1>3, OthersIdle
  <2>2. /\ prepared'[t].view = Project(Mutated(state, c).value)
        /\ prepared'[t].delta \in {NoDelta, ChangeDelta(state.value, c)}
    <3>1. PICK d \in {NoDelta, ChangeDelta(state.value, c)} : Prepare(t, c, d)
      BY <1>3
    <3>2. prepared'[t] =
            [base |-> state.gen, new |-> Mutated(state, c),
             view |-> Project(Mutated(state, c).value), delta |-> d, saved |-> FALSE]
      BY <1>a, <3>1 DEF Prepare, PersistTypeOK
    <3> QED BY <3>2
  <2>3. Mutated(state, c).value = ApplyChange(state.value, c) /\ state.value \in State
    BY <2>1, MutatedType DEF StateObject
  <2>4. PreparedDelta'
    BY <2>0, <2>1, <2>2, <2>3, ApplicationLaw DEF PreparedDelta, ChangeDelta
  <2>5. FirstViews'
    BY <2>1 DEF OwnerInv, FirstViews
  <2> QED BY <1>e, <2>1, <2>4, <2>5
<1>4. ASSUME NEW t \in Caller, Save(t) \/ SaveFails(t) PROVE Goal'
  <2>1. /\ UNCHANGED <<published, state>>
        /\ prepared[t] # None
        /\ disk' = disk \/ disk' = prepared[t].new
        /\ prepared'[t] = None \/
              (prepared'[t] = [prepared[t] EXCEPT !.saved = TRUE])
    BY <1>4, <1>a DEF Save, SaveFails, PersistTypeOK
  <2>0. \A u \in Caller : prepared'[u] # None => u = t
    BY <1>0, <1>4, OthersIdle
  <2>2. prepared[t] \in PreparedMutation
    BY <1>a, <2>1 DEF PersistTypeOK
  <2>3. prepared'[t] # None =>
          prepared'[t].view = prepared[t].view /\ prepared'[t].delta = prepared[t].delta
    BY <2>1, <2>2 DEF PreparedMutation
  <2>4. PreparedDelta'
    BY <2>0, <2>1, <2>3 DEF OwnerInv, PreparedDelta
  <2>5. prepared[t].new.gen.age > 0
    <3>1. state \in StateObject
      BY <1>a, <2>1 DEF PreparedInv, PreparedHere, PersistTypeOK
    <3>2. PICK c \in Change : prepared[t].new = Mutated(state, c)
      BY <1>0, <1>a, <2>1 DEF PreparedInv, PreparedHere, RestartInv, TurnTaken
    <3>3. prepared[t].new.gen = NextAge(state.gen) /\ state.gen \in Generation
      BY <3>1, <3>2, MutatedType DEF StateObject
    <3> QED BY <3>3 DEF NextAge, NewGeneration, Generation
  <2>6. FirstViews'
    BY <2>1, <2>5 DEF OwnerInv, FirstViews
  <2> QED BY <1>e, <2>1, <2>4, <2>6
<1>5. ASSUME NEW t \in Caller, Commit(t) PROVE Goal'
  <2>0. UNCHANGED disk /\ \A u \in Caller : prepared'[u] # None => u = t
    BY <1>0, <1>5, OthersIdle DEF Commit
  <2>1. /\ state \in StateObject /\ state' \in StateObject /\ prepared[t] # None
        /\ published' = published \cup
              {Announced(state', Project(state'.value), prepared[t].delta)}
        /\ prepared[t].view = Project(state'.value)
        /\ state'.gen = NextAge(state.gen) /\ state'.version = state.version
        /\ \A o \in published : Lt(o.gen, state'.gen)
    BY <1>0, <1>5, CommitAhead
  <2>2. state'.gen \in Generation /\ state.gen \in Generation
    BY <2>1 DEF StateObject
  <2>3. \A o \in published : o.gen # state'.gen
    BY <1>c, <2>1, <2>2 DEF Lt, Generation
  <2>4. ASSUME prepared[t].delta # NoDelta, NEW p \in published,
               state'.gen = NextAge(p.gen), state'.version = p.version
        PROVE  ApplyDelta(p.view, prepared[t].delta) = Project(state'.value)
    <3>1. p.gen.inc = state.gen.inc /\ p.gen.age = state.gen.age
      BY <1>c, <2>1, <2>2, <2>4 DEF NextAge, NewGeneration, Generation
    <3>2. p.gen = state.gen
      BY <1>c, <2>2, <3>1 DEF Generation
    <3>3. p.view = Project(state.value)
      BY <2>1, <2>4, <3>2, PersistAssumption DEF OwnerInv, CurrentView, running
    <3> QED BY <2>1, <2>4, <3>3 DEF OwnerInv, PreparedDelta
  <2>5. CurrentView' /\ DeltasContinue'
    BY <1>d, <2>1, <2>3, <2>4
  <2>6. PreparedDelta'
    <3>1. prepared'[t] = None
      BY <1>5, <1>a DEF Commit, PersistTypeOK
    <3> QED BY <2>0, <3>1 DEF PreparedDelta
  <2>7. FirstViews'
    <3>1. state'.gen.age # 0
      BY <2>1, <2>2 DEF NextAge, NewGeneration, Generation
    <3> QED BY <2>0, <2>1, <3>1 DEF OwnerInv, FirstViews, Announced
  <2> QED BY <2>5, <2>6, <2>7
<1>6. CASE UNCHANGED vars
  BY <1>6 DEF vars, OwnerInv, CurrentView, FirstViews, PreparedDelta,
              DeltasContinue, running
<1> QED
  BY <1>1, <1>2, <1>3, <1>4, <1>5, <1>6
     DEF Next, Crash, CommitMutation, CommitDeltaMutation, CommitPanics,
         PrepareMutation, PrepareMutationWithDelta

\* Where callers take turns, a peer at the generation before a committed delta
\* arrives at the committed view by applying it, from whatever lifetime of that
\* storage version, or failed save, its own view came: about
\* prepare_mutation_with_delta and initialize.
THEOREM DeltasApply == ASSUME Steady PROVE Spec => []DeltasContinue
<1> DEFINE Inv == serial => OwnerInv
<1>1. Inv => DeltasContinue
  BY DEF OwnerInv, DeltasContinue
<1>2. Inv /\ [Next]_vars => Inv'
  BY OwnerStep, SerialStep
<1> QED BY <1>1, <1>2, OwnerInit, PTL DEF Spec

-----------------------------------------------------------------------------
(* The owner of ReplicatedViews.                                           *)

\* An announcement is the newest of its storage version, or repeats one.
LEMMA AnnounceStep ==
    ASSUME NEW s \in StateObject, NEW v, NEW d, serial, serial',
           published' = published \cup {Announced(s, v, d)},
           \/ \A o \in published : Lt(o.gen, s.gen) \/ o.version # s.version
           \/ \E o \in published :
                 o.gen = s.gen /\ o.version = s.version /\ o.view = v
    PROVE  Announcements!Publish(s.version) \/ UNCHANGED Announcements!vars
<1> DEFINE h == [node |-> s.version, gen |-> s.gen, view |-> v]
<1> DEFINE Version(o) == [node |-> o.version, gen |-> o.gen, view |-> o.view]
<1>0. /\ Versions = {Version(o) : o \in published}
      /\ Versions' = {Version(o) : o \in published'}
  BY DEF Versions
<1>1. Versions' = Versions \cup {h}
  <2>1. Version(Announced(s, v, d)) = h
    BY DEF Announced
  <2> HIDE DEF Version, h
  <2> QED BY <1>0, <2>1
<1>2. CASE \A o \in published : Lt(o.gen, s.gen) \/ o.version # s.version
  <2>1. \A k \in Versions : k.node = s.version => Announcements!Lt(k.gen, s.gen)
    BY <1>0, <1>2 DEF Lt, Announcements!Lt
  <2>2. h \in Versions' /\ h.node = s.version /\ h.gen = s.gen
    BY <1>1
  <2>3. \E k \in Versions' :
          /\ k.node = s.version
          /\ \A j \in Versions : j.node = s.version => Announcements!Lt(j.gen, k.gen)
          /\ Versions' = Versions \cup {k}
    BY <1>1, <2>1, <2>2
  <2>4. Announcements!Publishes(s.version)
    BY <2>3 DEF Announcements!Publishes
  <2> QED BY <2>4 DEF Announcements!Publish
<1>3. CASE \E o \in published :
              o.gen = s.gen /\ o.version = s.version /\ o.view = v
  <2>1. h \in Versions
    BY <1>0, <1>3
  <2> QED BY <1>1, <2>1 DEF Announcements!vars
<1> QED BY <1>2, <1>3

\* An owner that has announced nothing is one of ReplicatedViews.
LEMMA AnnouncementsInit == Init => Announcements!Init
BY DEF Init, Announcements!Init, Versions

\* A commit or a start announces a newer version or repeats one; no other step
\* announces.
LEMMA AnnouncementsStep ==
    ASSUME Steady, serial => OwnerInv, [Next]_vars
    PROVE  [Announcements!Next]_(Announcements!vars)
<1> DEFINE Goal ==
      \/ \E v \in StorageVersion : Announcements!Publish(v)
      \/ UNCHANGED Announcements!vars
<1> SUFFICES Goal
  BY DEF Announcements!Next
<1>0. CASE ~serial
  <2>1. Versions = {} /\ Versions' = {}
    BY <1>0, SerialStep DEF Versions
  <2> QED BY <2>1 DEF Announcements!vars
<1> SUFFICES ASSUME serial PROVE Goal
  BY <1>0
<1>a. serial' /\ OwnerInv /\ RestartInv /\ RestartInv'
  BY SerialStep, RestartStep DEF OwnerInv
<1>1. ASSUME NEW b \in StorageVersion, NEW now \in Readings, Start(b, now)
      PROVE  Goal
  <2>1. /\ state' \in StateObject /\ state'.version = b
        /\ published' = published \cup
              {Announced(state', Project(state'.value), NoDelta)}
        /\ \A o \in published : o.gen = state'.gen /\ o.version = b
              => o.view = Project(state'.value)
    BY <1>a, <1>1, StartView
  <2>2. \A o \in published : Le(o.gen, state'.gen)
    BY <1>a, <2>1, PersistAssumption DEF RestartInv, running
  <2>3. \/ \A o \in published : Lt(o.gen, state'.gen) \/ o.version # state'.version
        \/ \E o \in published : /\ o.gen = state'.gen /\ o.version = state'.version
                                 /\ o.view = Project(state'.value)
    BY <2>1, <2>2 DEF Le
  <2> QED BY <1>a, <2>1, <2>3, AnnounceStep
<1>2. ASSUME NEW t \in Caller, Commit(t) PROVE Goal
  <2>1. /\ state' \in StateObject
        /\ published' = published \cup
              {Announced(state', Project(state'.value), prepared[t].delta)}
        /\ \A o \in published : Lt(o.gen, state'.gen)
    BY <1>a, <1>2, CommitAhead
  <2>2. state'.version \in StorageVersion
    BY <2>1 DEF StateObject
  <2> QED BY <1>a, <2>1, <2>2, AnnounceStep
<1>3. CASE UNCHANGED published
  BY <1>a, <1>3 DEF Announcements!vars, Versions
<1>4. \/ \E b \in StorageVersion : \E now \in Readings : Start(b, now)
      \/ \E t \in Caller : Commit(t)
      \/ UNCHANGED published
  BY DEF Next, Crash, CommitMutation, CommitDeltaMutation, CommitPanics, Stop,
         PrepareMutation, PrepareMutationWithDelta, Prepare, Save, SaveFails, vars
<1> QED BY <1>1, <1>2, <1>3, <1>4

\* The builds of one storage version publish as the abstract specification lets
\* an owner publish, whatever other builds store in between and whatever their
\* migrations do to the view.
THEOREM OwnerRefines == ASSUME Steady PROVE Spec => ImplementsOwner
<1> DEFINE Inv == serial => OwnerInv
<1>1. Inv /\ [Next]_vars => Inv'
  BY OwnerStep, SerialStep
<1>2. Inv /\ [Next]_vars => [Announcements!Next]_(Announcements!vars)
  BY AnnouncementsStep
<1>3. Init => Inv
  BY OwnerInit
<1> HIDE DEF Inv
<1>4. Spec => Announcements!Init /\ [][Announcements!Next]_(Announcements!vars)
  BY <1>1, <1>2, <1>3, AnnouncementsInit, PTL DEF Spec
<1> QED BY <1>4 DEF ImplementsOwner, Announcements!Spec

-----------------------------------------------------------------------------
(* Where migrations leave views alone.                                     *)

\* What would make a generation name one view across storage versions.  The code
\* neither states nor checks it; run MigrationRewrites shows what happens
\* without it.
MigrationsKeepViews ==
    /\ \A s \in State, m \in Migratable :
          Project(Migrate(s, m[1], m[2])) = Project(s)
    /\ \A b1, b2 \in StorageVersion :
          Project(DefaultState(b1)) = Project(DefaultState(b2))

\* What is stored shows one view to every build that can read it.
LEMMA ReadView ==
    ASSUME MigrationsKeepViews, NEW stored \in StateObject,
           NEW b \in StorageVersion, Readable(stored.version, b)
    PROVE  Project(ReadBy(b, stored)) = Project(stored.value)
<1>1. stored.value \in State
  BY DEF StateObject
<1> QED BY <1>1 DEF MigrationsKeepViews, Readable, ReadBy

\* A start announces a generation of before with the view of before.
LEMMA StartRepeats ==
    ASSUME Steady, MigrationsKeepViews, OwnerInv, NEW b \in StorageVersion,
           NEW now \in Readings, Start(b, now), NEW o \in published,
           o.gen = state'.gen
    PROVE  o.view = Project(state'.value)
<1> DEFINE s == Initialize(b, now, disk)
<1>1. state' = s /\ state' \in StateObject
  BY StartView DEF Start, LoadResults, Steady
<1>2. /\ now \in Nat /\ disk \in StateObject \cup {None}
      /\ o \in Outcome
  BY PersistAssumption
     DEF Readings, OwnerInv, RestartInv, PreparedInv, PersistTypeOK
<1>3. o.version \in StorageVersion /\ o.gen.age \in Nat
  BY <1>2 DEF Outcome, Generation
<1>4. CASE o.gen.age = 0
  <2>1. state'.value = DefaultState(b)
    BY <1>4, StartView
  <2>2. o.view = Project(DefaultState(o.version))
    BY <1>4 DEF OwnerInv, FirstViews
  <2> QED BY <1>3, <2>1, <2>2 DEF MigrationsKeepViews
<1>5. CASE o.gen.age # 0
  <2>1. /\ disk # None /\ disk \in StateObject
        /\ Le(o.gen, disk.gen)
    BY <1>2, <1>3, <1>5 DEF OwnerInv, RestartInv, Kept
  <2>2. Readable(disk.version, b)
    <3>1. SUFFICES ASSUME ~Readable(disk.version, b) PROVE FALSE
      OBVIOUS
    <3> DEFINE i == IF now > disk.gen.inc THEN now ELSE disk.gen.inc + 1
    <3>2. i \in Nat
      BY <1>2, <2>1 DEF StateObject, Generation
    <3>3. s = FreshState(b, i)
      BY <2>1, <3>1 DEF Initialize, Readable, FreshStateAtLeast
    <3> HIDE DEF i
    <3>4. s.gen = NewGeneration(i, 0)
      BY <3>2, <3>3, FreshType
    <3>5. s.gen.age = 0
      BY <3>4 DEF NewGeneration
    <3> QED BY <1>1, <1>5, <3>5
  <2>3. s.gen = disk.gen /\ s.value = ReadBy(b, disk)
    BY <1>2, <2>1, <2>2, InitializeReads
  <2>4. /\ Readable(disk.version, o.version)
        /\ o.view = Project(ReadBy(o.version, disk))
    BY <1>1, <1>3, <1>5, <2>3 DEF OwnerInv, RestartInv, Kept
  <2> QED BY <1>1, <1>3, <2>1, <2>2, <2>3, <2>4, ReadView
<1> QED BY <1>4, <1>5

\* Were every migration to keep the view, and all builds to begin with one view,
\* then a generation announced twice would be the duplicate that peers take it
\* for: nothing else in prepare, save, commit and initialize breaks it.
THEOREM DuplicatesWithoutMigration ==
    ASSUME Steady, MigrationsKeepViews PROVE Spec => []EqualIsDuplicate
<1> DEFINE Inv == (serial => OwnerInv) /\ EqualIsDuplicate
<1>1. Init => Inv
  BY OwnerInit DEF Init, EqualIsDuplicate
<1>2. ASSUME Inv, [Next]_vars PROVE EqualIsDuplicate'
  <2>0. SUFFICES ASSUME serial, serial', OwnerInv PROVE EqualIsDuplicate'
    BY <1>2, SerialStep DEF EqualIsDuplicate
  <2>1. ASSUME NEW b \in StorageVersion, NEW now \in Readings, Start(b, now)
        PROVE  EqualIsDuplicate'
    <3> DEFINE a == Announced(state', Project(state'.value), NoDelta)
    <3>1. published' = published \cup {a}
      BY <2>0, <2>1, StartView
    <3>2. a.gen = state'.gen /\ a.view = Project(state'.value)
      BY DEF Announced
    <3>3. \A o \in published : o.gen = state'.gen => o.view = Project(state'.value)
      BY <2>0, <2>1, StartRepeats
    <3> HIDE DEF a
    <3> QED BY <1>2, <3>1, <3>2, <3>3, <2>0 DEF EqualIsDuplicate
  <2>2. ASSUME NEW t \in Caller, Commit(t) PROVE EqualIsDuplicate'
    <3> DEFINE a == Announced(state', Project(state'.value), prepared[t].delta)
    <3>1. /\ published' = published \cup {a} /\ state' \in StateObject
          /\ \A o \in published : Lt(o.gen, state'.gen)
      BY <2>0, <2>2, CommitAhead DEF OwnerInv
    <3>2. a.gen = state'.gen
      BY DEF Announced
    <3>3. \A o \in published : o.gen \in Generation
      BY <2>0 DEF OwnerInv, RestartInv, PreparedInv, PersistTypeOK, Outcome
    <3>4. \A o \in published : o.gen # a.gen
      BY <3>1, <3>2, <3>3 DEF Lt, Generation, StateObject
    <3> HIDE DEF a
    <3> QED BY <1>2, <2>0, <3>1, <3>4 DEF EqualIsDuplicate
  <2>3. CASE UNCHANGED published
    BY <1>2, <2>0, <2>3 DEF EqualIsDuplicate
  <2> QED
    BY <1>2, <2>1, <2>2, <2>3
       DEF Next, Crash, CommitMutation, CommitDeltaMutation, CommitPanics, Stop,
           PrepareMutation, PrepareMutationWithDelta, Prepare, Save, SaveFails, vars
<1>3. Inv /\ [Next]_vars => Inv'
  BY <1>2, OwnerStep, SerialStep
<1>4. Inv => EqualIsDuplicate
  OBVIOUS
<1> HIDE DEF Inv
<1> QED BY <1>1, <1>3, <1>4, PTL DEF Spec

=============================================================================
