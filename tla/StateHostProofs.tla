-------------------------- MODULE StateHostProofs --------------------------
(***************************************************************************)
(* Proofs about StateHost, for any number of nodes, states and shard       *)
(* types: nobody waits for a generation its owner does not have, and no    *)
(* change is lost between a mutation and the mark it leaves at a peer,     *)
(* however the states share batches.                                       *)
(***************************************************************************)
EXTENDS StateHost, GenerationsProofs

-----------------------------------------------------------------------------
(* The inductive invariant.                                                *)

\* The maps from some of the members of S to members of T.
Maps(S, T) == UNION {[D -> T] : D \in SUBSET S}

ShardObject == [type : ShardType, gen : Generation, views : [Host -> OptEntry]]

Notification == [name : Name, source : Host, gen : Generation]

HostTypes ==
    /\ shards \in [Host -> Maps(Name, ShardObject)]
    /\ mailbox \in [Host -> SUBSET NotifyMsg(Name)]
    /\ pending \in [Host -> Maps(Name \X Host, Generation)]
    /\ batches \in [Host -> [Host -> Seq(SUBSET Notification)]]
    /\ handled \in 0 .. MaxEvents
    /\ since \in [Host -> [Name -> [Host -> OptGeneration]]]

\* A generation p's state s has or had.
Reached(p, s, g) ==
    s \in DOMAIN shards[p] /\ g.inc = 1 /\ Le(g, shards[p][s].gen)

\* What an aggregator is told, keeps and sends is of its own registered states.
FeedIsOwn(p) ==
    /\ \A s \in DOMAIN shards[p] : shards[p][s].gen.inc = 1
    /\ \A x \in mailbox[p] : Reached(p, x.name, x.gen)
    /\ \A k \in DOMAIN pending[p] : k[2] = p /\ Reached(p, k[1], pending[p][k])
    /\ \A n \in Host : \A i \in DOMAIN batches[p][n] : \A x \in batches[p][n][i] :
          x.source = p /\ Reached(p, x.name, x.gen)

\* The generations of one state do not decrease on their way: through the
\* batches, what is pending and the mailbox.
FeedInOrder(p) ==
    /\ \A x \in mailbox[p] : <<x.name, p>> \in DOMAIN pending[p] =>
          Le(pending[p][<<x.name, p>>], x.gen)
    /\ \A n \in Host : \A i \in DOMAIN batches[p][n] : \A x \in batches[p][n][i] :
          /\ \A y \in mailbox[p] : y.name = x.name => Le(x.gen, y.gen)
          /\ <<x.name, p>> \in DOMAIN pending[p] =>
                Le(x.gen, pending[p][<<x.name, p>>])
          /\ \A j \in DOMAIN batches[p][n] : \A y \in batches[p][n][j] :
                y.name = x.name /\ i < j => Le(x.gen, y.gen)
          /\ \A y \in batches[p][n][i] : y.name = x.name => x = y

\* What the entry of a peer, and a mark on it, can be: the first generation at
\* most while the peer has no such state.
Ceiling(p, s) ==
    IF s \in DOMAIN shards[p] THEN shards[p][s].gen ELSE FirstGeneration

\* n's entry of p's state s is not ahead of its owner, its mark is not ahead of
\* what is still to come, and the latest change was announced.
EntryFollows(n, s, p) ==
    LET entry == shards[n][s].views[p] IN
    entry # NoView =>
        /\ Le(entry.gen, Ceiling(p, s))
        /\ entry.pending # NoGen => Le(entry.pending, Ceiling(p, s))
        /\ n # p /\ entry.pending # NoGen =>
              \A g \in UnderWay(p, s, n) : Le(entry.pending, g)
        /\ n # p /\ since[n][s][p] # NoGen =>
              /\ s \in DOMAIN shards[p]
              /\ Lt(since[n][s][p], shards[p][s].gen) =>
                    \/ Le(shards[p][s].gen, entry.gen)
                    \/ entry.pending # NoGen /\ Le(shards[p][s].gen, entry.pending)
                    \/ \E g \in UnderWay(p, s, n) : Le(shards[p][s].gen, g)

HostInv ==
    /\ HostTypes
    /\ \A p \in Host : FeedIsOwn(p) /\ FeedInOrder(p)
    /\ \A n \in Host : \A s \in DOMAIN shards[n] : \A p \in Host :
          EntryFollows(n, s, p)

-----------------------------------------------------------------------------
(* Facts about the model's maps, entries and sets of announcements.        *)

\* A map of the model is a function of its domain.
LEMMA MapFacts ==
    ASSUME NEW S, NEW T, NEW f \in Maps(S, T)
    PROVE  f \in [DOMAIN f -> T] /\ DOMAIN f \subseteq S
BY DEF Maps

\* A function of some of the members of S is a map of the model.
LEMMA MapIntro ==
    ASSUME NEW S, NEW T, NEW D \in SUBSET S, NEW f \in [D -> T]
    PROVE  f \in Maps(S, T) /\ DOMAIN f = D
BY DEF Maps

\* Inserting into a map (HashMap::insert).
LEMMA WithType ==
    ASSUME NEW S, NEW T, NEW f \in Maps(S, T), NEW x \in S, NEW y \in T
    PROVE  With(f, x, y) \in Maps(S, T)
<1>1. f \in [DOMAIN f -> T] /\ DOMAIN f \cup {x} \in SUBSET S
  BY MapFacts
<1>2. With(f, x, y) \in [DOMAIN f \cup {x} -> T]
  BY <1>1 DEF With
<1> QED BY <1>1, <1>2, MapIntro

\* The empty map.
LEMMA EmptyFacts ==
    ASSUME NEW S, NEW T PROVE Empty \in Maps(S, T) /\ DOMAIN Empty = {}
<1>1. Empty \in [{} -> T]
  BY DEF Empty
<1> QED BY <1>1, MapIntro

\* Where an announcement can be on its way.
LEMMA UnderWayIs ==
    ASSUME NEW p, NEW s, NEW n, NEW g
    PROVE  g \in UnderWay(p, s, n) <=>
              \/ \E x \in mailbox[p] : x.name = s /\ x.gen = g
              \/ <<s, p>> \in DOMAIN pending[p] /\ pending[p][<<s, p>>] = g
              \/ \E i \in DOMAIN batches[p][n] : \E x \in batches[p][n][i] :
                    x.name = s /\ x.source = p /\ x.gen = g
BY DEF UnderWay, ToSet

\* The same, after a step.
LEMMA UnderWayIsNext ==
    ASSUME NEW p, NEW s, NEW n, NEW g
    PROVE  g \in UnderWay(p, s, n)' <=>
              \/ \E x \in mailbox'[p] : x.name = s /\ x.gen = g
              \/ <<s, p>> \in DOMAIN pending'[p] /\ pending'[p][<<s, p>>] = g
              \/ \E i \in DOMAIN batches'[p][n] : \E x \in batches'[p][n][i] :
                    x.name = s /\ x.source = p /\ x.gen = g
BY DEF UnderWay, ToSet

\* The types of what a shard makes of an entry.
LEMMA EntryTypes ==
    ASSUME NEW e \in OptEntry, NEW g \in Generation
    PROVE  /\ MarkStale(e, g) \in OptEntry
           /\ InsertPlaceholder(e, DefaultView) \in OptEntry
           /\ AcceptSnapshot(e, g, DefaultView) \in OptEntry
           /\ OwnEntry(g, DefaultView) \in Entry
           /\ e # NoView => /\ e.gen \in Generation
                            /\ e.pending \in OptGeneration
<1> USE HostAssumption DEF OptEntry, Entry, OptGeneration
<1>1. MarkStale(e, g) \in OptEntry
  BY DEF MarkStale
<1>2. InsertPlaceholder(e, DefaultView) \in OptEntry
  BY DEF InsertPlaceholder, Placeholder, PlaceholderPending, Zero, NewGeneration,
         Generation
<1>3. AcceptSnapshot(e, g, DefaultView) \in OptEntry
  BY DEF AcceptSnapshot, Updated, KeptPending
<1> QED BY <1>1, <1>2, <1>3 DEF OwnEntry

\* The types, part by part.
LEMMA Typed ==
    ASSUME HostTypes, NEW n \in Host
    PROVE  /\ shards[n] \in Maps(Name, ShardObject)
           /\ shards[n] \in [DOMAIN shards[n] -> ShardObject]
           /\ DOMAIN shards[n] \subseteq Name
           /\ \A s \in DOMAIN shards[n] :
                 /\ shards[n][s].gen \in Generation
                 /\ shards[n][s].views \in [Host -> OptEntry]
           /\ \A x \in mailbox[n] : x.name \in Name /\ x.gen \in Generation
           /\ pending[n] \in Maps(Name \X Host, Generation)
           /\ \A k \in DOMAIN pending[n] : pending[n][k] \in Generation
           /\ \A m \in Host :
                 /\ batches[n][m] \in Seq(SUBSET Notification)
                 /\ \A i \in DOMAIN batches[n][m] : \A x \in batches[n][m][i] :
                       x.name \in Name /\ x.source \in Host /\ x.gen \in Generation
<1>1. /\ shards[n] \in Maps(Name, ShardObject)
      /\ pending[n] \in Maps(Name \X Host, Generation)
  BY DEF HostTypes
<1>2. /\ shards[n] \in [DOMAIN shards[n] -> ShardObject]
      /\ DOMAIN shards[n] \subseteq Name
      /\ pending[n] \in [DOMAIN pending[n] -> Generation]
  BY <1>1, MapFacts
<1>3. \A s \in DOMAIN shards[n] :
        /\ shards[n][s].gen \in Generation
        /\ shards[n][s].views \in [Host -> OptEntry]
  BY <1>2 DEF ShardObject
<1>4. \A x \in mailbox[n] : x.name \in Name /\ x.gen \in Generation
  BY DEF HostTypes, NotifyMsg
<1>5. ASSUME NEW m \in Host
      PROVE  /\ batches[n][m] \in Seq(SUBSET Notification)
             /\ \A i \in DOMAIN batches[n][m] : \A x \in batches[n][m][i] :
                   x.name \in Name /\ x.source \in Host /\ x.gen \in Generation
  <2>1. batches[n][m] \in Seq(SUBSET Notification)
    BY DEF HostTypes
  <2>2. \A i \in DOMAIN batches[n][m] : batches[n][m][i] \in SUBSET Notification
    BY <2>1
  <2> QED BY <2>1, <2>2 DEF Notification
<1> QED BY <1>1, <1>2, <1>3, <1>4, <1>5

\* Nothing is registered, announced or batched at the start.
LEMMA HostInit == Init => HostInv
<1> SUFFICES ASSUME Init PROVE HostInv
  OBVIOUS
<1>1. /\ \A n \in Host : shards[n] = Empty /\ pending[n] = Empty /\ mailbox[n] = {}
      /\ \A n, m \in Host : batches[n][m] = <<>>
  BY DEF Init
<1>2. HostTypes
  <2>1. shards \in [Host -> Maps(Name, ShardObject)]
    BY EmptyFacts DEF Init
  <2>2. pending \in [Host -> Maps(Name \X Host, Generation)]
    BY EmptyFacts DEF Init
  <2>3. batches \in [Host -> [Host -> Seq(SUBSET Notification)]]
    <3>1. << >> \in Seq(SUBSET Notification)
      OBVIOUS
    <3> QED BY <3>1 DEF Init
  <2>4. handled \in 0 .. MaxEvents
    BY HostAssumption DEF Init
  <2>5. since \in [Host -> [Name -> [Host -> OptGeneration]]]
    BY DEF Init, OptGeneration
  <2>6. mailbox \in [Host -> SUBSET NotifyMsg(Name)]
    BY DEF Init
  <2> QED BY <2>1, <2>2, <2>3, <2>4, <2>5, <2>6 DEF HostTypes
<1>3. \A n \in Host : DOMAIN shards[n] = {} /\ DOMAIN pending[n] = {}
  <2>1. DOMAIN Empty = {}
    BY DEF Empty
  <2> QED BY <1>1, <2>1
<1>4. \A n, m \in Host : DOMAIN batches[n][m] = {}
  BY <1>1
<1>5. \A p \in Host : FeedIsOwn(p) /\ FeedInOrder(p)
  BY <1>1, <1>3, <1>4 DEF FeedIsOwn, FeedInOrder
<1> QED BY <1>2, <1>3, <1>5 DEF HostInv

-----------------------------------------------------------------------------
(* Steps that leave the owners' generations as they were.                  *)

\* Every node has the states it had, at the generations they had.
SameOwners ==
    \A p \in Host :
        /\ DOMAIN shards'[p] = DOMAIN shards[p]
        /\ \A s \in DOMAIN shards[p] : shards'[p][s].gen = shards[p][s].gen

\* Where no shard is registered and none moves on, the generations reached are
\* the same.
LEMMA SameReached ==
    ASSUME SameOwners, NEW p \in Host, NEW s
    PROVE  /\ Ceiling(p, s)' = Ceiling(p, s)
           /\ \A g : Reached(p, s, g)' <=> Reached(p, s, g)
BY DEF SameOwners, Ceiling, Reached

\* Nor does what a feed holds become less true.
LEMMA SameFeed ==
    ASSUME HostInv, SameOwners, UNCHANGED <<mailbox, pending, batches>>
    PROVE  \A p \in Host : FeedIsOwn(p)' /\ FeedInOrder(p)'
<1> SUFFICES ASSUME NEW p \in Host PROVE FeedIsOwn(p)' /\ FeedInOrder(p)'
  OBVIOUS
<1>1. FeedIsOwn(p) /\ FeedInOrder(p)
  BY DEF HostInv
<1>2. FeedInOrder(p)'
  BY <1>1 DEF FeedInOrder
<1>3. FeedIsOwn(p)'
  BY <1>1, SameReached DEF FeedIsOwn, SameOwners
<1> QED BY <1>2, <1>3

-----------------------------------------------------------------------------
(* The steps of the registry and of a shard.                               *)

\* The generations of FirstGeneration's lifetime.
LEMMA FirstIsFirst ==
    /\ FirstGeneration \in Generation /\ FirstGeneration.inc = 1
    /\ PlaceholderPending = FirstGeneration
    /\ Zero \in Generation /\ Le(Zero, FirstGeneration)
    /\ \A g \in Generation : g.inc = 1 => Le(FirstGeneration, g)
<1>1. FirstGeneration \in Generation /\ FirstGeneration.inc = 1 /\ FirstGeneration.age = 0
  BY DEF FirstGeneration, NewGeneration, Generation
<1>2. ASSUME NEW g \in Generation, g.inc = 1 PROVE Le(FirstGeneration, g)
  BY <1>2, ZeroBelow DEF FirstGeneration
<1>3. Zero \in Generation /\ Lt(Zero, FirstGeneration)
  BY <1>1 DEF Zero, NewGeneration, Generation, Lt
<1> QED BY <1>1, <1>2, <1>3 DEF PlaceholderPending, FirstGeneration, Le

\* A shard begins at the first generation, with its own entry only.
LEMMA NewShard ==
    ASSUME NEW n \in Host, NEW type \in ShardType
    PROVE  /\ Shard(n, type) \in ShardObject
           /\ Shard(n, type).gen = FirstGeneration
           /\ Shard(n, type).views[n] = OwnEntry(FirstGeneration, DefaultView)
           /\ \A p \in Host : p # n => Shard(n, type).views[p] = NoView
<1>1. OwnEntry(FirstGeneration, DefaultView) \in Entry
  BY FirstIsFirst, EntryTypes DEF OptEntry
<1>2. [p \in Host |-> IF p = n THEN OwnEntry(FirstGeneration, DefaultView)
                      ELSE NoView] \in [Host -> OptEntry]
  BY <1>1 DEF OptEntry
<1> QED BY <1>2, FirstIsFirst DEF Shard, ShardObject

\* register: no peer can have an entry of the new shard that is ahead of it, as
\* no shard was registered under the name before.
LEMMA RegisterStep ==
    ASSUME HostInv, NEW n \in Host, NEW s \in Name, NEW type \in ShardType,
           Register(n, s, type)
    PROVE  HostInv'
<1> DEFINE new == Shard(n, type)
<1>0. /\ HostTypes /\ s \notin DOMAIN shards[n]
      /\ shards' = [shards EXCEPT ![n] = With(@, s, new)]
      /\ UNCHANGED <<mailbox, pending, batches, handled, since>>
  BY DEF HostInv, Register
<1>1. /\ new \in ShardObject /\ new.gen = FirstGeneration
      /\ new.views[n] = OwnEntry(FirstGeneration, DefaultView)
      /\ \A p \in Host : p # n => new.views[p] = NoView
  BY NewShard
<1> HIDE DEF new
<1>2. /\ shards'[n] \in Maps(Name, ShardObject)
      /\ DOMAIN shards'[n] = DOMAIN shards[n] \cup {s}
      /\ shards'[n][s] = new
      /\ \A z \in DOMAIN shards[n] : shards'[n][z] = shards[n][z]
      /\ \A m \in Host : m # n => shards'[m] = shards[m]
  <2>1. /\ shards'[n] = With(shards[n], s, new)
        /\ \A m \in Host : m # n => shards'[m] = shards[m]
    BY <1>0 DEF HostTypes
  <2>2. shards[n] \in Maps(Name, ShardObject)
    BY <1>0, Typed
  <2>3. \A z \in DOMAIN shards[n] : z # s
    BY <1>0
  <2>4. With(shards[n], s, new) \in Maps(Name, ShardObject)
    BY <1>1, <2>2, WithType
  <2> QED BY <2>1, <2>3, <2>4 DEF With
<1>3. HostTypes'
  BY <1>0, <1>2 DEF HostTypes
<1>4. \A p \in Host : \A z \in DOMAIN shards[p] :
        z \in DOMAIN shards'[p] /\ shards'[p][z] = shards[p][z]
  BY <1>2
<1>5. \A p \in Host : \A z, g : Reached(p, z, g) => Reached(p, z, g)'
  BY <1>4 DEF Reached
<1>6. \A p \in Host : \A z : Ceiling(p, z)' = Ceiling(p, z)
  BY <1>0, <1>1, <1>2 DEF Ceiling
<1>7. ASSUME NEW p \in Host PROVE FeedIsOwn(p)' /\ FeedInOrder(p)'
  <2>1. FeedIsOwn(p) /\ FeedInOrder(p)
    BY DEF HostInv
  <2>2. FeedInOrder(p)'
    BY <1>0, <2>1 DEF FeedInOrder
  <2>3. \A z \in DOMAIN shards'[p] : shards'[p][z].gen.inc = 1
    BY <1>1, <1>2, <2>1, FirstIsFirst DEF FeedIsOwn
  <2> QED BY <1>0, <1>5, <2>1, <2>2, <2>3 DEF FeedIsOwn
<1>8. ASSUME NEW m \in Host, NEW z \in DOMAIN shards'[m], NEW p \in Host
      PROVE  EntryFollows(m, z, p)'
  <2>1. CASE z \in DOMAIN shards[m]
    <3>1. EntryFollows(m, z, p) /\ shards'[m][z] = shards[m][z]
      BY <1>4, <2>1 DEF HostInv
    <3>2. UnderWay(p, z, m)' = UnderWay(p, z, m)
      BY <1>0 DEF UnderWay
    <3> QED BY <1>0, <1>4, <1>6, <3>1, <3>2 DEF EntryFollows
  <2>2. CASE z \notin DOMAIN shards[m]
    <3>1. m = n /\ z = s /\ shards'[m][z] = new
      BY <1>2, <2>2
    <3>2. CASE p = n
      <4>1. shards'[m][z].views[p] = OwnEntry(FirstGeneration, DefaultView)
        BY <1>1, <3>1, <3>2
      <4>2. Ceiling(p, z)' = FirstGeneration
        BY <1>1, <1>2, <3>1, <3>2 DEF Ceiling
      <4> QED BY <3>1, <3>2, <4>1, <4>2 DEF EntryFollows, OwnEntry, Le
    <3>3. CASE p # n
      BY <1>1, <3>1, <3>3 DEF EntryFollows
    <3> QED BY <3>2, <3>3
  <2> QED BY <2>1, <2>2
<1> QED BY <1>3, <1>7, <1>8 DEF HostInv

\* A mutation moves the owner past every entry, and its announcement is at once
\* on its way.
LEMMA MutateStep ==
    ASSUME HostInv, NEW n \in Host, NEW s \in Name, NEW type, Mutate(n, s, type)
    PROVE  HostInv'
<1> DEFINE gen == NextAge(shards[n][s].gen)
           note == [name |-> s, gen |-> gen]
           own == OwnEntry(gen, DefaultView)
           new == [shards[n][s] EXCEPT !.gen = gen, !.views[n] = own]
<1>0. /\ HostTypes /\ s \in DOMAIN shards[n]
      /\ shards' = [shards EXCEPT ![n][s].gen = gen, ![n][s].views[n] = own]
      /\ mailbox' = [mailbox EXCEPT ![n] = @ \cup {note}]
      /\ UNCHANGED <<pending, batches, handled, since>>
  BY DEF HostInv, Mutate, LookupTyped
<1>a. /\ shards[n] \in [DOMAIN shards[n] -> ShardObject]
      /\ shards[n][s] \in ShardObject /\ shards[n][s].gen \in Generation
      /\ DOMAIN shards[n] \in SUBSET Name /\ s \in DOMAIN shards[n]
  BY <1>0, Typed
<1>b. /\ gen \in Generation /\ Lt(shards[n][s].gen, gen)
      /\ gen.inc = shards[n][s].gen.inc
  BY <1>a, NextAgeAdvances DEF NextAge, NewGeneration
<1>c. note.name = s /\ note.gen = gen /\ note \in NotifyMsg(Name)
  BY <1>b DEF NotifyMsg
<1>d. own \in OptEntry /\ own.gen = gen /\ own.pending = NoGen
  BY <1>b, HostAssumption DEF OwnEntry, OptEntry, Entry, OptGeneration
<1> HIDE DEF gen, note, own
<1>1. /\ new \in ShardObject /\ new.gen = gen /\ new.views[n] = own
      /\ \A p \in Host : p # n => new.views[p] = shards[n][s].views[p]
  BY <1>a, <1>b, <1>d DEF ShardObject
<1>2. /\ shards'[n] = [shards[n] EXCEPT ![s] = new]
      /\ \A m \in Host : m # n => shards'[m] = shards[m]
  <2>1. /\ shards'[n] = [shards[n] EXCEPT ![s].gen = gen, ![s].views[n] = own]
        /\ \A m \in Host : m # n => shards'[m] = shards[m]
    BY <1>0 DEF HostTypes
  <2>2. [shards[n] EXCEPT ![s].gen = gen, ![s].views[n] = own]
            = [shards[n] EXCEPT ![s] = new]
    BY <1>a
  <2> QED BY <2>1, <2>2
<1> HIDE DEF new
<1>3. /\ shards'[n] \in [DOMAIN shards[n] -> ShardObject]
      /\ shards'[n][s] = new
      /\ \A z \in DOMAIN shards[n] : z # s => shards'[n][z] = shards[n][z]
      /\ \A m \in Host : m # n => shards'[m] = shards[m]
  BY <1>1, <1>2, <1>a
<1>4. shards'[n] \in Maps(Name, ShardObject)
  BY <1>a, <1>3, MapIntro
<1>5. HostTypes'
  <2>1. shards' \in [Host -> Maps(Name, ShardObject)]
    BY <1>0, <1>3, <1>4 DEF HostTypes
  <2> QED BY <1>0, <1>c, <2>1 DEF HostTypes
<1>6. \A p \in Host : DOMAIN shards'[p] = DOMAIN shards[p]
  BY <1>3
<1>7. \A p \in Host : \A z \in DOMAIN shards[p] :
        /\ ~(p = n /\ z = s) => shards'[p][z] = shards[p][z]
        /\ shards[p][z].gen \in Generation /\ shards'[p][z].gen \in Generation
        /\ Le(shards[p][z].gen, shards'[p][z].gen)
        /\ shards'[p][z].gen.inc = shards[p][z].gen.inc
  BY <1>0, <1>1, <1>3, <1>b, Typed DEF Le
<1>8. \A p \in Host : \A z : \A g \in Generation : Reached(p, z, g) => Reached(p, z, g)'
  BY <1>6, <1>7, LeTransitive DEF Reached
<1>9. \A p \in Host : /\ FeedIsOwn(p) /\ FeedInOrder(p)
                      /\ (p # n => mailbox'[p] = mailbox[p])
                      /\ \A x \in mailbox'[p] : x \in mailbox[p] \/ (p = n /\ x = note)
                      /\ mailbox[p] \subseteq mailbox'[p]
  BY <1>0 DEF HostInv, HostTypes
\* Whatever is under way of s was reached, and is older than the change.
<1>10. \A g \in Generation : Reached(n, s, g) => Le(g, gen)
  BY <1>a, <1>b, LeLtTransitive DEF Reached, Le
<1>11. ASSUME NEW p \in Host PROVE FeedIsOwn(p)'
  <2>1. \A x \in mailbox'[p] : Reached(p, x.name, x.gen)'
    <3> SUFFICES ASSUME NEW x \in mailbox'[p] PROVE Reached(p, x.name, x.gen)'
      OBVIOUS
    <3>1. CASE p = n /\ x = note
      <4>1. shards[n][s].gen.inc = 1
        BY <1>9, <1>a DEF FeedIsOwn
      <4>2. shards'[n][s].gen = gen /\ s \in DOMAIN shards'[n]
        BY <1>1, <1>3, <1>6, <1>a
      <4>3. x.name = s /\ x.gen = gen
        BY <1>c, <3>1
      <4> QED BY <1>b, <3>1, <4>1, <4>2, <4>3 DEF Reached, Le
    <3>2. CASE x \in mailbox[p]
      <4>1. Reached(p, x.name, x.gen) /\ x.gen \in Generation
        BY <1>0, <1>9, <3>2, Typed DEF FeedIsOwn
      <4> QED BY <1>8, <4>1
    <3> QED BY <1>9, <3>1, <3>2
  <2>2. \A k \in DOMAIN pending[p] : k[2] = p /\ Reached(p, k[1], pending[p][k])'
    BY <1>0, <1>8, <1>9, Typed DEF FeedIsOwn
  <2>3. \A m \in Host : \A i \in DOMAIN batches[p][m] : \A x \in batches[p][m][i] :
          x.source = p /\ Reached(p, x.name, x.gen)'
    BY <1>0, <1>8, <1>9, Typed DEF FeedIsOwn
  <2>4. \A z \in DOMAIN shards'[p] : shards'[p][z].gen.inc = 1
    BY <1>6, <1>7, <1>9 DEF FeedIsOwn
  <2> QED BY <1>0, <2>1, <2>2, <2>3, <2>4 DEF FeedIsOwn
<1>12. ASSUME NEW p \in Host PROVE FeedInOrder(p)'
  <2>1. \A x \in mailbox'[p] : <<x.name, p>> \in DOMAIN pending[p] =>
          Le(pending[p][<<x.name, p>>], x.gen)
    <3>1. ASSUME <<s, n>> \in DOMAIN pending[n] PROVE Le(pending[n][<<s, n>>], gen)
      <4>1. Reached(n, s, pending[n][<<s, n>>]) /\ pending[n][<<s, n>>] \in Generation
        BY <1>0, <1>9, <3>1, Typed DEF FeedIsOwn
      <4> QED BY <1>10, <4>1
    <3> QED BY <1>9, <1>c, <3>1 DEF FeedInOrder
  <2>2. \A m \in Host : \A i \in DOMAIN batches[p][m] : \A x \in batches[p][m][i] :
          \A y \in mailbox'[p] : y.name = x.name => Le(x.gen, y.gen)
    <3> SUFFICES ASSUME NEW m \in Host, NEW i \in DOMAIN batches[p][m],
                        NEW x \in batches[p][m][i], NEW y \in mailbox'[p],
                        y.name = x.name
                 PROVE  Le(x.gen, y.gen)
      OBVIOUS
    <3>1. Reached(p, x.name, x.gen) /\ x.gen \in Generation
      BY <1>0, <1>9, Typed DEF FeedIsOwn
    <3>2. CASE p = n /\ y = note
      BY <1>10, <1>c, <3>1, <3>2
    <3>3. CASE y \in mailbox[p]
      BY <1>9, <3>3 DEF FeedInOrder
    <3> QED BY <1>9, <3>2, <3>3
  <2> QED BY <1>0, <1>9, <2>1, <2>2 DEF FeedInOrder
<1>13. ASSUME NEW m \in Host, NEW z \in DOMAIN shards'[m], NEW p \in Host
       PROVE  EntryFollows(m, z, p)'
  <2>0. z \in DOMAIN shards[m] /\ EntryFollows(m, z, p)
    BY <1>6 DEF HostInv
  <2>1. CASE m = n /\ z = s /\ p = n
    <3>1. shards'[m][z].views[p] = own /\ Ceiling(p, z)' = gen
      BY <1>0, <1>1, <1>3, <1>6, <2>1 DEF Ceiling
    <3> QED BY <1>d, <2>1, <3>1 DEF EntryFollows, Le
  <2>2. CASE ~(m = n /\ z = s /\ p = n)
    <3> DEFINE entry == shards[m][z].views[p]
    <3>1. shards'[m][z].views[p] = entry
      BY <1>1, <1>3, <1>7, <2>0, <2>2
    <3>2. entry \in OptEntry
      BY <1>0, <2>0, Typed
    <3>3. entry # NoView => entry.gen \in Generation /\ entry.pending \in OptGeneration
      BY <3>2 DEF OptEntry, Entry
    <3> HIDE DEF entry
    <3>4. /\ Ceiling(p, z) \in Generation /\ Ceiling(p, z)' \in Generation
          /\ Le(Ceiling(p, z), Ceiling(p, z)')
      BY <1>6, <1>7, FirstIsFirst DEF Ceiling, Le
    <3>5. entry # NoView =>
            /\ Le(entry.gen, Ceiling(p, z)')
            /\ entry.pending # NoGen => Le(entry.pending, Ceiling(p, z)')
      <4>1. entry # NoView =>
              /\ Le(entry.gen, Ceiling(p, z))
              /\ entry.pending # NoGen => Le(entry.pending, Ceiling(p, z))
        BY <2>0 DEF EntryFollows, entry
      <4> QED BY <3>3, <3>4, <4>1, LeTransitive DEF OptGeneration
    <3>6. \A g : g \in UnderWay(p, z, m)' =>
            g \in UnderWay(p, z, m) \/ (p = n /\ z = s /\ g = gen)
      <4> SUFFICES ASSUME NEW g, g \in UnderWay(p, z, m)'
                   PROVE  g \in UnderWay(p, z, m) \/ (p = n /\ z = s /\ g = gen)
        OBVIOUS
      <4>1. CASE \E x \in mailbox'[p] : x.name = z /\ x.gen = g
        <5>1. PICK x \in mailbox'[p] : x.name = z /\ x.gen = g
          BY <4>1
        <5>2. CASE x \in mailbox[p]
          BY <5>1, <5>2, UnderWayIs
        <5> QED BY <1>9, <1>c, <5>1, <5>2
      <4>2. CASE <<z, p>> \in DOMAIN pending'[p] /\ pending'[p][<<z, p>>] = g
        BY <1>0, <4>2, UnderWayIs
      <4>3. CASE \E i \in DOMAIN batches'[p][m] : \E x \in batches'[p][m][i] :
                   x.name = z /\ x.source = p /\ x.gen = g
        <5>1. batches'[p][m] = batches[p][m]
          BY <1>0
        <5>2. \E i \in DOMAIN batches[p][m] : \E x \in batches[p][m][i] :
                   x.name = z /\ x.source = p /\ x.gen = g
          BY <4>3, <5>1
        <5> QED BY ONLY <5>2, UnderWayIs
      <4> QED BY <4>1, <4>2, <4>3, UnderWayIsNext
    <3>7. UnderWay(p, z, m) \subseteq UnderWay(p, z, m)'
      <4> SUFFICES ASSUME NEW g \in UnderWay(p, z, m) PROVE g \in UnderWay(p, z, m)'
        OBVIOUS
      <4>1. CASE \E x \in mailbox[p] : x.name = z /\ x.gen = g
        BY <1>9, <4>1, UnderWayIsNext
      <4>2. CASE <<z, p>> \in DOMAIN pending[p] /\ pending[p][<<z, p>>] = g
        BY <1>0, <4>2, UnderWayIsNext
      <4>3. CASE \E i \in DOMAIN batches[p][m] : \E x \in batches[p][m][i] :
                   x.name = z /\ x.source = p /\ x.gen = g
        <5>1. batches'[p][m] = batches[p][m]
          BY <1>0
        <5>2. \E i \in DOMAIN batches'[p][m] : \E x \in batches'[p][m][i] :
                   x.name = z /\ x.source = p /\ x.gen = g
          BY <4>3, <5>1
        <5> QED BY ONLY <5>2, UnderWayIsNext
      <4> QED BY <4>1, <4>2, <4>3, UnderWayIs
    <3>8. p = n /\ z = s => gen \in UnderWay(p, z, m)' /\ Ceiling(p, z)' = gen
      <4> SUFFICES ASSUME p = n, z = s
                   PROVE  gen \in UnderWay(p, z, m)' /\ Ceiling(p, z)' = gen
        OBVIOUS
      <4>1. \E x \in mailbox'[p] : x.name = z /\ x.gen = gen
        BY <1>0, <1>c DEF HostTypes
      <4>2. ASSUME NEW g, g = gen PROVE g \in UnderWay(p, z, m)'
        BY <4>1, <4>2, UnderWayIsNext
      <4>3. Ceiling(p, z)' = gen
        BY <1>1, <1>3, <1>6, <1>a DEF Ceiling
      <4> QED BY <4>2, <4>3
    <3>9. ASSUME entry # NoView, entry.pending # NoGen, m # p
          PROVE  \A g \in UnderWay(p, z, m)' : Le(entry.pending, g)
      <4>1. \A g \in UnderWay(p, z, m) : Le(entry.pending, g)
        BY <2>0, <3>9 DEF EntryFollows, entry
      <4> QED BY <3>5, <3>6, <3>8, <3>9, <4>1
    <3>10. ASSUME entry # NoView, m # p, since[m][z][p] # NoGen
           PROVE  /\ z \in DOMAIN shards'[p]
                  /\ Lt(since[m][z][p], shards'[p][z].gen) =>
                       \/ Le(shards'[p][z].gen, entry.gen)
                       \/ /\ entry.pending # NoGen
                          /\ Le(shards'[p][z].gen, entry.pending)
                       \/ \E g \in UnderWay(p, z, m)' : Le(shards'[p][z].gen, g)
      <4>1. z \in DOMAIN shards[p] /\ z \in DOMAIN shards'[p]
        BY <1>6, <2>0, <3>10 DEF EntryFollows, entry
      <4>2. CASE p = n /\ z = s
        <5>1. shards'[p][z].gen = gen /\ Le(gen, gen)
          BY <1>1, <1>3, <4>2 DEF Le
        <5> QED BY <3>8, <4>1, <4>2, <5>1
      <4>3. CASE ~(p = n /\ z = s)
        <5>1. shards'[p][z] = shards[p][z]
          BY <1>7, <4>1, <4>3
        <5> QED BY <2>0, <3>7, <3>10, <4>1, <5>1 DEF EntryFollows, entry
      <4> QED BY <4>2, <4>3
    <3> QED BY <1>0, <3>1, <3>5, <3>9, <3>10 DEF EntryFollows
  <2> QED BY <2>1, <2>2
<1> QED BY <1>5, <1>11, <1>12, <1>13 DEF HostInv

-----------------------------------------------------------------------------
(* The steps of the aggregator.                                            *)

\* What is under way of p's state s has been reached.
LEMMA UnderWayType ==
    ASSUME HostInv, NEW p \in Host, NEW n \in Host, NEW s,
           NEW g \in UnderWay(p, s, n)
    PROVE  g \in Generation /\ Reached(p, s, g)
<1>1. HostTypes /\ FeedIsOwn(p)
  BY DEF HostInv
<1>2. CASE \E x \in mailbox[p] : x.name = s /\ x.gen = g
  BY <1>1, <1>2, Typed DEF FeedIsOwn
<1>3. CASE <<s, p>> \in DOMAIN pending[p] /\ pending[p][<<s, p>>] = g
  BY <1>1, <1>3, Typed DEF FeedIsOwn
<1>4. CASE \E i \in DOMAIN batches[p][n] : \E x \in batches[p][n][i] :
             x.name = s /\ x.source = p /\ x.gen = g
  BY <1>1, <1>4, Typed DEF FeedIsOwn
<1> QED BY <1>2, <1>3, <1>4, UnderWayIs

\* The entry is as it was, nothing new is under way, and what was is, or
\* something newer.
LEMMA SameEntry ==
    ASSUME HostInv, SameOwners, NEW n \in Host, NEW s \in DOMAIN shards[n],
           NEW p \in Host,
           shards'[n][s].views[p] = shards[n][s].views[p],
           since'[n][s][p] = since[n][s][p],
           n # p => /\ UnderWay(p, s, n)' \subseteq UnderWay(p, s, n)
                    /\ \A g \in UnderWay(p, s, n) :
                          \E h \in UnderWay(p, s, n)' : Le(g, h)
    PROVE  EntryFollows(n, s, p)'
<1>1. EntryFollows(n, s, p) /\ HostTypes
  BY DEF HostInv
<1>2. Ceiling(p, s)' = Ceiling(p, s)
  BY SameReached
<1>3. \A z \in DOMAIN shards[p] :
        shards'[p][z].gen = shards[p][z].gen /\ shards[p][z].gen \in Generation
  BY <1>1, Typed DEF SameOwners
<1>4. ASSUME n # p, s \in DOMAIN shards[p],
             \E g \in UnderWay(p, s, n) : Le(shards[p][s].gen, g)
      PROVE  \E h \in UnderWay(p, s, n)' : Le(shards[p][s].gen, h)
  <2>1. PICK g \in UnderWay(p, s, n) : Le(shards[p][s].gen, g)
    BY <1>4
  <2>2. PICK h \in UnderWay(p, s, n)' : Le(g, h)
    BY <1>4
  <2>3. g \in Generation /\ h \in Generation
    BY <1>4, UnderWayType
  <2> QED BY <1>3, <1>4, <2>1, <2>2, <2>3, LeTransitive
<1> QED BY <1>1, <1>2, <1>3, <1>4 DEF EntryFollows, SameOwners

\* notify_change: the aggregator takes the oldest announcement of a state, and
\* keeping the higher generation keeps the newer one.
LEMMA NotifyStep ==
    ASSUME HostInv, NEW n \in Host, NEW note, NotifyChange(n, note)
    PROVE  HostInv'
<1> DEFINE key == <<note.name, n>>
<1>0. /\ HostTypes /\ note \in mailbox[n]
      /\ \A y \in mailbox[n] : y.name = note.name => Le(note.gen, y.gen)
      /\ mailbox' = [mailbox EXCEPT ![n] = @ \ {note}]
      /\ UNCHANGED <<shards, batches, handled, since>>
      /\ \A p \in Host : FeedIsOwn(p) /\ FeedInOrder(p)
  BY DEF HostInv, NotifyChange
<1>1. note.name \in Name /\ note.gen \in Generation /\ key \in Name \X Host
  BY <1>0, Typed
<1>2. /\ key \in DOMAIN pending[n] =>
            pending[n][key] \in Generation /\ Le(pending[n][key], note.gen)
      /\ pending[n] \in Maps(Name \X Host, Generation)
  BY <1>0, Typed DEF FeedInOrder
\* In order, the announcement read is at least the pending one.
<1>3. /\ pending' \in [Host -> Maps(Name \X Host, Generation)]
      /\ \A p \in Host : p # n => pending'[p] = pending[p]
      /\ DOMAIN pending'[n] = DOMAIN pending[n] \cup {key}
      /\ pending'[n][key] = note.gen
      /\ \A k \in DOMAIN pending[n] : k # key => pending'[n][k] = pending[n][k]
  <2>1. CASE key \in DOMAIN pending[n] /\ ~Lt(pending[n][key], note.gen)
    <3>1. pending' = pending
      BY <2>1 DEF NotifyChange, NotifyKey
    <3>2. pending[n][key] = note.gen
      BY <1>2, <2>1 DEF Le
    <3> QED BY <1>0, <2>1, <3>1, <3>2 DEF HostTypes
  <2>2. CASE ~(key \in DOMAIN pending[n] /\ ~Lt(pending[n][key], note.gen))
    <3>1. pending' = [pending EXCEPT ![n] = With(pending[n], key, note.gen)]
      BY <2>2 DEF NotifyChange, NotifyKey
    <3>2. With(pending[n], key, note.gen) \in Maps(Name \X Host, Generation)
      BY <1>1, <1>2, WithType
    <3>3. /\ pending'[n] = With(pending[n], key, note.gen)
          /\ \A p \in Host : p # n => pending'[p] = pending[p]
          /\ pending' \in [Host -> Maps(Name \X Host, Generation)]
      BY <1>0, <3>1, <3>2 DEF HostTypes
    <3> QED BY <3>3 DEF With
  <2> QED BY <2>1, <2>2
<1>4. /\ mailbox' \in [Host -> SUBSET NotifyMsg(Name)]
      /\ \A p \in Host : mailbox'[p] \subseteq mailbox[p]
      /\ \A p \in Host : \A x \in mailbox[p] : x \in mailbox'[p] \/ (p = n /\ x = note)
      /\ \A p \in Host : p # n => mailbox'[p] = mailbox[p]
  BY <1>0 DEF HostTypes
<1>5. HostTypes'
  BY <1>0, <1>3, <1>4 DEF HostTypes
<1>6. SameOwners /\ \A p \in Host : \A s, g : Reached(p, s, g)' <=> Reached(p, s, g)
  BY <1>0 DEF SameOwners, Reached
<1>7. ASSUME NEW p \in Host PROVE FeedIsOwn(p)'
  <2>1. \A k \in DOMAIN pending'[p] : k[2] = p /\ Reached(p, k[1], pending'[p][k])
    <3>1. Reached(n, note.name, note.gen) /\ key[1] = note.name /\ key[2] = n
      BY <1>0 DEF FeedIsOwn
    <3>2. \A k \in DOMAIN pending[p] : k[2] = p /\ Reached(p, k[1], pending[p][k])
      BY <1>0 DEF FeedIsOwn
    <3> HIDE DEF key
    <3> QED BY <1>3, <3>1, <3>2
  <2> QED BY <1>0, <1>4, <1>6, <2>1 DEF FeedIsOwn
<1>8. ASSUME NEW p \in Host PROVE FeedInOrder(p)'
  <2>0. FeedInOrder(p)
    BY <1>0
  <2>1. ASSUME NEW x \in mailbox'[p], <<x.name, p>> \in DOMAIN pending'[p]
        PROVE  Le(pending'[p][<<x.name, p>>], x.gen)
    <3>1. CASE p = n /\ x.name = note.name
      BY <1>0, <1>3, <1>4, <3>1
    <3>2. CASE ~(p = n /\ x.name = note.name)
      <4>1. /\ <<x.name, p>> \in DOMAIN pending[p]
            /\ pending'[p][<<x.name, p>>] = pending[p][<<x.name, p>>]
        BY <1>3, <2>1, <3>2
      <4> QED BY <1>4, <2>0, <4>1 DEF FeedInOrder
    <3> QED BY <3>1, <3>2
  <2>2. ASSUME NEW m \in Host, NEW i \in DOMAIN batches[p][m],
               NEW x \in batches[p][m][i], <<x.name, p>> \in DOMAIN pending'[p]
        PROVE  Le(x.gen, pending'[p][<<x.name, p>>])
    <3>1. CASE p = n /\ x.name = note.name
      BY <1>0, <1>3, <2>0, <3>1 DEF FeedInOrder
    <3>2. CASE ~(p = n /\ x.name = note.name)
      <4>1. /\ <<x.name, p>> \in DOMAIN pending[p]
            /\ pending'[p][<<x.name, p>>] = pending[p][<<x.name, p>>]
        BY <1>3, <2>2, <3>2
      <4> QED BY <2>0, <4>1 DEF FeedInOrder
    <3> QED BY <3>1, <3>2
  <2> QED BY <1>0, <1>4, <2>0, <2>1, <2>2 DEF FeedInOrder
<1>9. ASSUME NEW m \in Host, NEW s \in DOMAIN shards'[m], NEW p \in Host
      PROVE  EntryFollows(m, s, p)'
  <2>1. ASSUME NEW g \in UnderWay(p, s, m)' PROVE g \in UnderWay(p, s, m)
    <3>1. CASE \E x \in mailbox'[p] : x.name = s /\ x.gen = g
      BY <1>4, <3>1, UnderWayIs
    <3>2. CASE <<s, p>> \in DOMAIN pending'[p] /\ pending'[p][<<s, p>>] = g
      <4>1. CASE p = n /\ s = note.name
        <5>1. \E x \in mailbox[p] : x.name = s /\ x.gen = g
          BY <1>0, <1>3, <3>2, <4>1
        <5> QED BY <5>1, UnderWayIs
      <4>2. CASE ~(p = n /\ s = note.name)
        <5>1. <<s, p>> \in DOMAIN pending[p] /\ pending[p][<<s, p>>] = g
          BY <1>3, <3>2, <4>2
        <5> QED BY <5>1, UnderWayIs
      <4> QED BY <4>1, <4>2
    <3>3. CASE \E i \in DOMAIN batches'[p][m] : \E x \in batches'[p][m][i] :
                 x.name = s /\ x.source = p /\ x.gen = g
      <4>1. \E i \in DOMAIN batches[p][m] : \E x \in batches[p][m][i] :
                 x.name = s /\ x.source = p /\ x.gen = g
        BY <1>0, <3>3
      <4> QED BY <4>1, UnderWayIs
    <3> QED BY <3>1, <3>2, <3>3, UnderWayIsNext
  <2>2. ASSUME NEW g \in UnderWay(p, s, m)
        PROVE  \E h \in UnderWay(p, s, m)' : Le(g, h)
    <3>0. Le(g, g)
      BY DEF Le
    <3>a. p = n /\ s = note.name => note.gen \in UnderWay(p, s, m)'
      <4>1. ASSUME NEW h, h = note.gen, p = n, s = note.name
            PROVE  h \in UnderWay(p, s, m)'
        <5>1. <<s, p>> \in DOMAIN pending'[p] /\ pending'[p][<<s, p>>] = h
          BY <1>3, <4>1
        <5> QED BY <5>1, UnderWayIsNext
      <4> QED BY <4>1
    <3>1. CASE \E x \in mailbox[p] : x.name = s /\ x.gen = g
      <4>1. PICK x \in mailbox[p] : x.name = s /\ x.gen = g
        BY <3>1
      <4>2. CASE x \in mailbox'[p]
        BY <3>0, <4>1, <4>2, UnderWayIsNext
      <4>3. CASE p = n /\ x = note
        BY <3>0, <3>a, <4>1, <4>3
      <4> QED BY <1>4, <4>2, <4>3
    <3>2. CASE <<s, p>> \in DOMAIN pending[p] /\ pending[p][<<s, p>>] = g
      <4>1. CASE p = n /\ s = note.name
        BY <1>2, <3>2, <3>a, <4>1
      <4>2. CASE ~(p = n /\ s = note.name)
        <5>1. <<s, p>> \in DOMAIN pending'[p] /\ pending'[p][<<s, p>>] = g
          BY <1>3, <3>2, <4>2
        <5> QED BY <3>0, <5>1, UnderWayIsNext
      <4> QED BY <4>1, <4>2
    <3>3. CASE \E i \in DOMAIN batches[p][m] : \E x \in batches[p][m][i] :
                 x.name = s /\ x.source = p /\ x.gen = g
      <4>1. \E i \in DOMAIN batches'[p][m] : \E x \in batches'[p][m][i] :
                 x.name = s /\ x.source = p /\ x.gen = g
        BY <1>0, <3>3
      <4> QED BY <3>0, <4>1, UnderWayIsNext
    <3> QED BY <3>1, <3>2, <3>3, UnderWayIs
  <2> QED BY <1>0, <1>6, <2>1, <2>2, SameEntry
<1> QED BY <1>5, <1>7, <1>8, <1>9 DEF HostInv

\* What flush drains: the pending generation of every state of the node.
LEMMA DrainedIs ==
    ASSUME HostInv, NEW n \in Host
    PROVE  /\ Drained(n) \in SUBSET Notification
           /\ \A x \in Drained(n) : /\ x.source = n
                                    /\ <<x.name, n>> \in DOMAIN pending[n]
                                    /\ x.gen = pending[n][<<x.name, n>>]
                                    /\ Reached(n, x.name, x.gen)
           /\ \A s : <<s, n>> \in DOMAIN pending[n] =>
                 \E x \in Drained(n) : /\ x.name = s /\ x.source = n
                                       /\ x.gen = pending[n][<<s, n>>]
           /\ \A x, y \in Drained(n) : x.name = y.name => x = y
<1>0. HostTypes /\ FeedIsOwn(n)
  BY DEF HostInv
<1>1. /\ pending[n] \in [DOMAIN pending[n] -> Generation]
      /\ DOMAIN pending[n] \subseteq Name \X Host
  <2>1. pending[n] \in Maps(Name \X Host, Generation)
    BY <1>0, Typed
  <2> QED BY <2>1, MapFacts
<1>2. ASSUME NEW x \in Drained(n)
      PROVE  /\ x \in Notification
             /\ <<x.name, n>> \in DOMAIN pending[n]
             /\ x = [name |-> x.name, source |-> n, gen |-> pending[n][<<x.name, n>>]]
  <2>1. PICK k \in DOMAIN pending[n] :
               x = [name |-> k[1], source |-> k[2], gen |-> pending[n][k]]
    BY DEF Drained
  <2>2. k \in Name \X Host /\ k[2] = n
    BY <1>0, <1>1 DEF FeedIsOwn
  <2>3. k = <<k[1], n>> /\ k[1] \in Name /\ x.name = k[1]
    BY <2>1, <2>2
  <2>4. pending[n][k] \in Generation
    BY <1>1
  <2> QED BY <2>1, <2>2, <2>3, <2>4 DEF Notification
<1>3. ASSUME NEW x \in Drained(n) PROVE Reached(n, x.name, x.gen)
  <2>1. /\ <<x.name, n>> \in DOMAIN pending[n]
        /\ x.gen = pending[n][<<x.name, n>>]
    BY <1>2
  <2>2. \A k \in DOMAIN pending[n] : Reached(n, k[1], pending[n][k])
    BY <1>0 DEF FeedIsOwn
  <2>3. Reached(n, <<x.name, n>>[1], pending[n][<<x.name, n>>])
    BY <2>1, <2>2
  <2> QED BY <2>1, <2>3
<1>4. ASSUME NEW s, <<s, n>> \in DOMAIN pending[n]
      PROVE  \E x \in Drained(n) : /\ x.name = s /\ x.source = n
                                   /\ x.gen = pending[n][<<s, n>>]
  <2>1. [name |-> <<s, n>>[1], source |-> <<s, n>>[2],
         gen |-> pending[n][<<s, n>>]] \in Drained(n)
    BY <1>4 DEF Drained
  <2> QED BY <2>1
<1>5. \A x, y \in Drained(n) : x.name = y.name => x = y
  BY <1>2
<1>6. \A x \in Drained(n) : /\ x.source = n
                            /\ <<x.name, n>> \in DOMAIN pending[n]
                            /\ x.gen = pending[n][<<x.name, n>>]
  BY <1>2
<1> QED BY <1>2, <1>3, <1>4, <1>5, <1>6

\* Two announcements of one state in the batches to a node.
LEMMA BatchOrder ==
    ASSUME NEW p, FeedInOrder(p), NEW n \in Host,
           NEW i \in DOMAIN batches[p][n], NEW x \in batches[p][n][i],
           NEW j \in DOMAIN batches[p][n], NEW y \in batches[p][n][j],
           y.name = x.name
    PROVE  (i < j => Le(x.gen, y.gen)) /\ (i = j => x = y)
<1>1. i < j => Le(x.gen, y.gen)
  BY DEF FeedInOrder
<1>2. \A z \in batches[p][n][i] : z.name = x.name => x = z
  BY DEF FeedInOrder
<1> QED BY <1>1, <1>2

\* flush: what was pending is on its way in a batch, behind all earlier ones.
LEMMA FlushStep ==
    ASSUME HostInv, NEW n \in Host, Flush(n)
    PROVE  HostInv'
<1> DEFINE drained == Drained(n)
<1>0. /\ HostTypes
      /\ batches' = [batches EXCEPT ![n] = [m \in Host |-> Append(batches[n][m], drained)]]
      /\ pending' = [pending EXCEPT ![n] = Empty]
      /\ UNCHANGED <<shards, mailbox, handled, since>>
      /\ \A p \in Host : FeedIsOwn(p) /\ FeedInOrder(p)
  BY DEF HostInv, Flush
<1>1. /\ drained \in SUBSET Notification
      /\ \A x \in drained : /\ x.source = n
                            /\ <<x.name, n>> \in DOMAIN pending[n]
                            /\ x.gen = pending[n][<<x.name, n>>]
                            /\ Reached(n, x.name, x.gen)
      /\ \A s : <<s, n>> \in DOMAIN pending[n] =>
            \E x \in drained : /\ x.name = s /\ x.source = n
                               /\ x.gen = pending[n][<<s, n>>]
      /\ \A x, y \in drained : x.name = y.name => x = y
  BY DrainedIs
<1> HIDE DEF drained
<1>2. /\ pending' \in [Host -> Maps(Name \X Host, Generation)]
      /\ DOMAIN pending'[n] = {}
      /\ \A p \in Host : p # n => pending'[p] = pending[p]
  <2>1. Empty \in Maps(Name \X Host, Generation) /\ DOMAIN Empty = {}
    <3>1. DOMAIN Empty = {}
      BY DEF Empty
    <3> QED BY <3>1, EmptyFacts
  <2> QED BY <1>0, <2>1 DEF HostTypes
<1>3. ASSUME NEW m \in Host
      PROVE  /\ batches'[n][m] = Append(batches[n][m], drained)
             /\ batches'[n][m] \in Seq(SUBSET Notification)
             /\ DOMAIN batches[n][m] = 1 .. Len(batches[n][m])
             /\ Len(batches[n][m]) \in Nat
             /\ DOMAIN batches'[n][m] = 1 .. Len(batches[n][m]) + 1
             /\ \A i \in DOMAIN batches[n][m] : batches'[n][m][i] = batches[n][m][i]
             /\ batches'[n][m][Len(batches[n][m]) + 1] = drained
  <2>1. batches[n][m] \in Seq(SUBSET Notification)
    BY <1>0, Typed
  <2>2. batches'[n][m] = Append(batches[n][m], drained)
    BY <1>0 DEF HostTypes
  <2> QED BY <1>1, <2>1, <2>2
<1>4. \A p \in Host : p # n => batches'[p] = batches[p]
  BY <1>0 DEF HostTypes
<1>5. HostTypes'
  <2>1. batches' \in [Host -> [Host -> Seq(SUBSET Notification)]]
    <3>1. \A m \in Host : Append(batches[n][m], drained) \in Seq(SUBSET Notification)
      BY <1>3
    <3>2. [m \in Host |-> Append(batches[n][m], drained)]
              \in [Host -> Seq(SUBSET Notification)]
      BY <3>1
    <3> QED BY <1>0, <3>2 DEF HostTypes
  <2> QED BY <1>0, <1>2, <2>1 DEF HostTypes
<1>6. SameOwners /\ \A p \in Host : \A s, g : Reached(p, s, g)' <=> Reached(p, s, g)
  BY <1>0 DEF SameOwners, Reached
\* Where an announcement is after the flush.
<1>7. ASSUME NEW p \in Host, NEW m \in Host, NEW i \in DOMAIN batches'[p][m],
             NEW x \in batches'[p][m][i]
      PROVE  \/ i \in DOMAIN batches[p][m] /\ x \in batches[p][m][i]
             \/ p = n /\ i = Len(batches[p][m]) + 1 /\ x \in drained
  <2>1. CASE p = n
    <3>1. i \in 1 .. Len(batches[n][m]) + 1 /\ Len(batches[n][m]) \in Nat
      BY <1>3, <2>1
    <3>2. i \in 1 .. Len(batches[n][m]) \/ i = Len(batches[n][m]) + 1
      BY <3>1
    <3> QED BY <1>3, <2>1, <3>2
  <2> QED BY <1>4, <2>1
<1>8. ASSUME NEW p \in Host PROVE FeedIsOwn(p)'
  <2>1. \A m \in Host : \A i \in DOMAIN batches'[p][m] : \A x \in batches'[p][m][i] :
          x.source = p /\ Reached(p, x.name, x.gen)
    <3>1. ASSUME NEW m \in Host, NEW i \in DOMAIN batches'[p][m],
                 NEW x \in batches'[p][m][i]
          PROVE  x.source = p /\ Reached(p, x.name, x.gen)
      <4>1. CASE i \in DOMAIN batches[p][m] /\ x \in batches[p][m][i]
        BY <1>0, <4>1 DEF FeedIsOwn
      <4>2. CASE p = n /\ x \in drained
        BY <1>1, <4>2
      <4> QED BY <1>7, <4>1, <4>2
    <3> QED BY <3>1
  <2>2. \A k \in DOMAIN pending'[p] : k[2] = p /\ Reached(p, k[1], pending'[p][k])
    BY <1>0, <1>2 DEF FeedIsOwn
  <2> QED BY <1>0, <1>6, <2>1, <2>2 DEF FeedIsOwn
<1>9. ASSUME NEW p \in Host PROVE FeedInOrder(p)'
  <2>0. FeedInOrder(p)
    BY <1>0
  <2>1. \A x \in mailbox'[p] : <<x.name, p>> \in DOMAIN pending'[p] =>
          Le(pending'[p][<<x.name, p>>], x.gen)
    BY <1>0, <1>2 DEF FeedInOrder
  <2>2. ASSUME NEW m \in Host, NEW i \in DOMAIN batches'[p][m],
               NEW x \in batches'[p][m][i]
        PROVE  /\ \A y \in mailbox'[p] : y.name = x.name => Le(x.gen, y.gen)
               /\ <<x.name, p>> \in DOMAIN pending'[p] =>
                     Le(x.gen, pending'[p][<<x.name, p>>])
    <3>1. CASE i \in DOMAIN batches[p][m] /\ x \in batches[p][m][i]
      BY <1>0, <1>2, <2>0, <3>1 DEF FeedInOrder
    <3>2. CASE p = n /\ x \in drained
      BY <1>0, <1>1, <1>2, <2>0, <3>2 DEF FeedInOrder
    <3> QED BY <1>7, <3>1, <3>2
  <2>3. ASSUME NEW m \in Host, NEW i \in DOMAIN batches'[p][m],
               NEW x \in batches'[p][m][i], NEW j \in DOMAIN batches'[p][m],
               NEW y \in batches'[p][m][j], y.name = x.name
        PROVE  (i < j => Le(x.gen, y.gen)) /\ (i = j => x = y)
    <3>1. CASE i \in DOMAIN batches[p][m] /\ x \in batches[p][m][i]
      <4>1. CASE j \in DOMAIN batches[p][m] /\ y \in batches[p][m][j]
        BY <2>0, <2>3, <3>1, <4>1, BatchOrder
      <4>2. CASE p = n /\ j = Len(batches[p][m]) + 1 /\ y \in drained
        <5>1. i # j
          BY <1>3, <3>1, <4>2
        <5>2. /\ <<x.name, p>> \in DOMAIN pending[p]
              /\ y.gen = pending[p][<<x.name, p>>]
          BY <1>1, <2>3, <4>2
        <5>3. Le(x.gen, y.gen)
          BY <2>0, <3>1, <5>2 DEF FeedInOrder
        <5> QED BY <5>1, <5>3
      <4> QED BY <1>7, <4>1, <4>2
    <3>2. CASE p = n /\ i = Len(batches[p][m]) + 1 /\ x \in drained
      <4>1. ~(i < j)
        BY <1>3, <3>2
      <4>2. ASSUME i = j PROVE y \in drained
        BY <1>3, <3>2, <4>2
      <4> QED BY <1>1, <2>3, <3>2, <4>1, <4>2
    <3> QED BY <1>7, <3>1, <3>2
  <2>4. ASSUME NEW m \in Host, NEW i \in DOMAIN batches'[p][m],
               NEW x \in batches'[p][m][i], NEW y \in batches'[p][m][i],
               y.name = x.name
        PROVE  x = y
    BY <2>3, <2>4
  <2> QED BY <2>1, <2>2, <2>3, <2>4 DEF FeedInOrder
<1>10. ASSUME NEW m \in Host, NEW s \in DOMAIN shards'[m], NEW p \in Host
       PROVE  EntryFollows(m, s, p)'
  <2>1. ASSUME NEW g \in UnderWay(p, s, m)' PROVE g \in UnderWay(p, s, m)
    <3>1. CASE \E x \in mailbox'[p] : x.name = s /\ x.gen = g
      BY <1>0, <3>1, UnderWayIs
    <3>2. CASE <<s, p>> \in DOMAIN pending'[p] /\ pending'[p][<<s, p>>] = g
      BY <1>2, <3>2, UnderWayIs
    <3>3. CASE \E i \in DOMAIN batches'[p][m] : \E x \in batches'[p][m][i] :
                 x.name = s /\ x.source = p /\ x.gen = g
      <4>0. PICK i \in DOMAIN batches'[p][m] : \E x \in batches'[p][m][i] :
                   x.name = s /\ x.source = p /\ x.gen = g
        BY <3>3
      <4>1. PICK x \in batches'[p][m][i] : x.name = s /\ x.source = p /\ x.gen = g
        BY <4>0
      <4>2. CASE i \in DOMAIN batches[p][m] /\ x \in batches[p][m][i]
        BY <4>1, <4>2, UnderWayIs
      <4>3. CASE p = n /\ x \in drained
        <5>1. <<s, p>> \in DOMAIN pending[p] /\ pending[p][<<s, p>>] = g
          BY <1>1, <4>1, <4>3
        <5> QED BY <5>1, UnderWayIs
      <4> QED BY <1>7, <4>2, <4>3
    <3> QED BY <3>1, <3>2, <3>3, UnderWayIsNext
  <2>2. ASSUME NEW g \in UnderWay(p, s, m)
        PROVE  \E h \in UnderWay(p, s, m)' : Le(g, h)
    <3>0. Le(g, g)
      BY DEF Le
    <3>1. CASE \E x \in mailbox[p] : x.name = s /\ x.gen = g
      BY <1>0, <3>0, <3>1, UnderWayIsNext
    <3>2. CASE <<s, p>> \in DOMAIN pending[p] /\ pending[p][<<s, p>>] = g
      <4>1. CASE p = n
        <5>1. PICK x \in drained : x.name = s /\ x.source = n /\ x.gen = g
          BY <1>1, <3>2, <4>1
        <5>2. \E i \in DOMAIN batches'[p][m] : \E y \in batches'[p][m][i] :
                y.name = s /\ y.source = p /\ y.gen = g
          <6>1. /\ Len(batches[n][m]) + 1 \in DOMAIN batches'[n][m]
                /\ x \in batches'[n][m][Len(batches[n][m]) + 1]
            BY <1>3
          <6> QED BY <4>1, <5>1, <6>1
        <5> QED BY <3>0, <5>2, UnderWayIsNext
      <4>2. CASE p # n
        <5>1. <<s, p>> \in DOMAIN pending'[p] /\ pending'[p][<<s, p>>] = g
          BY <1>2, <3>2, <4>2
        <5> QED BY <3>0, <5>1, UnderWayIsNext
      <4> QED BY <4>1, <4>2
    <3>3. CASE \E i \in DOMAIN batches[p][m] : \E x \in batches[p][m][i] :
                 x.name = s /\ x.source = p /\ x.gen = g
      <4>1. \E i \in DOMAIN batches'[p][m] : \E x \in batches'[p][m][i] :
                 x.name = s /\ x.source = p /\ x.gen = g
        <5>1. CASE p = n
          <6>1. \A i \in DOMAIN batches[p][m] :
                  i \in DOMAIN batches'[p][m] /\ batches'[p][m][i] = batches[p][m][i]
            BY <1>3, <5>1
          <6> QED BY <3>3, <6>1
        <5> QED BY <1>4, <3>3, <5>1
      <4> QED BY <3>0, <4>1, UnderWayIsNext
    <3> QED BY <3>1, <3>2, <3>3, UnderWayIs
  <2> QED BY <1>0, <1>6, <2>1, <2>2, SameEntry
<1> QED BY <1>5, <1>8, <1>9, <1>10 DEF HostInv

-----------------------------------------------------------------------------
(* The steps that change what a node's shards have of their peers.         *)

\* One node's shards change, and not their generations.
LEMMA ViewsChange ==
    ASSUME HostTypes, NEW n \in Host, NEW f \in [DOMAIN shards[n] -> ShardObject],
           shards' = [shards EXCEPT ![n] = f],
           \A s \in DOMAIN shards[n] : f[s].gen = shards[n][s].gen
    PROVE  /\ shards' \in [Host -> Maps(Name, ShardObject)]
           /\ SameOwners
           /\ shards'[n] = f
           /\ \A m \in Host : m # n => shards'[m] = shards[m]
<1>1. DOMAIN shards[n] \in SUBSET Name
  BY Typed
<1>2. f \in Maps(Name, ShardObject)
  BY <1>1, MapIntro
<1>3. /\ shards'[n] = f
      /\ \A m \in Host : m # n => shards'[m] = shards[m]
      /\ shards' \in [Host -> Maps(Name, ShardObject)]
  BY <1>2 DEF HostTypes
<1>4. SameOwners
  BY <1>3 DEF SameOwners
<1> QED BY <1>3, <1>4

\* A shard with another set of views.
LEMMA WithViews ==
    ASSUME NEW shard \in ShardObject, NEW w \in [Host -> OptEntry]
    PROVE  /\ [shard EXCEPT !.views = w] \in ShardObject
           /\ [shard EXCEPT !.views = w].gen = shard.gen
           /\ [shard EXCEPT !.views = w].views = w
BY DEF ShardObject

\* Of all shards, only those of n change, and only in their entries of p.
OnlyEntries(n, p) ==
    \E f \in [DOMAIN shards[n] -> ShardObject] :
        /\ shards' = [shards EXCEPT ![n] = f]
        /\ \A s \in DOMAIN shards[n] :
              /\ f[s].gen = shards[n][s].gen
              /\ \A q \in Host : q # p => f[s].views[q] = shards[n][s].views[q]

\* A step of n's shards on their entries of p.
PeerChange(n, p) ==
    /\ OnlyEntries(n, p)
    /\ since' \in [Host -> [Name -> [Host -> OptGeneration]]]
    /\ \A m, q \in Host : \A s \in Name :
          ~(m = n /\ q = p) => since'[m][s][q] = since[m][s][q]
    /\ handled' \in 0 .. MaxEvents
    /\ UNCHANGED <<mailbox, pending, batches>>

\* It leaves the feed, and the other entries follow as before.
LEMMA PeerStep ==
    ASSUME HostInv, NEW n \in Host, NEW p \in Host, PeerChange(n, p),
           \A s \in DOMAIN shards[n] : EntryFollows(n, s, p)'
    PROVE  HostInv'
<1>0. PICK f \in [DOMAIN shards[n] -> ShardObject] :
          /\ shards' = [shards EXCEPT ![n] = f]
          /\ \A s \in DOMAIN shards[n] :
                /\ f[s].gen = shards[n][s].gen
                /\ \A q \in Host : q # p => f[s].views[q] = shards[n][s].views[q]
  BY DEF PeerChange, OnlyEntries
<1>1. HostTypes /\ UNCHANGED <<mailbox, pending, batches>>
  BY DEF HostInv, PeerChange
<1>2. /\ shards' \in [Host -> Maps(Name, ShardObject)]
      /\ SameOwners
      /\ shards'[n] = f
      /\ \A m \in Host : m # n => shards'[m] = shards[m]
  BY <1>0, <1>1, ViewsChange
<1>3. HostTypes'
  BY <1>1, <1>2 DEF HostTypes, PeerChange
<1>4. \A q \in Host : FeedIsOwn(q)' /\ FeedInOrder(q)'
  BY <1>1, <1>2, SameFeed
<1>5. ASSUME NEW m \in Host, NEW s \in DOMAIN shards'[m], NEW q \in Host
      PROVE  EntryFollows(m, s, q)'
  <2>1. s \in DOMAIN shards[m] /\ s \in Name
    BY <1>1, <1>2, Typed DEF SameOwners
  <2>2. CASE m = n /\ q = p
    BY <2>1, <2>2
  <2>3. CASE ~(m = n /\ q = p)
    <3>1. shards'[m][s].views[q] = shards[m][s].views[q]
      BY <1>0, <1>2, <2>1, <2>3
    <3>2. since'[m][s][q] = since[m][s][q]
      BY <2>1, <2>3 DEF PeerChange
    <3>3. UnderWay(q, s, m)' = UnderWay(q, s, m)
      BY <1>1 DEF UnderWay
    <3>4. \A g : Le(g, g)
      BY DEF Le
    <3> QED BY <1>2, <2>1, <3>1, <3>2, <3>3, <3>4, SameEntry
  <2> QED BY <2>2, <2>3
<1> QED BY <1>3, <1>4, <1>5 DEF HostInv

\* Every shard of n puts e[s] in the place of its entry of p.
PutEntries(n, p, e) ==
    /\ e \in [DOMAIN shards[n] -> OptEntry]
    /\ shards' = [shards EXCEPT ![n] =
                     [s \in DOMAIN shards[n] |->
                         [shards[n][s] EXCEPT
                             !.views = [shards[n][s].views EXCEPT ![p] = e[s]]]]]

\* A step that gives the shards of n new entries of p and does nothing else.
LEMMA PeerEntries ==
    ASSUME HostTypes, NEW n \in Host, NEW p \in Host, NEW e, PutEntries(n, p, e)
    PROVE  /\ OnlyEntries(n, p)
           /\ \A s \in DOMAIN shards[n] : shards'[n][s].views[p] = e[s]
           /\ SameOwners
<1> DEFINE w(s) == [shards[n][s].views EXCEPT ![p] = e[s]]
           f == [s \in DOMAIN shards[n] |-> [shards[n][s] EXCEPT !.views = w(s)]]
<1>1. ASSUME NEW s \in DOMAIN shards[n]
      PROVE  /\ f[s] \in ShardObject /\ f[s].gen = shards[n][s].gen
             /\ f[s].views[p] = e[s]
             /\ \A q \in Host : q # p => f[s].views[q] = shards[n][s].views[q]
  <2>1. /\ shards[n][s] \in ShardObject /\ shards[n][s].views \in [Host -> OptEntry]
        /\ e[s] \in OptEntry
    BY Typed DEF PutEntries
  <2>2. /\ w(s) \in [Host -> OptEntry] /\ w(s)[p] = e[s]
        /\ \A q \in Host : q # p => w(s)[q] = shards[n][s].views[q]
    BY <2>1
  <2>3. f[s] = [shards[n][s] EXCEPT !.views = w(s)]
    OBVIOUS
  <2> HIDE DEF w, f
  <2> QED BY <2>1, <2>2, <2>3, WithViews
<1>2. f \in [DOMAIN shards[n] -> ShardObject]
  BY <1>1
<1>3. shards' = [shards EXCEPT ![n] = f]
  BY DEF PutEntries
<1> HIDE DEF f
<1>4. SameOwners /\ shards'[n] = f
  <2>1. \A s \in DOMAIN shards[n] : f[s].gen = shards[n][s].gen
    BY <1>1
  <2> QED BY ONLY HostTypes, n \in Host, <1>2, <1>3, <2>1, ViewsChange
<1>5. \E g \in [DOMAIN shards[n] -> ShardObject] :
        /\ shards' = [shards EXCEPT ![n] = g]
        /\ \A s \in DOMAIN shards[n] :
              /\ g[s].gen = shards[n][s].gen
              /\ \A q \in Host : q # p => g[s].views[q] = shards[n][s].views[q]
  <2> WITNESS f \in [DOMAIN shards[n] -> ShardObject]
  <2> QED BY <1>1, <1>3
<1> QED BY <1>1, <1>4, <1>5 DEF OnlyEntries

\* broadcast_node_left: a shard without an entry is owed nothing.
LEMMA LeftStep ==
    ASSUME HostInv, NEW n \in Host, NEW p \in Host, BroadcastNodeLeft(n, p)
    PROVE  HostInv'
<1> DEFINE e == [s \in DOMAIN shards[n] |-> NoView]
<1>0. /\ HostTypes
      /\ since' = [since EXCEPT ![n] =
                      [s \in Name |-> [since[n][s] EXCEPT ![p] = NoGen]]]
      /\ handled < MaxEvents /\ handled' = handled + 1
      /\ UNCHANGED <<mailbox, pending, batches>>
  BY DEF HostInv, BroadcastNodeLeft, Event
<1>1. PutEntries(n, p, e)
  BY DEF BroadcastNodeLeft, ForAllShards, PutEntries, OptEntry
<1>2. \A s \in DOMAIN shards[n] : e[s] = NoView
  OBVIOUS
<1> HIDE DEF e
<1>3. handled' \in 0 .. MaxEvents
  BY <1>0, HostAssumption DEF HostTypes
<1>4. /\ since' \in [Host -> [Name -> [Host -> OptGeneration]]]
      /\ \A m, q \in Host : \A s \in Name :
            ~(m = n /\ q = p) => since'[m][s][q] = since[m][s][q]
  <2>1. since \in [Host -> [Name -> [Host -> OptGeneration]]]
    BY <1>0 DEF HostTypes
  <2>2. [s \in Name |-> [since[n][s] EXCEPT ![p] = NoGen]]
            \in [Name -> [Host -> OptGeneration]]
    BY <2>1 DEF OptGeneration
  <2>3. /\ since'[n] = [s \in Name |-> [since[n][s] EXCEPT ![p] = NoGen]]
        /\ \A m \in Host : m # n => since'[m] = since[m]
        /\ since' \in [Host -> [Name -> [Host -> OptGeneration]]]
    BY <1>0, <2>1, <2>2
  <2>4. \A s \in Name, q \in Host : q # p => since'[n][s][q] = since[n][s][q]
    BY <2>1, <2>3
  <2> QED BY <2>3, <2>4
<1>5. PeerChange(n, p) /\ \A s \in DOMAIN shards[n] : shards'[n][s].views[p] = NoView
  <2>1. OnlyEntries(n, p) /\ \A s \in DOMAIN shards[n] : shards'[n][s].views[p] = e[s]
    BY <1>0, <1>1, PeerEntries
  <2> QED BY <1>0, <1>2, <1>3, <1>4, <2>1 DEF PeerChange
<1>6. \A s \in DOMAIN shards[n] : EntryFollows(n, s, p)'
  BY <1>5 DEF EntryFollows
<1> QED BY <1>5, <1>6, PeerStep

\* What p's state s is at most is of its first lifetime, and so is what is
\* under way of it: a placeholder is below both.
LEMMA PlaceholderBelow ==
    ASSUME HostInv, NEW n \in Host, NEW p \in Host, NEW s
    PROVE  /\ Ceiling(p, s) \in Generation
           /\ Le(Zero, Ceiling(p, s)) /\ Le(FirstGeneration, Ceiling(p, s))
           /\ \A g \in UnderWay(p, s, n) : Le(FirstGeneration, g)
<1>1. HostTypes /\ FeedIsOwn(p)
  BY DEF HostInv
<1>2. Ceiling(p, s) \in Generation /\ Ceiling(p, s).inc = 1
  BY <1>1, Typed, FirstIsFirst DEF Ceiling, FeedIsOwn
<1>3. Le(FirstGeneration, Ceiling(p, s))
  BY <1>2, FirstIsFirst
<1>4. Le(Zero, Ceiling(p, s))
  BY <1>2, <1>3, FirstIsFirst, LeTransitive
<1>5. ASSUME NEW g \in UnderWay(p, s, n) PROVE Le(FirstGeneration, g)
  <2>1. g \in Generation /\ g.inc = 1
    BY UnderWayType DEF Reached
  <2> QED BY <2>1, FirstIsFirst
<1> QED BY <1>2, <1>3, <1>4, <1>5

\* broadcast_node_joined: a placeholder's mark is below everything under way,
\* and the owner's generation is what the shard is owed changes from.
LEMMA JoinedStep ==
    ASSUME HostInv, NEW n \in Host, NEW p \in Host, BroadcastNodeJoined(n, p)
    PROVE  HostInv'
<1> DEFINE e == [s \in DOMAIN shards[n] |->
                    InsertPlaceholder(shards[n][s].views[p], DefaultView)]
           fresh(s) == s \in DOMAIN shards[n] /\ shards[n][s].views[p] = NoView
           row == [s \in Name |-> IF fresh(s)
                                  THEN [since[n][s] EXCEPT ![p] = GenerationOf(p, s)]
                                  ELSE since[n][s]]
<1>0. /\ HostTypes
      /\ since' = [since EXCEPT ![n] = row]
      /\ handled < MaxEvents /\ handled' = handled + 1
      /\ UNCHANGED <<mailbox, pending, batches>>
  BY DEF HostInv, BroadcastNodeJoined, Event
<1>1. PutEntries(n, p, e)
  <2>1. \A s \in DOMAIN shards[n] :
          InsertPlaceholder(shards[n][s].views[p], DefaultView) \in OptEntry
    BY <1>0, Typed, EntryTypes, FirstIsFirst
  <2>2. shards' = [shards EXCEPT ![n] =
                      [s \in DOMAIN shards[n] |->
                          [shards[n][s] EXCEPT
                              !.views = [shards[n][s].views EXCEPT ![p] = e[s]]]]]
    BY DEF BroadcastNodeJoined, ForAllShards
  <2> QED BY <2>1, <2>2 DEF PutEntries
<1>2. \A s \in DOMAIN shards[n] :
        e[s] = InsertPlaceholder(shards[n][s].views[p], DefaultView)
  OBVIOUS
<1> HIDE DEF e
<1>3. handled' \in 0 .. MaxEvents
  BY <1>0, HostAssumption DEF HostTypes
<1>4. /\ since' \in [Host -> [Name -> [Host -> OptGeneration]]]
      /\ \A m, q \in Host : \A s \in Name :
            ~(m = n /\ q = p) => since'[m][s][q] = since[m][s][q]
      /\ \A s \in Name : since'[n][s][p] = IF fresh(s) THEN GenerationOf(p, s)
                                           ELSE since[n][s][p]
  <2>1. since \in [Host -> [Name -> [Host -> OptGeneration]]]
    BY <1>0 DEF HostTypes
  <2>2. \A s \in Name : GenerationOf(p, s) \in OptGeneration
    BY <1>0, Typed DEF GenerationOf, OptGeneration
  <2>3. ASSUME NEW s \in Name
        PROVE  /\ row[s] \in [Host -> OptGeneration]
               /\ row[s][p] = IF fresh(s) THEN GenerationOf(p, s) ELSE since[n][s][p]
               /\ \A q \in Host : q # p => row[s][q] = since[n][s][q]
    <3> DEFINE old == since[n][s]
    <3>0. old \in [Host -> OptGeneration]
      BY <2>1
    <3>1. row[s] = IF fresh(s) THEN [old EXCEPT ![p] = GenerationOf(p, s)] ELSE old
      OBVIOUS
    <3> HIDE DEF old, fresh, row
    <3>2. CASE fresh(s)
      BY <2>2, <3>0, <3>1, <3>2 DEF old
    <3>3. CASE ~fresh(s)
      BY <3>0, <3>1, <3>3 DEF old
    <3> QED BY <3>2, <3>3
  <2>4. row \in [Name -> [Host -> OptGeneration]]
    BY <2>3
  <2> HIDE DEF row, fresh
  <2>5. /\ since'[n] = row
        /\ \A m \in Host : m # n => since'[m] = since[m]
        /\ since' \in [Host -> [Name -> [Host -> OptGeneration]]]
    BY <1>0, <2>1, <2>4
  <2> QED BY <2>3, <2>5
<1>5. OnlyEntries(n, p) /\ SameOwners
  BY <1>0, <1>1, PeerEntries
<1>6. \A s \in DOMAIN shards[n] : shards'[n][s].views[p] = e[s]
  BY <1>0, <1>1, PeerEntries
<1>7. ASSUME NEW s \in DOMAIN shards[n] PROVE EntryFollows(n, s, p)'
  <2>0. s \in Name /\ n # p
    BY <1>0, Typed DEF BroadcastNodeJoined
  <2>a. UnderWay(p, s, n)' = UnderWay(p, s, n)
    BY <1>0 DEF UnderWay
  <2>1. CASE shards[n][s].views[p] # NoView
    <3>1. /\ shards'[n][s].views[p] = shards[n][s].views[p]
          /\ since'[n][s][p] = since[n][s][p]
      BY <1>2, <1>4, <1>6, <2>0, <2>1 DEF InsertPlaceholder
    <3>2. \A g : Le(g, g)
      BY DEF Le
    <3> QED BY <1>5, <2>a, <3>1, <3>2, SameEntry
  <2>2. CASE shards[n][s].views[p] = NoView
    <3>1. /\ shards'[n][s].views[p] = Placeholder(DefaultView)
          /\ since'[n][s][p] = GenerationOf(p, s)
      BY <1>2, <1>4, <1>6, <2>0, <2>2 DEF InsertPlaceholder
    <3>2. /\ Placeholder(DefaultView).gen = Zero
          /\ Placeholder(DefaultView).pending = FirstGeneration
      BY DEF Placeholder, PlaceholderPending, FirstGeneration
    <3>3. /\ Le(Zero, Ceiling(p, s)') /\ Le(FirstGeneration, Ceiling(p, s)')
          /\ \A g \in UnderWay(p, s, n)' : Le(FirstGeneration, g)
      BY <1>5, <2>a, PlaceholderBelow, SameReached
    <3>4. since'[n][s][p] # NoGen =>
            s \in DOMAIN shards'[p] /\ ~Lt(since'[n][s][p], shards'[p][s].gen)
      <4>1. ASSUME since'[n][s][p] # NoGen
            PROVE  /\ s \in DOMAIN shards[p]
                   /\ since'[n][s][p] = shards[p][s].gen
        BY <3>1, <4>1 DEF GenerationOf
      <4>2. s \in DOMAIN shards[p] => ~Lt(shards[p][s].gen, shards[p][s].gen)
        BY <1>0, Typed, LtIrreflexive
      <4>3. /\ DOMAIN shards'[p] = DOMAIN shards[p]
            /\ s \in DOMAIN shards[p] => shards'[p][s].gen = shards[p][s].gen
        BY <1>5 DEF SameOwners
      <4> QED BY <4>1, <4>2, <4>3
    <3> QED BY <3>1, <3>2, <3>3, <3>4 DEF EntryFollows
  <2> QED BY <2>1, <2>2
<1>8. PeerChange(n, p)
  BY <1>0, <1>3, <1>4, <1>5 DEF PeerChange
<1> QED BY <1>7, <1>8, PeerStep

\* A snapshot of a generation the owner has or had: what the entry promised, or
\* the mark on it, the entry now has.
LEMMA SnapshotEntry ==
    ASSUME NEW e \in Entry, NEW gen \in Generation, NEW latest \in Generation,
           Le(gen, latest),
           Le(e.gen, latest), e.pending # NoGen => Le(e.pending, latest)
    PROVE  LET new == AcceptSnapshot(e, gen, DefaultView) IN
           /\ new # NoView /\ new \in Entry
           /\ Le(new.gen, latest)
           /\ new.pending # NoGen => new.pending = e.pending
           /\ Le(latest, e.gen) => Le(latest, new.gen)
           /\ e.pending # NoGen /\ Le(latest, e.pending) =>
                 \/ Le(latest, new.gen)
                 \/ new.pending # NoGen /\ Le(latest, new.pending)
<1> DEFINE new == AcceptSnapshot(e, gen, DefaultView)
<1>0. e # NoView /\ e.gen \in Generation /\ e.pending \in OptGeneration /\ e \in OptEntry
  BY NoViewAssumption DEF Entry, OptEntry
<1>1. CASE ~Lt(e.gen, gen)
  <2>1. new = e
    BY <1>0, <1>1 DEF AcceptSnapshot, SnapshotAccepted, ShouldAccept
  <2> QED BY <1>0, <2>1
<1>2. CASE Lt(e.gen, gen)
  <2>1. new = [gen |-> gen, value |-> DefaultView, pending |-> KeptPending(e, gen)]
    BY <1>0, <1>2 DEF AcceptSnapshot, SnapshotAccepted, ShouldAccept, Updated
  <2>2. /\ new.gen = gen /\ new.pending = KeptPending(e, gen)
        /\ KeptPending(e, gen) \in OptGeneration
    BY <1>0, <2>1 DEF KeptPending, OptGeneration
  <2>3. new \in Entry /\ new # NoView
    BY <2>1, <2>2, HostAssumption, NoViewAssumption DEF Entry
  <2>4. new.pending # NoGen => new.pending = e.pending
    BY <2>2 DEF KeptPending
  <2>5. Le(latest, e.gen) => Le(latest, gen)
    BY <1>0, <1>2, LeTransitive DEF Le
  <2>6. ASSUME e.pending # NoGen, Le(latest, e.pending)
        PROVE  \/ Le(latest, gen)
               \/ new.pending # NoGen /\ Le(latest, new.pending)
    <3>1. CASE Lt(gen, e.pending)
      BY <1>0, <2>2, <2>6, <3>1 DEF KeptPending
    <3>2. CASE ~Lt(gen, e.pending)
      <4>1. e.pending \in Generation
        BY <1>0, <2>6 DEF OptGeneration
      <4>2. Le(e.pending, gen)
        BY <3>2, <4>1, LtTotal
      <4> QED BY <2>6, <4>1, <4>2, LeTransitive
    <3> QED BY <3>1, <3>2
  <2> HIDE DEF new
  <2>7. /\ new # NoView /\ new \in Entry
        /\ Le(new.gen, latest)
        /\ new.pending # NoGen => new.pending = e.pending
        /\ Le(latest, e.gen) => Le(latest, new.gen)
        /\ e.pending # NoGen /\ Le(latest, e.pending) =>
              \/ Le(latest, new.gen)
              \/ new.pending # NoGen /\ Le(latest, new.pending)
    BY <2>2, <2>3, <2>4, <2>5, <2>6
  <2> QED BY <2>7 DEF new
<1> QED BY <1>1, <1>2

\* A snapshot keeps the mark, or has reached it.
LEMMA SnapshotStep ==
    ASSUME HostInv, NEW n \in Host, NEW s \in Name, NEW p \in Host,
           NEW gen \in Generation, InboundSnapshot(n, s, p, gen)
    PROVE  HostInv'
<1> DEFINE old == shards[n][s].views[p]
           new == AcceptSnapshot(old, gen, DefaultView)
           latest == shards[p][s].gen
           e == [z \in DOMAIN shards[n] |-> IF z = s THEN new ELSE shards[n][z].views[p]]
<1>0. /\ HostTypes /\ n # p
      /\ s \in DOMAIN shards[n] /\ s \in DOMAIN shards[p] /\ Le(gen, latest)
      /\ shards' = [shards EXCEPT ![n][s].views[p] = new]
      /\ since' = IF old = NoView THEN [since EXCEPT ![n][s][p] = latest] ELSE since
      /\ UNCHANGED <<mailbox, pending, batches, handled>>
  BY DEF HostInv, InboundSnapshot
<1>1. /\ shards[n] \in [DOMAIN shards[n] -> ShardObject]
      /\ \A z \in DOMAIN shards[n] :
            shards[n][z] \in ShardObject /\ shards[n][z].views \in [Host -> OptEntry]
      /\ latest \in Generation /\ old \in OptEntry
  BY <1>0, Typed
<1>2. new \in OptEntry
  BY <1>1, EntryTypes
<1>3. \A z \in DOMAIN shards[n] :
        e[z] = IF z = s THEN new ELSE shards[n][z].views[p]
  OBVIOUS
<1>4. e \in [DOMAIN shards[n] -> OptEntry]
  <2> HIDE DEF new
  <2> QED BY <1>1, <1>2
<1> HIDE DEF e
<1>5. PutEntries(n, p, e)
  <2> DEFINE v(z) == [shards[n][z].views EXCEPT ![p] = e[z]]
             f == [z \in DOMAIN shards[n] |-> [shards[n][z] EXCEPT !.views = v(z)]]
             g == [shards[n] EXCEPT ![s].views[p] = new]
  <2>1. shards' = [shards EXCEPT ![n] = g]
    BY <1>0 DEF HostTypes
  <2>2. ASSUME NEW z \in DOMAIN shards[n] PROVE f[z] = g[z]
    <3>1. f[z] = [shards[n][z] EXCEPT !.views = v(z)]
      OBVIOUS
    <3>2. CASE z = s
      <4>1. e[z] = new
        BY <1>3, <3>2
      <4>2. g[z] = [shards[n][z] EXCEPT !.views[p] = new]
        BY <1>0, <1>1, <3>2
      <4> HIDE DEF new, f, g
      <4> QED BY <3>1, <4>1, <4>2
    <3>3. CASE z # s
      <4>1. g[z] = shards[n][z]
        BY <1>0, <1>1, <3>3
      <4>2. v(z) = shards[n][z].views
        BY <1>1, <1>3, <3>3
      <4> HIDE DEF f, g, v
      <4>3. [shards[n][z] EXCEPT !.views = shards[n][z].views] = shards[n][z]
        BY <1>1 DEF ShardObject
      <4> QED BY <3>1, <4>1, <4>2, <4>3
    <3> QED BY <3>2, <3>3
  <2>3. DOMAIN g = DOMAIN shards[n]
    OBVIOUS
  <2>4. f = [z \in DOMAIN shards[n] |-> f[z]] /\ g = [z \in DOMAIN shards[n] |-> g[z]]
    BY <1>1
  <2>5. f = g
    <3> HIDE DEF f, g
    <3> QED BY <2>2, <2>4
  <2>6. shards' = [shards EXCEPT ![n] = f]
    <3> HIDE DEF f, g
    <3> QED BY <2>1, <2>5
  <2> QED BY <1>4, <2>6 DEF PutEntries
<1>6. OnlyEntries(n, p) /\ SameOwners
  BY <1>0, <1>5, PeerEntries
<1>7. \A z \in DOMAIN shards[n] : shards'[n][z].views[p] = e[z]
  BY <1>0, <1>5, PeerEntries
<1>8. /\ since' \in [Host -> [Name -> [Host -> OptGeneration]]]
      /\ \A m, q \in Host : \A z \in Name :
            ~(m = n /\ z = s /\ q = p) => since'[m][z][q] = since[m][z][q]
      /\ since'[n][s][p] = IF old = NoView THEN latest ELSE since[n][s][p]
  <2> HIDE DEF old, latest
  <2>1. since \in [Host -> [Name -> [Host -> OptGeneration]]]
    BY <1>0 DEF HostTypes
  <2>2. CASE old = NoView
    <3>1. since' = [since EXCEPT ![n][s][p] = latest] /\ latest \in OptGeneration
      BY <1>0, <1>1, <2>2 DEF OptGeneration
    <3>2. /\ since' \in [Host -> [Name -> [Host -> OptGeneration]]]
          /\ since'[n][s][p] = latest
      BY <2>1, <3>1
    <3>3. ASSUME NEW m \in Host, NEW q \in Host, NEW z \in Name,
                 ~(m = n /\ z = s /\ q = p)
          PROVE  since'[m][z][q] = since[m][z][q]
      BY <2>1, <3>1, <3>3
    <3> QED BY <2>2, <3>2, <3>3
  <2>3. CASE old # NoView
    BY <1>0, <2>1, <2>3
  <2> QED BY <2>2, <2>3
<1>9. ASSUME NEW z \in DOMAIN shards[n] PROVE EntryFollows(n, z, p)'
  <2>0. z \in Name /\ s \in Name
    BY <1>0, Typed
  <2>a. UnderWay(p, z, n)' = UnderWay(p, z, n)
    BY <1>0 DEF UnderWay
  <2>b. /\ DOMAIN shards'[p] = DOMAIN shards[p] /\ shards'[p][s].gen = latest
        /\ Ceiling(p, s)' = latest /\ Ceiling(p, s) = latest
    BY <1>0, <1>6 DEF SameOwners, Ceiling
  <2>1. CASE z # s
    <3>1. /\ shards'[n][z].views[p] = shards[n][z].views[p]
          /\ since'[n][z][p] = since[n][z][p]
      BY <1>3, <1>7, <1>8, <2>0, <2>1
    <3>2. \A g : Le(g, g)
      BY DEF Le
    <3> QED BY <1>6, <2>a, <3>1, <3>2, SameEntry
  <2>2. CASE z = s /\ old = NoView
    <3>1. shards'[n][z].views[p] = new
      BY <1>3, <1>7, <2>2
    <3>2. new.gen = gen /\ new.pending = NoGen
      BY <2>2 DEF AcceptSnapshot, SnapshotAccepted, Updated, KeptPending
    <3>3. since'[n][z][p] = latest /\ ~Lt(latest, latest)
      BY <1>1, <1>8, <2>2, LtIrreflexive
    <3> HIDE DEF new, latest
    <3> QED BY <1>0, <2>2, <2>b, <3>1, <3>2, <3>3 DEF EntryFollows
  <2>3. CASE z = s /\ old # NoView
    <3>1. shards'[n][z].views[p] = new
      BY <1>3, <1>7, <2>3
    <3>2. old \in Entry
      BY <1>1, <2>3 DEF OptEntry
    <3>3. /\ Le(old.gen, latest)
          /\ old.pending # NoGen => Le(old.pending, latest)
          /\ old.pending # NoGen => \A g \in UnderWay(p, s, n) : Le(old.pending, g)
          /\ since[n][s][p] # NoGen /\ Lt(since[n][s][p], latest) =>
                \/ Le(latest, old.gen)
                \/ old.pending # NoGen /\ Le(latest, old.pending)
                \/ \E g \in UnderWay(p, s, n) : Le(latest, g)
      <4>1. EntryFollows(n, s, p)
        BY <1>0 DEF HostInv
      <4> QED BY <1>0, <2>3, <2>b, <4>1 DEF EntryFollows
    <3>4. /\ Le(new.gen, latest)
          /\ new.pending # NoGen => new.pending = old.pending
          /\ Le(latest, old.gen) => Le(latest, new.gen)
          /\ old.pending # NoGen /\ Le(latest, old.pending) =>
                \/ Le(latest, new.gen)
                \/ new.pending # NoGen /\ Le(latest, new.pending)
      <4> HIDE DEF old, latest
      <4> QED BY <1>0, <1>1, <3>2, <3>3, SnapshotEntry
    <3>5. since'[n][z][p] = since[n][s][p]
      BY <1>8, <2>3
    <3> HIDE DEF new, latest, old
    <3> QED BY <1>0, <2>3, <2>a, <2>b, <3>1, <3>3, <3>4, <3>5 DEF EntryFollows
  <2> QED BY <2>1, <2>2, <2>3
<1>10. PeerChange(n, p)
  <2>1. handled' \in 0 .. MaxEvents
    BY <1>0 DEF HostTypes
  <2> QED BY <1>0, <1>6, <1>8, <2>1 DEF PeerChange
<1> QED BY <1>9, <1>10, PeerStep

-----------------------------------------------------------------------------
(* A batch reaches a node.                                                 *)

\* The batch read: its announcements are the sender's own, at most one of each
\* state, and none is newer than what is still on its way.
LEMMA HeadFacts ==
    ASSUME HostInv, NEW q \in Host, NEW m \in Host, batches[q][m] # <<>>
    PROVE  LET head == Head(batches[q][m]) IN
           /\ 1 \in DOMAIN batches[q][m] /\ head = batches[q][m][1]
           /\ \A x \in head : /\ x.source = q /\ x.gen \in Generation
                              /\ Reached(q, x.name, x.gen)
           /\ \A x, y \in head : y.name = x.name => x = y
<1>1. HostTypes /\ FeedIsOwn(q) /\ FeedInOrder(q)
  BY DEF HostInv
<1>2. batches[q][m] \in Seq(SUBSET Notification)
  BY <1>1, Typed
<1>3. 1 \in DOMAIN batches[q][m] /\ Head(batches[q][m]) = batches[q][m][1]
  BY <1>2
<1>4. \A x \in batches[q][m][1] : /\ x.source = q /\ x.gen \in Generation
                                  /\ Reached(q, x.name, x.gen)
  BY <1>1, <1>3, Typed DEF FeedIsOwn
<1>5. \A x, y \in batches[q][m][1] : y.name = x.name => x = y
  BY <1>1, <1>3 DEF FeedInOrder
<1> QED BY <1>3, <1>4, <1>5

\* The batches after one was read: what is there was there, and what was
\* there, the first from q to m apart, still is.
TailRead(q, m) ==
    \A p, n \in Host : \A i \in DOMAIN batches'[p][n] :
        LET k == IF p = q /\ n = m THEN i + 1 ELSE i IN
        k \in DOMAIN batches[p][n] /\ batches'[p][n][i] = batches[p][n][k]

TailKept(q, m) ==
    /\ \A i \in DOMAIN batches[q][m] : i # 1 =>
          i - 1 \in DOMAIN batches'[q][m] /\ batches'[q][m][i - 1] = batches[q][m][i]
    /\ \A p, n \in Host : ~(p = q /\ n = m) => batches'[p][n] = batches[p][n]
    /\ \A i \in DOMAIN batches'[q][m] : 1 < i + 1

\* Reading the first of the batches from q to m moves the others up.
LEMMA TailFacts ==
    ASSUME HostTypes, NEW q \in Host, NEW m \in Host, batches[q][m] # <<>>,
           batches' = [batches EXCEPT ![q][m] = Tail(batches[q][m])]
    PROVE  /\ batches' \in [Host -> [Host -> Seq(SUBSET Notification)]]
           /\ TailRead(q, m) /\ TailKept(q, m)
           /\ \A p, n \in Host : DOMAIN batches'[p][n] \subseteq Nat
<1> DEFINE old == batches[q][m]
<1>1. /\ \A p, n \in Host : batches[p][n] \in Seq(SUBSET Notification)
      /\ batches \in [Host -> [Host -> Seq(SUBSET Notification)]]
  BY DEF HostTypes
<1>2. /\ old \in Seq(SUBSET Notification)
      /\ Len(old) \in Nat /\ Len(old) > 0
  <2>1. old \in Seq(SUBSET Notification) /\ old # <<>>
    BY <1>1
  <2> HIDE DEF old
  <2> QED BY <2>1
<1>3. /\ Tail(old) \in Seq(SUBSET Notification)
      /\ DOMAIN old = 1 .. Len(old) /\ DOMAIN Tail(old) = 1 .. Len(old) - 1
      /\ \A i \in 1 .. Len(old) - 1 : Tail(old)[i] = old[i + 1]
  <2>1. old # <<>>
    OBVIOUS
  <2> HIDE DEF old
  <2> QED BY <1>2, <2>1
<1>4. /\ batches'[q][m] = Tail(old)
      /\ batches' \in [Host -> [Host -> Seq(SUBSET Notification)]]
  <2> HIDE DEF old
  <2> QED BY <1>1, <1>3 DEF old
<1>5. \A p, n \in Host : ~(p = q /\ n = m) => batches'[p][n] = batches[p][n]
  BY <1>1
<1>6. ASSUME NEW p \in Host, NEW n \in Host
      PROVE  DOMAIN batches[p][n] \subseteq Nat /\ DOMAIN batches'[p][n] \subseteq Nat
  <2>1. /\ batches[p][n] \in Seq(SUBSET Notification)
        /\ batches'[p][n] \in Seq(SUBSET Notification)
    BY <1>1, <1>4
  <2>2. \A f \in Seq(SUBSET Notification) : DOMAIN f = 1 .. Len(f) /\ Len(f) \in Nat
    OBVIOUS
  <2> QED BY <2>1, <2>2
<1>7. ASSUME NEW p \in Host, NEW n \in Host, NEW i \in DOMAIN batches'[p][n],
             NEW k, k = IF p = q /\ n = m THEN i + 1 ELSE i
      PROVE  k \in DOMAIN batches[p][n] /\ batches'[p][n][i] = batches[p][n][k]
  <2>1. CASE p = q /\ n = m
    <3>1. i \in 1 .. Len(old) - 1 /\ k = i + 1 /\ batches'[p][n] = Tail(old)
      BY <1>3, <1>4, <1>7, <2>1
    <3>2. k \in 1 .. Len(old) /\ Tail(old)[i] = old[k]
      BY <1>2, <1>3, <3>1
    <3> HIDE DEF old
    <3> QED BY <1>3, <2>1, <3>1, <3>2 DEF old
  <2>2. CASE ~(p = q /\ n = m)
    BY <1>5, <1>7, <2>2
  <2> QED BY <2>1, <2>2
<1>8. TailRead(q, m)
  BY <1>7 DEF TailRead
<1>9. ASSUME NEW i \in DOMAIN batches[q][m], i # 1
      PROVE  /\ i - 1 \in DOMAIN batches'[q][m]
             /\ batches'[q][m][i - 1] = batches[q][m][i]
  <2>1. i \in 1 .. Len(old) /\ i - 1 \in 1 .. Len(old) - 1 /\ (i - 1) + 1 = i
    BY <1>2, <1>3, <1>9
  <2> HIDE DEF old
  <2> QED BY <1>3, <1>4, <2>1 DEF old
<1>10. \A i \in DOMAIN batches'[q][m] : 1 < i + 1
  BY <1>2, <1>3, <1>4
<1> QED BY <1>4, <1>5, <1>6, <1>8, <1>9, <1>10 DEF TailKept

\* The feed stays in order.
LEMMA ReadFeed ==
    ASSUME HostInv, SameOwners, NEW q \in Host, NEW m \in Host, TailRead(q, m),
           \A p, n \in Host : DOMAIN batches'[p][n] \subseteq Nat,
           UNCHANGED <<mailbox, pending>>
    PROVE  \A p \in Host : FeedIsOwn(p)' /\ FeedInOrder(p)'
<1> SUFFICES ASSUME NEW p \in Host PROVE FeedIsOwn(p)' /\ FeedInOrder(p)'
  OBVIOUS
<1>0. FeedIsOwn(p) /\ FeedInOrder(p)
  BY DEF HostInv
<1> DEFINE k(n, i) == IF p = q /\ n = m THEN i + 1 ELSE i
<1>1. \A n \in Host : \A i \in DOMAIN batches'[p][n] :
        /\ i \in Nat /\ k(n, i) \in DOMAIN batches[p][n]
        /\ batches'[p][n][i] = batches[p][n][k(n, i)]
  BY DEF TailRead
<1>2. \A n : \A i, j \in Nat : i < j => k(n, i) < k(n, j)
  OBVIOUS
<1> HIDE DEF k
<1>3. FeedIsOwn(p)'
  <2>1. \A n \in Host : \A i \in DOMAIN batches'[p][n] : \A x \in batches'[p][n][i] :
          x.source = p /\ Reached(p, x.name, x.gen)
    BY <1>0, <1>1 DEF FeedIsOwn
  <2>2. \A s, g : Reached(p, s, g)' <=> Reached(p, s, g)
    BY SameReached
  <2>3. \A s \in DOMAIN shards'[p] : shards'[p][s].gen.inc = 1
    BY <1>0 DEF FeedIsOwn, SameOwners
  <2> QED BY <1>0, <2>1, <2>2, <2>3 DEF FeedIsOwn
<1>4. FeedInOrder(p)'
  <2>1. ASSUME NEW n \in Host, NEW i \in DOMAIN batches'[p][n],
               NEW x \in batches'[p][n][i]
        PROVE  /\ \A y \in mailbox[p] : y.name = x.name => Le(x.gen, y.gen)
               /\ <<x.name, p>> \in DOMAIN pending[p] =>
                     Le(x.gen, pending[p][<<x.name, p>>])
               /\ \A y \in batches'[p][n][i] : y.name = x.name => x = y
    BY <1>0, <1>1 DEF FeedInOrder
  <2>2. ASSUME NEW n \in Host, NEW i \in DOMAIN batches'[p][n],
               NEW x \in batches'[p][n][i], NEW j \in DOMAIN batches'[p][n],
               NEW y \in batches'[p][n][j], y.name = x.name, i < j
        PROVE  Le(x.gen, y.gen)
    <3>1. /\ k(n, i) \in DOMAIN batches[p][n] /\ x \in batches[p][n][k(n, i)]
          /\ k(n, j) \in DOMAIN batches[p][n] /\ y \in batches[p][n][k(n, j)]
          /\ k(n, i) < k(n, j)
      BY <1>1, <1>2, <2>2
    <3> QED BY <1>0, <2>2, <3>1, BatchOrder
  <2>3. \A x \in mailbox[p] : <<x.name, p>> \in DOMAIN pending[p] =>
          Le(pending[p][<<x.name, p>>], x.gen)
    BY <1>0 DEF FeedInOrder
  <2> QED BY <2>1, <2>2, <2>3 DEF FeedInOrder
<1> QED BY <1>3, <1>4

\* mark_stale with an announcement x that nothing on its way is older than:
\* the entry follows, with the mark in the place of the announcement.
LEMMA MarkedEntry ==
    ASSUME NEW e \in Entry, NEW g \in Generation, NEW latest \in Generation,
           Le(g, latest), Le(e.gen, latest),
           e.pending # NoGen => Le(e.pending, latest) /\ Le(e.pending, g)
    PROVE  LET new == MarkStale(e, g) IN
           /\ new # NoView /\ new.gen = e.gen /\ new.pending \in OptGeneration
           /\ Le(new.gen, latest)
           /\ new.pending # NoGen => Le(new.pending, latest) /\ Le(new.pending, g)
           /\ e.pending # NoGen /\ Le(latest, e.pending) =>
                 \/ Le(latest, new.gen)
                 \/ new.pending # NoGen /\ Le(latest, new.pending)
           /\ Le(latest, g) =>
                 \/ Le(latest, new.gen)
                 \/ new.pending # NoGen /\ Le(latest, new.pending)
<1> DEFINE new == MarkStale(e, g)
<1>0. e # NoView /\ e.gen \in Generation /\ e.pending \in OptGeneration
  BY NoViewAssumption DEF Entry
<1>1. CASE Le(g, e.gen)
  <2>1. new = e
    BY <1>1 DEF MarkStale
  <2>2. Le(latest, g) => Le(latest, e.gen)
    BY <1>0, <1>1, LeTransitive
  <2> QED BY <1>0, <2>1, <2>2
<1>2. CASE ~Le(g, e.gen)
  <2>1. new = [e EXCEPT !.pending = g]
    BY <1>0, <1>2 DEF MarkStale
  <2>2. new.gen = e.gen /\ new.pending = g /\ new \in Entry
    BY <2>1 DEF Entry, OptGeneration
  <2>3. e.pending # NoGen /\ Le(latest, e.pending) => Le(latest, g)
    BY <1>0, LeTransitive DEF OptGeneration
  <2>4. g # NoGen /\ g \in OptGeneration /\ Le(g, g)
    BY NoGenAssumption DEF OptGeneration, Le
  <2> HIDE DEF new
  <2>5. /\ new # NoView /\ new.gen = e.gen /\ new.pending \in OptGeneration
        /\ Le(new.gen, latest)
        /\ new.pending # NoGen => Le(new.pending, latest) /\ Le(new.pending, g)
        /\ e.pending # NoGen /\ Le(latest, e.pending) =>
              \/ Le(latest, new.gen)
              \/ new.pending # NoGen /\ Le(latest, new.pending)
        /\ Le(latest, g) =>
              \/ Le(latest, new.gen)
              \/ new.pending # NoGen /\ Le(latest, new.pending)
    BY <2>2, <2>3, <2>4, NoViewAssumption
  <2> QED BY <2>5 DEF new
<1> QED BY <1>1, <1>2

\* What one of m's shards makes of the batch read from q.
LEMMA MarkedFacts ==
    ASSUME HostInv, NEW q \in Host, NEW m \in Host, batches[q][m] # <<>>,
           NEW s \in DOMAIN shards[m],
           NEW new, new = Marked(shards[m][s], s, Routed(q, m, Head(batches[q][m])))
    PROVE  /\ new \in ShardObject /\ new.gen = shards[m][s].gen
           /\ \A p \in Host : p # q => new.views[p] = shards[m][s].views[p]
           /\ q = m => new.views[q] = shards[m][s].views[q]
           /\ q # m /\ (\A x \in Head(batches[q][m]) : x.name # s) =>
                 new.views[q] = shards[m][s].views[q]
           /\ q # m => \A x \in Head(batches[q][m]) : x.name = s =>
                 new.views[q] = MarkStale(shards[m][s].views[q], x.gen)
<1> DEFINE head == Head(batches[q][m])
           routed == Routed(q, m, head)
           old == shards[m][s]
           notes(p) == {x \in routed : x.name = s /\ x.source = p}
           pick(p) == CHOOSE x \in notes(p) : TRUE
           w == [p \in Host |-> IF notes(p) = {} THEN old.views[p]
                                ELSE MarkStale(old.views[p], pick(p).gen)]
<1>1. /\ \A x \in head : x.source = q /\ x.gen \in Generation
      /\ \A x, y \in head : y.name = x.name => x = y
  BY HeadFacts
<1>2. old \in ShardObject /\ old.views \in [Host -> OptEntry] /\ HostTypes
  BY Typed DEF HostInv
<1>3. new = [old EXCEPT !.views = w]
  BY DEF Marked
<1>4. routed = (IF q = m THEN {} ELSE head) /\ routed \subseteq head
  BY DEF Routed
<1> HIDE DEF head, routed, old
<1>5. \A p \in Host : w[p] = IF notes(p) = {} THEN old.views[p]
                             ELSE MarkStale(old.views[p], pick(p).gen)
  OBVIOUS
<1>6. ASSUME NEW p \in Host PROVE notes(p) # {} => pick(p) \in notes(p)
  OBVIOUS
<1>7. ASSUME NEW p \in Host PROVE w[p] \in OptEntry
  <2>1. CASE notes(p) = {}
    BY <1>2, <1>5, <2>1
  <2>2. CASE notes(p) # {}
    <3>1. pick(p) \in head
      BY <1>4, <1>6, <2>2
    <3>2. pick(p).gen \in Generation
      BY <1>1, <3>1
    <3>3. old.views[p] \in OptEntry
      BY <1>2
    <3> HIDE DEF pick, notes, w
    <3> QED BY <1>5, <2>2, <3>2, <3>3, EntryTypes
  <2> QED BY <2>1, <2>2
<1>8. w \in [Host -> OptEntry]
  <2>1. \A p \in Host : (IF notes(p) = {} THEN old.views[p]
                         ELSE MarkStale(old.views[p], pick(p).gen)) \in OptEntry
    <3> HIDE DEF pick, notes, w
    <3> QED BY <1>5, <1>7
  <2> HIDE DEF pick, notes
  <2> QED BY <2>1
<1>9. \A p \in Host : p # q => notes(p) = {}
  BY <1>1, <1>4
<1>10. q = m => notes(q) = {}
  BY <1>4
<1>11. (\A x \in head : x.name # s) => notes(q) = {}
  BY <1>4
<1>12. ASSUME q # m, NEW x \in head, x.name = s PROVE notes(q) # {} /\ pick(q) = x
  <2>1. x \in notes(q)
    BY <1>1, <1>4, <1>12
  <2>2. pick(q) \in notes(q)
    BY <1>6, <2>1
  <2>3. pick(q) \in head /\ pick(q).name = s
    BY <1>4, <2>2
  <2> HIDE DEF pick
  <2> QED BY <1>1, <1>12, <2>1, <2>3
<1> HIDE DEF notes, pick, w
<1>13. new \in ShardObject /\ new.gen = old.gen /\ new.views = w
  BY <1>2, <1>3, <1>8 DEF ShardObject
<1>14. /\ \A p \in Host : p # q => new.views[p] = old.views[p]
       /\ q = m => new.views[q] = old.views[q]
       /\ q # m /\ (\A x \in head : x.name # s) => new.views[q] = old.views[q]
  BY <1>5, <1>9, <1>10, <1>11, <1>13
<1>15. ASSUME q # m, NEW x \in head, x.name = s
       PROVE  new.views[q] = MarkStale(old.views[q], x.gen)
  BY <1>5, <1>12, <1>13, <1>15
<1> QED BY <1>13, <1>14, <1>15 DEF old, head

\* route_inbound_batch: what leaves the link is in the marks it made, or the
\* entry had it, and nothing that follows is older.
LEMMA InboundBatchStep ==
    ASSUME HostInv, NEW q \in Host, NEW m \in Host, InboundBatch(q, m)
    PROVE  HostInv'
<1> DEFINE head == Head(batches[q][m])
           f == [s \in DOMAIN shards[m] |-> Marked(shards[m][s], s, Routed(q, m, head))]
<1>0. /\ HostTypes /\ batches[q][m] # <<>>
      /\ \A p \in Host : FeedIsOwn(p) /\ FeedInOrder(p)
      /\ shards' = [shards EXCEPT ![m] = f]
      /\ batches' = [batches EXCEPT ![q][m] = Tail(batches[q][m])]
      /\ UNCHANGED <<mailbox, pending, handled, since>>
  BY DEF HostInv, InboundBatch
<1>1. ASSUME NEW s \in DOMAIN shards[m]
      PROVE  /\ f[s] \in ShardObject /\ f[s].gen = shards[m][s].gen
             /\ \A p \in Host : p # q => f[s].views[p] = shards[m][s].views[p]
             /\ q = m => f[s].views[q] = shards[m][s].views[q]
             /\ q # m /\ (\A x \in head : x.name # s) =>
                   f[s].views[q] = shards[m][s].views[q]
             /\ q # m => \A x \in head : x.name = s =>
                   f[s].views[q] = MarkStale(shards[m][s].views[q], x.gen)
  <2>1. f[s] = Marked(shards[m][s], s, Routed(q, m, head))
    OBVIOUS
  <2> HIDE DEF f
  <2> QED BY <1>0, <2>1, MarkedFacts
<1>2. f \in [DOMAIN shards[m] -> ShardObject]
  BY <1>1
<1>3. /\ 1 \in DOMAIN batches[q][m] /\ head = batches[q][m][1]
      /\ \A x \in head : /\ x.source = q /\ x.gen \in Generation
                         /\ Reached(q, x.name, x.gen)
      /\ \A x, y \in head : y.name = x.name => x = y
  BY <1>0, HeadFacts
<1> HIDE DEF f, head
<1>4. /\ shards' \in [Host -> Maps(Name, ShardObject)] /\ SameOwners
      /\ shards'[m] = f
      /\ \A n \in Host : n # m => shards'[n] = shards[n]
  <2>1. \A s \in DOMAIN shards[m] : f[s].gen = shards[m][s].gen
    BY <1>1
  <2> QED BY ONLY <1>0, <1>2, <2>1, m \in Host, ViewsChange
<1>5. /\ batches' \in [Host -> [Host -> Seq(SUBSET Notification)]]
      /\ TailRead(q, m)
      /\ \A p, n \in Host : DOMAIN batches'[p][n] \subseteq Nat
  BY <1>0, TailFacts
<1>6. /\ \A i \in DOMAIN batches[q][m] : i # 1 =>
            i - 1 \in DOMAIN batches'[q][m] /\ batches'[q][m][i - 1] = batches[q][m][i]
      /\ \A p, n \in Host : ~(p = q /\ n = m) => batches'[p][n] = batches[p][n]
      /\ \A i \in DOMAIN batches'[q][m] : 1 < i + 1
  <2>1. TailKept(q, m)
    BY <1>0, TailFacts
  <2> QED BY <2>1 DEF TailKept
<1>7. HostTypes'
  BY <1>0, <1>4, <1>5 DEF HostTypes
<1>8. \A p \in Host : FeedIsOwn(p)' /\ FeedInOrder(p)'
  BY <1>0, <1>4, <1>5, ReadFeed
<1>9. ASSUME NEW n \in Host, NEW p \in Host, NEW s, NEW g, g \in UnderWay(p, s, n)'
      PROVE  g \in UnderWay(p, s, n)
  <2>1. CASE \E x \in mailbox'[p] : x.name = s /\ x.gen = g
    BY <1>0, <2>1, UnderWayIs
  <2>2. CASE <<s, p>> \in DOMAIN pending'[p] /\ pending'[p][<<s, p>>] = g
    BY <1>0, <2>2, UnderWayIs
  <2>3. CASE \E i \in DOMAIN batches'[p][n] : \E x \in batches'[p][n][i] :
               x.name = s /\ x.source = p /\ x.gen = g
    <3>1. PICK i \in DOMAIN batches'[p][n] : \E x \in batches'[p][n][i] :
                 x.name = s /\ x.source = p /\ x.gen = g
      BY <2>3
    <3>2. PICK k \in DOMAIN batches[p][n] : batches'[p][n][i] = batches[p][n][k]
      BY <1>5 DEF TailRead
    <3>3. \E j \in DOMAIN batches[p][n] : \E x \in batches[p][n][j] :
            x.name = s /\ x.source = p /\ x.gen = g
      BY <3>1, <3>2
    <3> QED BY <3>3, UnderWayIs
  <2> QED BY <1>9, <2>1, <2>2, <2>3, UnderWayIsNext
\* Only what was in the batch read is not under way any more.
<1>10. ASSUME NEW n \in Host, NEW p \in Host, NEW s, NEW g, g \in UnderWay(p, s, n)
       PROVE  \/ g \in UnderWay(p, s, n)'
              \/ p = q /\ n = m /\ \E x \in head : x.name = s /\ x.gen = g
  <2>1. CASE \E x \in mailbox[p] : x.name = s /\ x.gen = g
    BY <1>0, <2>1, UnderWayIsNext
  <2>2. CASE <<s, p>> \in DOMAIN pending[p] /\ pending[p][<<s, p>>] = g
    BY <1>0, <2>2, UnderWayIsNext
  <2>3. CASE \E i \in DOMAIN batches[p][n] : \E x \in batches[p][n][i] :
               x.name = s /\ x.source = p /\ x.gen = g
    <3>1. PICK i \in DOMAIN batches[p][n] : \E x \in batches[p][n][i] :
                 x.name = s /\ x.source = p /\ x.gen = g
      BY <2>3
    <3>2. CASE p = q /\ n = m /\ i = 1
      BY <1>3, <3>1, <3>2
    <3>3. CASE ~(p = q /\ n = m /\ i = 1)
      <4>1. PICK k \in DOMAIN batches'[p][n] : batches'[p][n][k] = batches[p][n][i]
        BY <1>6, <3>3
      <4>2. \E j \in DOMAIN batches'[p][n] : \E x \in batches'[p][n][j] :
              x.name = s /\ x.source = p /\ x.gen = g
        BY <3>1, <4>1
      <4> QED BY <4>2, UnderWayIsNext
    <3> QED BY <3>2, <3>3
  <2> QED BY <1>10, <2>1, <2>2, <2>3, UnderWayIs
\* Nothing that is still under way is older than what was read.
<1>11. ASSUME NEW x \in head, NEW g, g \in UnderWay(q, x.name, m)'
       PROVE  Le(x.gen, g)
  <2>0. /\ FeedInOrder(q) /\ 1 \in DOMAIN batches[q][m] /\ x \in batches[q][m][1]
    BY <1>0, <1>3
  <2> DEFINE s == x.name
  <2>4. \/ \E y \in mailbox'[q] : y.name = s /\ y.gen = g
        \/ <<s, q>> \in DOMAIN pending'[q] /\ pending'[q][<<s, q>>] = g
        \/ \E i \in DOMAIN batches'[q][m] : \E y \in batches'[q][m][i] :
              y.name = s /\ y.source = q /\ y.gen = g
    BY <1>11, UnderWayIsNext
  <2>1. CASE \E y \in mailbox'[q] : y.name = s /\ y.gen = g
    <3>1. \A y \in mailbox[q] : y.name = s => Le(x.gen, y.gen)
      BY <2>0 DEF FeedInOrder
    <3> QED BY <1>0, <2>1, <3>1
  <2>2. CASE <<s, q>> \in DOMAIN pending'[q] /\ pending'[q][<<s, q>>] = g
    BY <1>0, <2>0, <2>2 DEF FeedInOrder
  <2>3. CASE \E i \in DOMAIN batches'[q][m] : \E y \in batches'[q][m][i] :
               y.name = s /\ y.source = q /\ y.gen = g
    <3>1. PICK i \in DOMAIN batches'[q][m] : \E y \in batches'[q][m][i] :
                 y.name = s /\ y.source = q /\ y.gen = g
      BY <2>3
    <3>2. PICK y \in batches'[q][m][i] : y.name = s /\ y.source = q /\ y.gen = g
      BY <3>1
    <3>3. i + 1 \in DOMAIN batches[q][m] /\ y \in batches[q][m][i + 1] /\ 1 < i + 1
      BY <1>5, <1>6 DEF TailRead
    <3>4. y.name = x.name /\ y.gen = g
      BY <3>2
    <3>5. Le(x.gen, y.gen)
      BY ONLY <2>0, <3>3, <3>4, m \in Host, BatchOrder
    <3> QED BY <3>4, <3>5
  <2> QED BY <2>1, <2>2, <2>3, <2>4
<1>12. ASSUME NEW n \in Host, NEW s \in DOMAIN shards'[n], NEW p \in Host
       PROVE  EntryFollows(n, s, p)'
  <2>0. s \in DOMAIN shards[n]
    BY <1>4 DEF SameOwners
  <2>1. CASE ~(n = m /\ p = q)
    <3>1. shards'[n][s].views[p] = shards[n][s].views[p]
      BY <1>1, <1>4, <2>0, <2>1
    <3>2. \A g : Le(g, g)
      BY DEF Le
    <3>3. /\ UnderWay(p, s, n)' \subseteq UnderWay(p, s, n)
          /\ \A g \in UnderWay(p, s, n) : \E h \in UnderWay(p, s, n)' : Le(g, h)
      BY <1>9, <1>10, <2>1, <3>2
    <3> QED BY <1>0, <1>4, <2>0, <3>1, <3>3, SameEntry
  <2>2. CASE n = m /\ p = q /\ q = m
    <3>1. shards'[n][s].views[p] = shards[n][s].views[p]
      BY <1>1, <1>4, <2>0, <2>2
    <3> QED BY <1>0, <1>4, <2>0, <2>2, <3>1, SameEntry
  <2>3. CASE n = m /\ p = q /\ q # m /\ \A x \in head : x.name # s
    <3>1. shards'[n][s].views[p] = shards[n][s].views[p]
      BY <1>1, <1>4, <2>0, <2>3
    <3>2. \A g : Le(g, g)
      BY DEF Le
    <3>3. /\ UnderWay(p, s, n)' \subseteq UnderWay(p, s, n)
          /\ \A g \in UnderWay(p, s, n) : \E h \in UnderWay(p, s, n)' : Le(g, h)
      BY <1>9, <1>10, <2>3, <3>2
    <3> QED BY <1>0, <1>4, <2>0, <3>1, <3>3, SameEntry
  <2>4. CASE n = m /\ p = q /\ q # m /\ \E x \in head : x.name = s
    <3>1. PICK x \in head : x.name = s
      BY <2>4
    <3> DEFINE e == shards[n][s].views[p]
               new == shards'[n][s].views[p]
               latest == shards[p][s].gen
    <3>2. new = MarkStale(e, x.gen)
      BY <1>1, <1>4, <2>0, <2>4, <3>1
    <3>3. /\ x.gen \in Generation /\ s \in DOMAIN shards[p] /\ Le(x.gen, latest)
          /\ latest \in Generation /\ e \in OptEntry
      BY <1>0, <1>3, <2>0, <2>4, <3>1, Typed DEF Reached
    <3>4. CASE e = NoView
      BY <3>2, <3>4 DEF EntryFollows, MarkStale
    <3>5. CASE e # NoView
      <4>1. e \in Entry
        BY <3>3, <3>5 DEF OptEntry
      <4>2. x.gen \in UnderWay(p, s, n)
        <5>1. ASSUME NEW g, g = x.gen PROVE g \in UnderWay(p, s, n)
          <6>1. \E i \in DOMAIN batches[p][n] : \E y \in batches[p][n][i] :
                  y.name = s /\ y.source = p /\ y.gen = g
            BY <1>3, <2>4, <3>1, <5>1
          <6> QED BY <6>1, UnderWayIs
        <5> QED BY <5>1
      <4>3. /\ Le(e.gen, latest)
            /\ e.pending # NoGen => Le(e.pending, latest) /\ Le(e.pending, x.gen)
            /\ since[n][s][p] # NoGen /\ Lt(since[n][s][p], latest) =>
                  \/ Le(latest, e.gen)
                  \/ e.pending # NoGen /\ Le(latest, e.pending)
                  \/ \E g \in UnderWay(p, s, n) : Le(latest, g)
        <5>1. EntryFollows(n, s, p) /\ Ceiling(p, s) = latest /\ n # p
          BY <2>0, <2>4, <3>3 DEF HostInv, Ceiling
        <5> QED BY <3>3, <3>5, <4>2, <5>1 DEF EntryFollows
      <4>4. /\ new # NoView /\ new.gen = e.gen /\ new.pending \in OptGeneration
            /\ Le(new.gen, latest)
            /\ new.pending # NoGen => Le(new.pending, latest) /\ Le(new.pending, x.gen)
            /\ e.pending # NoGen /\ Le(latest, e.pending) =>
                  \/ Le(latest, new.gen)
                  \/ new.pending # NoGen /\ Le(latest, new.pending)
            /\ Le(latest, x.gen) =>
                  \/ Le(latest, new.gen)
                  \/ new.pending # NoGen /\ Le(latest, new.pending)
        <5> HIDE DEF e, new, latest
        <5> QED BY <3>2, <3>3, <4>1, <4>3, MarkedEntry
      <4>5. ASSUME new.pending # NoGen, NEW g \in UnderWay(p, s, n)'
            PROVE  Le(new.pending, g)
        <5>1. Le(x.gen, g)
          BY <1>11, <2>4, <3>1
        <5>2. g \in Generation
          BY <1>9, UnderWayType
        <5> HIDE DEF new
        <5> QED BY <3>3, <4>4, <4>5, <5>1, <5>2, LeTransitive DEF OptGeneration
      <4>6. \A g \in UnderWay(p, s, n) : g \in UnderWay(p, s, n)' \/ g = x.gen
        BY <1>3, <1>10, <3>1
      <4>7. /\ Ceiling(p, s)' = latest /\ s \in DOMAIN shards'[p]
            /\ shards'[p][s].gen = latest /\ since' = since
        BY <1>0, <1>4, <3>3 DEF SameOwners, Ceiling
      <4>8. since[n][s][p] # NoGen /\ Lt(since[n][s][p], latest) =>
              \/ Le(latest, new.gen)
              \/ new.pending # NoGen /\ Le(latest, new.pending)
              \/ \E g \in UnderWay(p, s, n)' : Le(latest, g)
        <5> HIDE DEF e, new, latest
        <5> QED BY <4>3, <4>4, <4>6
      <4> HIDE DEF latest
      <4> QED BY <4>4, <4>5, <4>7, <4>8 DEF EntryFollows
    <3> QED BY <3>4, <3>5
  <2> QED BY <2>1, <2>2, <2>3, <2>4
<1> QED BY <1>7, <1>8, <1>12 DEF HostInv

-----------------------------------------------------------------------------
(* Every step, and what follows from the invariant.                        *)

\* Every step of every node keeps the invariant.
LEMMA HostStep == HostInv /\ [Next]_vars => HostInv'
<1> SUFFICES ASSUME HostInv, [Next]_vars PROVE HostInv'
  OBVIOUS
<1>1. CASE UNCHANGED vars
  <2>1. UNCHANGED <<shards, mailbox, pending, batches, handled, since>>
    BY <1>1 DEF vars
  <2>2. HostTypes'
    BY <2>1 DEF HostInv, HostTypes
  <2>3. SameOwners
    BY <2>1 DEF SameOwners
  <2>4. \A p \in Host : FeedIsOwn(p)' /\ FeedInOrder(p)'
    BY <2>1, <2>3, SameFeed
  <2>5. ASSUME NEW n \in Host, NEW s \in DOMAIN shards[n], NEW p \in Host
        PROVE  EntryFollows(n, s, p)'
    <3>1. UnderWay(p, s, n)' = UnderWay(p, s, n) /\ \A g : Le(g, g)
      BY <2>1 DEF UnderWay, Le
    <3> QED BY <2>1, <2>3, <3>1, SameEntry
  <2> QED BY <2>1, <2>2, <2>4, <2>5 DEF HostInv
<1>2. CASE Next
  <2>1. PICK n \in Host :
          \/ \E s \in Name, t \in ShardType : Register(n, s, t) \/ Mutate(n, s, t)
          \/ \E note \in mailbox[n] : NotifyChange(n, note)
          \/ Flush(n)
          \/ \E p \in Host :
                \/ BroadcastNodeJoined(n, p)
                \/ BroadcastNodeLeft(n, p)
                \/ InboundBatch(p, n)
                \/ \E s \in Name, age \in 0 .. MaxMutations :
                      InboundSnapshot(n, s, p, NewGeneration(1, age))
    BY <1>2 DEF Next
  <2>2. ASSUME NEW s \in Name, NEW t \in ShardType,
               Register(n, s, t) \/ Mutate(n, s, t)
        PROVE  HostInv'
    BY <2>2, RegisterStep, MutateStep
  <2>3. ASSUME NEW note \in mailbox[n], NotifyChange(n, note) PROVE HostInv'
    BY <2>3, NotifyStep
  <2>4. CASE Flush(n)
    BY <2>4, FlushStep
  <2>5. ASSUME NEW p \in Host, BroadcastNodeJoined(n, p) PROVE HostInv'
    BY <2>5, JoinedStep
  <2>6. ASSUME NEW p \in Host, BroadcastNodeLeft(n, p) PROVE HostInv'
    BY <2>6, LeftStep
  <2>7. ASSUME NEW p \in Host, InboundBatch(p, n) PROVE HostInv'
    BY <2>7, InboundBatchStep
  <2>8. ASSUME NEW p \in Host, NEW s \in Name, NEW age \in 0 .. MaxMutations,
               InboundSnapshot(n, s, p, NewGeneration(1, age))
        PROVE  HostInv'
    <3>1. NewGeneration(1, age) \in Generation
      BY DEF NewGeneration, Generation
    <3> QED BY <2>8, <3>1, SnapshotStep
  <2> QED BY <2>1, <2>2, <2>3, <2>4, <2>5, <2>6, <2>7, <2>8
<1> QED BY <1>1, <1>2

\* The invariant always holds.
LEMMA HostInvHolds == Spec => []HostInv
<1> QED BY HostInit, HostStep, PTL DEF Spec

\* Whatever is registered, announced and batched, the registry, the
\* shards and the aggregator keep their types, and an aggregator holds
\* announcements of its own node's registered states only.
THEOREM HostTypeCorrect == Spec => []HostTypeOK
<1>1. HostInv => HostTypeOK
  <2> SUFFICES ASSUME HostInv PROVE HostTypeOK
    OBVIOUS
  <2>0. HostTypes
    BY DEF HostInv
  <2>1. ASSUME NEW n \in Host
        PROVE  /\ DOMAIN shards[n] \subseteq Name
               /\ \A s \in DOMAIN shards[n] :
                     /\ shards[n][s].type \in ShardType
                     /\ shards[n][s].gen \in Generation
                     /\ shards[n][s].views \in [Host -> OptEntry]
               /\ mailbox[n] \subseteq NotifyMsg(DOMAIN shards[n])
               /\ DOMAIN pending[n] \subseteq ((DOMAIN shards[n]) \X {n})
               /\ \A k \in DOMAIN pending[n] : pending[n][k] \in Generation
    <3>0. FeedIsOwn(n)
      BY DEF HostInv
    <3>1. /\ DOMAIN shards[n] \subseteq Name
          /\ shards[n] \in [DOMAIN shards[n] -> ShardObject]
          /\ \A k \in DOMAIN pending[n] : pending[n][k] \in Generation
      BY <2>0, Typed
    <3>2. \A s \in DOMAIN shards[n] :
            /\ shards[n][s].type \in ShardType
            /\ shards[n][s].gen \in Generation
            /\ shards[n][s].views \in [Host -> OptEntry]
      BY <3>1 DEF ShardObject
    <3>3. mailbox[n] \subseteq NotifyMsg(DOMAIN shards[n])
      <4>1. \A x \in mailbox[n] : x \in NotifyMsg(Name) /\ x.name \in DOMAIN shards[n]
        BY <2>0, <3>0 DEF HostTypes, FeedIsOwn, Reached
      <4> QED BY <4>1 DEF NotifyMsg
    <3>4. DOMAIN pending[n] \subseteq ((DOMAIN shards[n]) \X {n})
      <4>1. pending[n] \in Maps(Name \X Host, Generation)
        BY <2>0, Typed
      <4>2. DOMAIN pending[n] \subseteq Name \X Host
        BY <4>1, MapFacts
      <4>3. \A k \in DOMAIN pending[n] : k[2] = n /\ k[1] \in DOMAIN shards[n]
        BY <3>0 DEF FeedIsOwn, Reached
      <4> QED BY <4>2, <4>3
    <3> QED BY <3>1, <3>2, <3>3, <3>4
  <2> QED BY <2>0, <2>1 DEF HostTypeOK, HostTypes
<1> QED BY <1>1, HostInvHolds, PTL

\* No entry, and no mark that mark_stale left on one, is ahead of the shard
\* that owns the state, although shards are registered at any time, entries are
\* dropped and made anew, and snapshots arrive before and after announcements.
THEOREM NobodyIsAhead == Spec => []NobodyAhead
<1>1. HostInv => NobodyAhead
  BY DEF HostInv, EntryFollows, Ceiling, NobodyAhead
<1> QED BY <1>1, HostInvHolds, PTL

\* The latest change of every state is on its way to every shard that knew the
\* peer when it was made, or has left its mark there, or is there: keeping only
\* the highest generation of a name (notify_change), one batch for all states
\* (flush) and a mark that a later one overwrites (mark_stale) lose nothing.
THEOREM NoChangeIsLost == Spec => []ChangesAreAnnounced
<1>1. HostInv => ChangesAreAnnounced
  BY DEF HostInv, EntryFollows, ChangesAreAnnounced
<1> QED BY <1>1, HostInvHolds, PTL

=============================================================================
