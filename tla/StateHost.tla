----------------------------- MODULE StateHost -----------------------------
(***************************************************************************)
(* Nodes that host several distributed states: the `StateRegistry` of a    *)
(* node (dstate/src/registry.rs), its shards, and the one                  *)
(* `ChangeFeedLogic` (dstate/src/core/change_feed_logic.rs) that batches   *)
(* the announcements of all its states.  The actors around them are not in *)
(* the repository: a shard's mutation sends a ChangeFeedMsg to the node's  *)
(* aggregator, whose batches reach the aggregators of all nodes, the       *)
(* sender's own included, in the order they were sent.                     *)
(***************************************************************************)
EXTENDS ShardCore, Sequences, SequencesExt, FiniteSetsExt

CONSTANTS
    Host,           \* the nodes
    Name,           \* the names states are registered under
    ShardType,      \* the Rust types of shards, as TypeId tells them apart
    DefaultView,    \* the view of a placeholder
    Writers,        \* bound: the nodes that mutate
    MaxMutations,   \* bound: mutations a node makes
    MaxEvents       \* bound: membership events the nodes handle

ASSUME HostAssumption ==
    /\ DefaultView \in View
    /\ Writers \subseteq Host
    /\ MaxMutations \in Nat /\ MaxEvents \in Nat

VARIABLES
    shards,     \* shards[n]: the registered names, each with type and shard
    mailbox,    \* mailbox[n]: the NotifyChange messages n's aggregator has to read
    pending,    \* pending[n]: ChangeFeedLogic.pending
    batches,    \* batches[n][m]: the batches on their way from n to m
    handled,    \* the membership events handled so far
    since       \* ghost: since[n][s][p], the generation p's state s had when n's
                \* shard got the entry it has

vars == <<shards, mailbox, pending, batches, handled, since>>

FirstGeneration == NewGeneration(1, 0)

\* The value of a view is of no account here.
Shard(n, type) ==
    [type |-> type, gen |-> FirstGeneration,
     views |-> [p \in Host |-> IF p = n THEN OwnEntry(FirstGeneration, DefaultView)
                               ELSE NoView]]

Empty == [x \in {} |-> x]

Init ==
    /\ shards = [n \in Host |-> Empty]
    /\ mailbox = [n \in Host |-> {}]
    /\ pending = [n \in Host |-> Empty]
    /\ batches = [n \in Host |-> [m \in Host |-> <<>>]]
    /\ handled = 0
    /\ since = [n \in Host |-> [s \in Name |-> [p \in Host |-> NoGen]]]

\* The map f with x sent to y.
With(f, x, y) == [z \in DOMAIN f \cup {x} |-> IF z = x THEN y ELSE f[z]]

-----------------------------------------------------------------------------
(* StateRegistry.                                                          *)

\* Mutated form: a second registration replaces the first.
RegisterAgain(n, s, type) ==
    /\ shards' = [shards EXCEPT ![n] = With(@, s, Shard(n, type))]
    /\ since' = [since EXCEPT ![n][s] = [p \in Host |-> NoGen]]
    /\ UNCHANGED <<mailbox, pending, batches, handled>>

\* register; a DuplicateName changes nothing.
Register(n, s, type) ==
    /\ s \notin DOMAIN shards[n]
    /\ shards' = [shards EXCEPT ![n] = With(@, s, Shard(n, type))]
    /\ UNCHANGED <<mailbox, pending, batches, handled, since>>

LookupTyped(n, s, type) ==
    IF s \notin DOMAIN shards[n] THEN "StateNotRegistered"
    ELSE IF shards[n][s].type # type THEN "TypeMismatch" ELSE "Ok"

\* The generation of p's state s, when it is registered there.
GenerationOf(p, s) ==
    IF s \in DOMAIN shards[p] THEN shards[p][s].gen ELSE NoGen

\* Every registered shard of n gets to do something to its entry of p.
ForAllShards(n, p, Do(_)) ==
    shards' = [shards EXCEPT ![n] =
                  [s \in DOMAIN shards[n] |->
                      [shards[n][s] EXCEPT !.views[p] = Do(@)]]]

Event ==
    /\ handled < MaxEvents
    /\ handled' = handled + 1

BroadcastNodeJoined(n, p) ==
    /\ n # p
    /\ Event
    /\ ForAllShards(n, p, LAMBDA e : InsertPlaceholder(e, DefaultView))
    /\ since' = [since EXCEPT ![n] =
                    [s \in Name |->
                        IF s \in DOMAIN shards[n] /\ shards[n][s].views[p] = NoView
                        THEN [@[s] EXCEPT ![p] = GenerationOf(p, s)]
                        ELSE @[s]]]
    /\ UNCHANGED <<mailbox, pending, batches>>

BroadcastNodeLeft(n, p) ==
    /\ n # p
    /\ Event
    /\ ForAllShards(n, p, LAMBDA e : NoView)
    /\ since' = [since EXCEPT ![n] = [s \in Name |-> [@[s] EXCEPT ![p] = NoGen]]]
    /\ UNCHANGED <<mailbox, pending, batches>>

-----------------------------------------------------------------------------
(* ChangeFeedLogic and the aggregator.                                     *)

\* ChangeFeedMsg::NotifyChange of states with these names.
NotifyMsg(names) == [name : names, gen : Generation]

MutationsOf(n) == MapThenSumSet(LAMBDA s : shards[n][s].gen.age, DOMAIN shards[n])

\* The host finds the shard it means to mutate; the mutation is announced.
Mutate(n, s, type) ==
    /\ n \in Writers
    /\ LookupTyped(n, s, type) = "Ok"
    /\ MutationsOf(n) < MaxMutations
    /\ LET gen == NextAge(shards[n][s].gen) IN
       /\ shards' = [shards EXCEPT ![n][s].gen = gen,
                                   ![n][s].views[n] = OwnEntry(gen, DefaultView)]
       /\ mailbox' = [mailbox EXCEPT ![n] = @ \cup {[name |-> s, gen |-> gen]}]
    /\ UNCHANGED <<pending, batches, handled, since>>

\* Mutated form: one entry per source node.
NotifyKeyAny(n, s) == n

\* The key of an announcement: state name and source node.
NotifyKey(n, s) == <<s, n>>

\* notify_change: the higher generation is kept.  The messages of one shard
\* are read in the order it sent them.
NotifyChange(n, note) ==
    LET key == NotifyKey(n, note.name) IN
    /\ note \in mailbox[n]
    /\ \A other \in mailbox[n] : other.name = note.name => Le(note.gen, other.gen)
    /\ mailbox' = [mailbox EXCEPT ![n] = @ \ {note}]
    /\ pending' = IF key \in DOMAIN pending[n] /\ ~Lt(pending[n][key], note.gen)
                  THEN pending
                  ELSE [pending EXCEPT ![n] = With(@, key, note.gen)]
    /\ UNCHANGED <<shards, batches, handled, since>>

\* Mutated form: the notification of one key only is sent.
DrainedOne(n) ==
    LET key == CHOOSE k \in DOMAIN pending[n] : TRUE
    IN  {[name |-> key[1], source |-> key[2], gen |-> pending[n][key]]}

\* flush: every pending notification, in one batch.
Drained(n) ==
    {[name |-> key[1], source |-> key[2], gen |-> pending[n][key]] :
        key \in DOMAIN pending[n]}

Flush(n) ==
    /\ pending[n] # Empty
    /\ batches' = [batches EXCEPT ![n] =
                      [m \in Host |-> Append(@[m], Drained(n))]]
    /\ pending' = [pending EXCEPT ![n] = Empty]
    /\ UNCHANGED <<shards, mailbox, handled, since>>

\* route_inbound_batch: one's own batch is dropped.
Routed(n, m, batch) == IF n = m THEN {} ELSE batch

\* A shard with the notifications of a batch for it applied; an unknown name
\* or peer is passed over.
Marked(shard, s, routed) ==
    [shard EXCEPT !.views =
        [p \in Host |->
            LET notes == {x \in routed : x.name = s /\ x.source = p} IN
            IF notes = {} THEN shard.views[p]
            ELSE MarkStale(shard.views[p], (CHOOSE x \in notes : TRUE).gen)]]

InboundBatch(n, m) ==
    /\ batches[n][m] # <<>>
    /\ LET routed == Routed(n, m, Head(batches[n][m])) IN
       shards' = [shards EXCEPT ![m] =
                     [s \in DOMAIN @ |-> Marked(@[s], s, routed)]]
    /\ batches' = [batches EXCEPT ![n][m] = Tail(@)]
    /\ UNCHANGED <<mailbox, pending, handled, since>>

\* A snapshot n's shard asked for or was sent, of a generation p's shard has
\* or had.
InboundSnapshot(n, s, p, gen) ==
    /\ n # p
    /\ s \in DOMAIN shards[n] /\ s \in DOMAIN shards[p]
    /\ Le(gen, shards[p][s].gen)
    /\ shards' = [shards EXCEPT ![n][s].views[p] = AcceptSnapshot(@, gen, DefaultView)]
    /\ since' = IF shards[n][s].views[p] = NoView
                THEN [since EXCEPT ![n][s][p] = shards[p][s].gen]
                ELSE since
    /\ UNCHANGED <<mailbox, pending, batches, handled>>

-----------------------------------------------------------------------------
Next ==
    \E n \in Host :
        \/ \E s \in Name, t \in ShardType : Register(n, s, t) \/ Mutate(n, s, t)
        \/ \E note \in mailbox[n] : NotifyChange(n, note)
        \/ Flush(n)
        \/ \E p \in Host :
              \/ BroadcastNodeJoined(n, p)
              \/ BroadcastNodeLeft(n, p)
              \/ InboundBatch(p, n)
              \/ \E s \in Name, age \in 0 .. MaxMutations :
                    InboundSnapshot(n, s, p, NewGeneration(1, age))

Spec == Init /\ [][Next]_vars

-----------------------------------------------------------------------------
\* The types; announcements are kept under the names registered here.
HostTypeOK ==
    /\ \A n \in Host :
          /\ DOMAIN shards[n] \subseteq Name
          /\ \A s \in DOMAIN shards[n] :
                /\ shards[n][s].type \in ShardType
                /\ shards[n][s].gen \in Generation
                /\ shards[n][s].views \in [Host -> OptEntry]
          /\ mailbox[n] \subseteq NotifyMsg(DOMAIN shards[n])
          /\ DOMAIN pending[n] \subseteq ((DOMAIN shards[n]) \X {n})
          /\ \A k \in DOMAIN pending[n] : pending[n][k] \in Generation
    /\ handled \in 0 .. MaxEvents
    /\ since \in [Host -> [Name -> [Host -> OptGeneration]]]

\* The generations of p's state s that are on their way to n.
UnderWay(p, s, n) ==
    {x.gen : x \in {y \in mailbox[p] : y.name = s}}
        \cup {pending[p][k] : k \in {j \in DOMAIN pending[p] : j = <<s, p>>}}
        \cup UNION {{x.gen : x \in {y \in b : y.name = s /\ y.source = p}} :
                       b \in ToSet(batches[p][n])}

\* "If counters mutates 50 times between flushes, only the highest Generation
\* is broadcast": batched with the other states' and deduplicated, the latest
\* change of every state is still on its way to a shard that knew the peer
\* when it was made, or has marked its entry, or the entry has it already
\* (notify_change, flush, route_inbound_batch, mark_stale).
ChangesAreAnnounced ==
    \A n, p \in Host : \A s \in (DOMAIN shards[n]) \cap (DOMAIN shards[p]) :
        LET entry == shards[n][s].views[p]
            latest == shards[p][s].gen
        IN  /\ n # p /\ entry # NoView
            /\ since[n][s][p] # NoGen /\ Lt(since[n][s][p], latest)
            => \/ Le(latest, entry.gen)
               \/ entry.pending # NoGen /\ Le(latest, entry.pending)
               \/ \E g \in UnderWay(p, s, n) : Le(latest, g)

\* Nobody waits for a generation its owner does not have: a name keeps the
\* shard it was registered with (register's DuplicateName).
NobodyAhead ==
    \A n, p \in Host : \A s \in (DOMAIN shards[n]) \cap (DOMAIN shards[p]) :
        LET entry == shards[n][s].views[p] IN
        entry # NoView =>
            /\ Le(entry.gen, shards[p][s].gen)
            /\ entry.pending # NoGen => Le(entry.pending, shards[p][s].gen)

=============================================================================
