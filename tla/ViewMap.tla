------------------------------ MODULE ViewMap ------------------------------
(***************************************************************************)
(* `ViewMap` of dstate/src/core/view_map.rs under its one writer, the shard *)
(* that owns it, and readers on other threads.  The outer map sends a peer *)
(* to its cell, an `Arc<ArcSwap<..>>`; the cell holds the peer's            *)
(* `StateViewObject`.                                                       *)
(*                                                                         *)
(* The writer's loads see its own last stores, so each write is the one    *)
(* atomic store it ends in: into a cell, or of a new outer map.  A reader  *)
(* loads the outer map once and then the cells, one atomic load each, with *)
(* writes in between; it may hold a cell that no longer is in the map.  A  *)
(* cell is freed when no map, a reader's included, holds it.               *)
(***************************************************************************)
EXTENDS ShardCore

CONSTANTS
    Peer,           \* the nodes that may have an entry
    Me,             \* the local node, whose entry is never removed
    Reader,         \* the reading threads
    Cell, NoCell,   \* the cells, and the absence of one
    NoObject,       \* the None a read of an absent peer returns
    DefaultView,    \* the view NodeJoined inserts
    MaxStaleness,   \* max_staleness of the queries
    MaxInc, MaxAge, \* bounds: the generations the writer is sent
    MaxTime         \* bound: the clock's last reading

Object == [entry : Entry, synced : Nat]

OptObject == Object \cup {NoObject}

OptCell == Cell \cup {NoCell}

ASSUME ViewMapAssumption ==
    /\ Me \in Peer
    /\ NoCell \notin Cell
    /\ NoObject \notin Object
    /\ DefaultView \in View
    /\ Cell # {}
    /\ {MaxStaleness, MaxInc, MaxAge, MaxTime} \subseteq Nat

VARIABLES
    outer,      \* outer[p]: the cell the current map sends p to
    cells,      \* cells[c]: the object last stored in c; NoObject when free
    clock,      \* Clock::now
    call,       \* call[r]: the read r is in, or "none"
    map,        \* map[r]: the map r loaded
    todo,       \* todo[r]: the peers r has still to look up
    got,        \* got[r][p]: what r loaded for p
    now,        \* now[r]: the time r's staleness check uses; -1 before it
    stage,      \* stage[r]: how far r's call has come
    verdict,    \* verdict[r]: the peers r has found stale
    answer,     \* answer[r]: the views r's query gave to its projection
    during,     \* ghost: during[r][p], what p's entry has been since r's
                \* call began
    floor       \* ghost: floor[r][p], the newest generation of p that r
                \* has seen since p last left

writerVars == <<outer, cells>>
readerVars == <<call, map, todo, got, now, stage, verdict, answer>>
vars == <<outer, cells, clock, readerVars, during, floor>>

Calls == {"Get", "Query", "StalePeers"}

Stages == {"loading", "checked", "projected"}

Nothing == [p \in Peer |-> NoObject]

\* The types, and that every cell the map or a reader can reach holds an
\* object: the Arcs of a map keep its cells alive (view_map.rs, snapshot).
TypeOK ==
    /\ outer \in [Peer -> OptCell]
    /\ cells \in [Cell -> OptObject]
    /\ clock \in Nat
    /\ call \in [Reader -> Calls \cup {"none"}]
    /\ map \in [Reader -> [Peer -> OptCell]]
    /\ todo \in [Reader -> SUBSET Peer]
    /\ got \in [Reader -> [Peer -> OptObject]]
    /\ now \in [Reader -> Int]
    /\ stage \in [Reader -> Stages]
    /\ verdict \in [Reader -> SUBSET Peer]
    /\ answer \in [Reader -> [Peer -> OptObject]]
    /\ during \in [Reader -> [Peer -> SUBSET OptObject]]
    /\ floor \in [Reader -> [Peer -> OptGeneration]]
    /\ \A p \in Peer : outer[p] # NoCell => cells[outer[p]] # NoObject
    /\ \A r \in Reader, p \in Peer :
          map[r][p] # NoCell => cells[map[r][p]] # NoObject

-----------------------------------------------------------------------------
\* p's entry in the map as it is now.
Current(p) == IF outer[p] = NoCell THEN NoObject ELSE cells[outer[p]]

EntryOf(p) == IF outer[p] = NoCell THEN NoView ELSE cells[outer[p]].entry

Stamped(entry) == [entry |-> entry, synced |-> clock]

\* ViewMap::new, with the entry of ShardCore::new.
Init ==
    \E c \in Cell, v \in View :
        LET first == [entry |-> OwnEntry(NewGeneration(1, 0), v), synced |-> 0]
        IN  /\ outer = [p \in Peer |-> IF p = Me THEN c ELSE NoCell]
            /\ cells = [d \in Cell |-> IF d = c THEN first ELSE NoObject]
            /\ clock = 0
            /\ call = [r \in Reader |-> "none"]
            /\ map = [r \in Reader |-> [p \in Peer |-> NoCell]]
            /\ todo = [r \in Reader |-> {}]
            /\ got = [r \in Reader |-> Nothing]
            /\ now = [r \in Reader |-> -1]
            /\ stage = [r \in Reader |-> "loading"]
            /\ verdict = [r \in Reader |-> {}]
            /\ answer = [r \in Reader |-> Nothing]
            /\ during = [r \in Reader |-> [p \in Peer |-> {}]]
            /\ floor = [r \in Reader |-> [p \in Peer |-> NoGen]]

\* The calls in progress see p's entry become object.
Witnessed(p, object) ==
    [r \in Reader |->
        IF call[r] = "none" THEN during[r]
        ELSE [during[r] EXCEPT ![p] = @ \cup {object}]]

-----------------------------------------------------------------------------
(* The writes of ViewMap. *)

\* Mutated form: a cell is freed although a reader holds it.
KeptInMap(o, m) ==
    [c \in Cell |->
        IF \E p \in Peer : o[p] = c THEN cells[c] ELSE NoObject]

\* The cells left when the current map becomes o and the readers' maps m:
\* the last Arc of the others is dropped.
Kept(o, m) ==
    [c \in Cell |->
        IF \/ \E p \in Peer : o[p] = c
           \/ \E r \in Reader, p \in Peer : m[r][p] = c
        THEN cells[c]
        ELSE NoObject]

\* update, and upsert and update_if on a peer that has an entry: one store
\* into its cell.
Update(p, object) ==
    /\ outer[p] # NoCell
    /\ cells' = [cells EXCEPT ![outer[p]] = object]
    /\ during' = Witnessed(p, object)
    /\ UNCHANGED <<outer, clock, readerVars, floor>>

\* insert_node, and upsert and update_if on a peer without an entry: the
\* object goes into a cell of its own before the new map is stored.
InsertNode(p, object) ==
    /\ outer[p] = NoCell
    /\ \E c \in Cell :
          /\ cells[c] = NoObject
          /\ cells' = [cells EXCEPT ![c] = object]
          /\ outer' = [outer EXCEPT ![p] = c]
    /\ during' = Witnessed(p, object)
    /\ UNCHANGED <<clock, readerVars, floor>>

Upsert(p, object) == Update(p, object) \/ InsertNode(p, object)

\* Mutated form: the entry is cleared in place before the map is replaced.
RemoveNodeClears(p) ==
    /\ outer[p] # NoCell
    /\ outer' = [outer EXCEPT ![p] = NoCell]
    /\ cells' = [Kept(outer', map) EXCEPT
                    ![outer[p]] = Stamped(Placeholder(DefaultView))]
    /\ during' = Witnessed(p, NoObject)
    /\ floor' = [r \in Reader |-> [floor[r] EXCEPT ![p] = NoGen]]
    /\ UNCHANGED <<clock, readerVars>>

\* remove_node: the new map lacks p; a reader may still hold its cell.
RemoveNode(p) ==
    /\ outer[p] # NoCell
    /\ outer' = [outer EXCEPT ![p] = NoCell]
    /\ cells' = Kept(outer', map)
    /\ during' = Witnessed(p, NoObject)
    /\ floor' = [r \in Reader |-> [floor[r] EXCEPT ![p] = NoGen]]
    /\ UNCHANGED <<clock, readerVars>>

-----------------------------------------------------------------------------
(* The shard's methods that write the map (shard_core.rs). *)

InboundGeneration == [inc : 1..MaxInc, age : 0..MaxAge]

\* update_own_view after a commit.
UpdateOwnView(v) ==
    /\ cells[outer[Me]].entry.gen.age < MaxAge
    /\ Update(Me, Stamped(OwnEntry(NextAge(cells[outer[Me]].entry.gen), v)))

\* A discarded snapshot leaves the entry, and stores nothing.
AcceptInboundSnapshot(p, gen, v) ==
    /\ AcceptSnapshot(EntryOf(p), gen, v) # EntryOf(p)
    /\ Upsert(p, Stamped(AcceptSnapshot(EntryOf(p), gen, v)))

AcceptInboundDelta(p, gen, v) ==
    /\ DeltaVerdict(EntryOf(p), gen) = "Applied"
    /\ Update(p, Stamped(AcceptDelta(EntryOf(p), gen, v)))

MarkStaleBy(p, gen) ==
    /\ outer[p] # NoCell
    /\ ~Le(gen, EntryOf(p).gen)
    /\ Update(p, [cells[outer[p]] EXCEPT !.entry = MarkStale(@, gen)])

OnNodeJoined(p) == InsertNode(p, Stamped(Placeholder(DefaultView)))

OnNodeLeft(p) == RemoveNode(p)

Write ==
    \/ \E v \in View : UpdateOwnView(v)
    \/ \E p \in Peer \ {Me} :
          \/ OnNodeJoined(p)
          \/ OnNodeLeft(p)
          \/ \E gen \in InboundGeneration :
                \/ MarkStaleBy(p, gen)
                \/ \E v \in View :
                      \/ AcceptInboundSnapshot(p, gen, v)
                      \/ AcceptInboundDelta(p, gen, v)

-----------------------------------------------------------------------------
(* The reads. *)

Begin(r, kind, wanted) ==
    /\ call[r] = "none"
    /\ call' = [call EXCEPT ![r] = kind]
    /\ map' = [map EXCEPT ![r] =
                  [p \in Peer |-> IF p \in wanted THEN outer[p] ELSE NoCell]]
    /\ todo' = [todo EXCEPT ![r] = {p \in wanted : outer[p] # NoCell}]
    /\ during' = [during EXCEPT ![r] = [p \in Peer |-> {Current(p)}]]
    /\ UNCHANGED <<writerVars, clock, got, now, stage, verdict, answer, floor>>

\* get: the entry of one peer.
BeginGet(r, p) == Begin(r, "Get", {p})

\* snapshot, and query_local, whose first step it is.
BeginQuery(r) == Begin(r, "Query", Peer)

\* stale_peers: every entry but the local node's.
BeginStalePeers(r) == Begin(r, "StalePeers", Peer \ {Me})

\* clock.now(): after the entries are loaded in query_local, before in
\* stale_peers.
TakeNow(r) ==
    /\ now[r] = -1
    /\ \/ call[r] = "Query" /\ todo[r] = {}
       \/ call[r] = "StalePeers"
    /\ now' = [now EXCEPT ![r] = clock]
    /\ UNCHANGED <<writerVars, clock, call, map, todo, got, stage, verdict, answer,
                   during, floor>>

\* The load of one cell.  A map is iterated in any order.
LoadEntry(r, p) ==
    /\ p \in todo[r]
    /\ call[r] = "StalePeers" => now[r] # -1
    /\ todo' = [todo EXCEPT ![r] = @ \ {p}]
    /\ got' = [got EXCEPT ![r][p] = cells[map[r][p]]]
    /\ floor' = IF map[r][p] = outer[p]
                THEN [floor EXCEPT ![r][p] = cells[map[r][p]].entry.gen]
                ELSE floor
    /\ UNCHANGED <<writerVars, clock, call, map, now, stage, verdict, answer, during>>

\* duration_since saturates at zero.
IsStale(object, at) ==
    object.entry.pending # NoGen \/ at - object.synced > MaxStaleness

\* Mutated form: staleness is checked on entries loaded afresh.
StaleAmongReloaded(r) ==
    {p \in Peer \ {Me} :
        map[r][p] # NoCell /\ IsStale(cells[map[r][p]], now[r])}

\* The filter of query_local and of stale_peers: the loaded entries that are
\* stale.
StaleAmong(r) ==
    {p \in Peer \ {Me} : got[r][p] # NoObject /\ IsStale(got[r][p], now[r])}

\* The verdict is taken, in query_local after the clock was read.  (stale_peers
\* judges each entry as it is loaded, by the time it read before: that is the
\* same verdict.)
CheckStaleness(r) ==
    /\ call[r] \in {"Query", "StalePeers"} /\ stage[r] = "loading"
    /\ todo[r] = {} /\ now[r] # -1
    /\ stage' = [stage EXCEPT ![r] = "checked"]
    /\ verdict' = [verdict EXCEPT ![r] = StaleAmong(r)]
    /\ UNCHANGED <<writerVars, clock, call, map, todo, got, now, answer, during, floor>>

\* query_local then calls project, the caller's code, on the snapshot, while
\* writes go on.
Project(r) ==
    /\ call[r] = "Query" /\ stage[r] = "checked"
    /\ stage' = [stage EXCEPT ![r] = "projected"]
    /\ answer' = [answer EXCEPT ![r] = got[r]]
    /\ UNCHANGED <<writerVars, clock, call, map, todo, got, now, verdict, during, floor>>

Answers(r) ==
    \/ call[r] = "Get" /\ todo[r] = {}
    \/ call[r] = "StalePeers" /\ stage[r] = "checked"
    \/ call[r] = "Query" /\ stage[r] = "projected"

\* The call returns, and the reader drops the map it held.
Return(r) ==
    /\ Answers(r)
    /\ call' = [call EXCEPT ![r] = "none"]
    /\ map' = [map EXCEPT ![r] = [p \in Peer |-> NoCell]]
    /\ cells' = Kept(outer, map')
    /\ got' = [got EXCEPT ![r] = Nothing]
    /\ now' = [now EXCEPT ![r] = -1]
    /\ stage' = [stage EXCEPT ![r] = "loading"]
    /\ verdict' = [verdict EXCEPT ![r] = {}]
    /\ answer' = [answer EXCEPT ![r] = Nothing]
    /\ during' = [during EXCEPT ![r] = [p \in Peer |-> {}]]
    /\ UNCHANGED <<outer, clock, todo, floor>>

Tick ==
    /\ clock < MaxTime
    /\ clock' = clock + 1
    /\ UNCHANGED <<writerVars, readerVars, during, floor>>

Next ==
    \/ Write
    \/ Tick
    \/ \E r \in Reader :
          \/ BeginQuery(r)
          \/ BeginStalePeers(r)
          \/ TakeNow(r)
          \/ CheckStaleness(r)
          \/ Project(r)
          \/ Return(r)
          \/ \E p \in Peer : BeginGet(r, p) \/ LoadEntry(r, p)

Spec == Init /\ [][Next]_vars

-----------------------------------------------------------------------------
\* What a lock-free read returns for a peer, an absence included, is what
\* that peer's entry was at some moment of the call (get and snapshot of
\* view_map.rs): no thread sees a half-built entry, one that was never
\* published, or one that was replaced before it asked.
ReadsAreCurrent ==
    \A r \in Reader : call[r] # "none" =>
        \A p \in Peer :
            (got[r][p] # NoObject \/ (call[r] = "Query" /\ p \notin todo[r]))
                => got[r][p] \in during[r][p]

\* What query_local answers is of one piece: the peers it reports stale are
\* those whose views it gave to the projection were stale, by the announcement
\* they carry or by their age, and no view it calls fresh is a stale one,
\* although the entries may be replaced, marked or removed between the loads,
\* the check and the projection (its comment: "to avoid TOCTOU races between
\* snapshot() and stale_peers()").
VerdictMatchesProjection ==
    \A r \in Reader : stage[r] = "projected" =>
        \A p \in Peer \ {Me} :
            p \in verdict[r] <=>
                answer[r][p] # NoObject /\ IsStale(answer[r][p], now[r])

\* A thread that reads a peer's entry again never sees an older generation,
\* unless the peer left in between (update_if under should_accept).
ReadsMoveForward ==
    [][\A r \in Reader, p \in Peer :
          /\ p \in todo[r] \ todo'[r]
          /\ map[r][p] = outer[p]
          /\ floor[r][p] # NoGen
          => Le(floor[r][p], got'[r][p].entry.gen)]_vars

-----------------------------------------------------------------------------
(* The inductive invariant behind these. *)

\* A cell belongs to one peer, in the map and in every map a reader holds.
CellsAreOwned ==
    /\ \A p, q \in Peer : outer[p] = outer[q] /\ outer[p] # NoCell => p = q
    /\ \A r \in Reader, p, q \in Peer :
          outer[p] = map[r][q] /\ outer[p] # NoCell => p = q
    /\ \A r, s \in Reader, p, q \in Peer :
          map[r][p] = map[s][q] /\ map[r][p] # NoCell => p = q

\* What a reader holds or has loaded, and what it found absent, p's entry
\* has been during the call.
HeldIsWitnessed ==
    \A r \in Reader, p \in Peer :
        /\ call[r] = "none" =>
              map[r][p] = NoCell /\ got[r][p] = NoObject /\ todo[r] = {}
        /\ p \in todo[r] => map[r][p] # NoCell
        /\ map[r][p] # NoCell => cells[map[r][p]] \in during[r][p]
        /\ map[r][p] # NoCell /\ p \notin todo[r] => got[r][p] # NoObject
        /\ map[r][p] = NoCell => got[r][p] = NoObject
        /\ got[r][p] # NoObject => got[r][p] \in during[r][p]
        /\ call[r] = "Query" /\ map[r][p] = NoCell =>
              NoObject \in during[r][p]

\* The entry in the map is never older than what a reader has seen of it.
FloorIsBelow ==
    \A r \in Reader, p \in Peer :
        floor[r][p] # NoGen =>
            /\ outer[p] # NoCell
            /\ Le(floor[r][p], cells[outer[p]].entry.gen)

\* A verdict is taken once, of everything loaded, and the projection is given
\* the same.
AnswersAgree ==
    \A r \in Reader :
        /\ stage[r] # "loading" =>
              /\ call[r] # "none" /\ todo[r] = {} /\ now[r] # -1
              /\ verdict[r] = StaleAmong(r)
        /\ stage[r] = "projected" => answer[r] = got[r]

Inv ==
    /\ TypeOK
    /\ outer[Me] # NoCell
    /\ CellsAreOwned
    /\ HeldIsWitnessed
    /\ FloorIsBelow
    /\ AnswersAgree

=============================================================================
