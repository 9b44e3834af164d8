--------------------------- MODULE ViewMapProofs ---------------------------
(***************************************************************************)
(* Lock-free reads of the view map are linearizable entry by entry, and go *)
(* forward, for any number of peers, readers and cells.                    *)
(***************************************************************************)
EXTENDS ViewMap, GenerationsProofs, TLAPS

USE ViewMapAssumption, NoGenAssumption, NoViewAssumption

\* The entries the shard's methods store are entries, no older than the one
\* they replace (accept_inbound_snapshot, accept_inbound_delta, mark_stale).
LEMMA StoredEntries ==
    ASSUME NEW entry \in OptEntry, NEW gen \in Generation, NEW v \in View
    PROVE  /\ Updated(entry, gen, v) \in Entry
           /\ entry # NoView =>
                 /\ MarkStale(entry, gen) \in Entry
                 /\ MarkStale(entry, gen).gen = entry.gen
           /\ AcceptSnapshot(entry, gen, v) # entry =>
                 /\ AcceptSnapshot(entry, gen, v) \in Entry
                 /\ entry # NoView =>
                       Le(entry.gen, AcceptSnapshot(entry, gen, v).gen)
           /\ DeltaVerdict(entry, gen) = "Applied" =>
                 /\ entry # NoView
                 /\ AcceptDelta(entry, gen, v) \in Entry
                 /\ Le(entry.gen, AcceptDelta(entry, gen, v).gen)
<1>1. KeptPending(entry, gen) \in OptGeneration
    BY DEF KeptPending, OptEntry, Entry, OptGeneration
<1>2. Updated(entry, gen, v) \in Entry /\ Updated(entry, gen, v).gen = gen
    BY <1>1 DEF Updated, Entry
<1>3. entry # NoView =>
          MarkStale(entry, gen) \in Entry /\ MarkStale(entry, gen).gen = entry.gen
    BY DEF MarkStale, OptEntry, Entry, OptGeneration
<1>4. ASSUME AcceptSnapshot(entry, gen, v) # entry
      PROVE  /\ AcceptSnapshot(entry, gen, v) \in Entry
             /\ entry # NoView =>
                   Le(entry.gen, AcceptSnapshot(entry, gen, v).gen)
    BY <1>2, <1>4 DEF AcceptSnapshot, SnapshotAccepted, ShouldAccept, Le
<1>5. ASSUME DeltaVerdict(entry, gen) = "Applied"
      PROVE  /\ entry # NoView
             /\ AcceptDelta(entry, gen, v) \in Entry
             /\ Le(entry.gen, AcceptDelta(entry, gen, v).gen)
    <2>1. entry # NoView
        BY <1>5 DEF DeltaVerdict
    <2>2. entry \in Entry
        BY <2>1 DEF OptEntry
    <2>3. gen.inc = entry.gen.inc /\ gen.age = entry.gen.age + 1
        BY <1>5, <2>1, <2>2 DEF DeltaVerdict, Entry, Generation
    <2>4. Lt(entry.gen, gen)
        BY <2>2, <2>3 DEF Lt, Entry, Generation
    <2> QED BY <1>2, <1>5, <2>1, <2>4 DEF AcceptDelta, Le
<1> QED BY <1>2, <1>3, <1>4, <1>5

\* A placeholder is an entry (on_node_joined).
LEMMA PlaceholderEntry == Placeholder(DefaultView) \in Entry
<1>1. Zero \in Generation /\ PlaceholderPending \in Generation
    BY DEF Zero, PlaceholderPending, NewGeneration, Generation
<1> QED BY <1>1 DEF Placeholder, Entry, OptGeneration

\* The object of a peer with an entry is one.
LEMMA LiveCells ==
    ASSUME TypeOK, NEW p \in Peer, outer[p] # NoCell
    PROVE  outer[p] \in Cell /\ cells[outer[p]] \in Object
BY DEF TypeOK, OptCell, OptObject

\* What p's entry becomes is added to what the calls in progress saw of it.
LEMMA WitnessedFacts ==
    ASSUME TypeOK, NEW p \in Peer, NEW object \in OptObject
    PROVE  /\ Witnessed(p, object) \in [Reader -> [Peer -> SUBSET OptObject]]
           /\ \A r \in Reader, q \in Peer :
                 during[r][q] \subseteq Witnessed(p, object)[r][q]
           /\ \A r \in Reader :
                 call[r] # "none" => object \in Witnessed(p, object)[r][p]
<1>1. \A r \in Reader : during[r] \in [Peer -> SUBSET OptObject]
    BY DEF TypeOK
<1> QED BY <1>1 DEF Witnessed

\* A step that leaves the readers alone leaves their answers alone.
LEMMA SameAnswers ==
    ASSUME AnswersAgree, UNCHANGED readerVars PROVE AnswersAgree'
BY DEF AnswersAgree, StaleAmong, readerVars

\* A store into a peer's cell (update) keeps the invariant, given that
\* generations in a cell never go back.
LEMMA UpdateStep ==
    ASSUME Inv, NEW p \in Peer, NEW object \in Object, Update(p, object),
           Le(cells[outer[p]].entry.gen, object.entry.gen)
    PROVE  Inv'
<1> DEFINE c == outer[p]
<1>1. c \in Cell /\ cells[c] \in Object
    BY LiveCells DEF Inv, Update
<1>2. cells' = [cells EXCEPT ![c] = object] /\ object # NoObject
    BY DEF Update
<1>3. /\ cells' \in [Cell -> OptObject]
      /\ cells'[c] = object
      /\ \A d \in Cell : d # c => cells'[d] = cells[d]
    BY <1>1, <1>2 DEF Inv, TypeOK, OptObject
<1>4. TypeOK'
    <2>1. during' \in [Reader -> [Peer -> SUBSET OptObject]]
        BY WitnessedFacts DEF Inv, Update, OptObject
    <2>2. \A q \in Peer : outer[q] # NoCell => cells'[outer[q]] # NoObject
        BY <1>2, <1>3 DEF Inv, TypeOK, OptCell
    <2>3. \A r \in Reader, q \in Peer :
              map[r][q] # NoCell => cells'[map[r][q]] # NoObject
        <3> SUFFICES ASSUME NEW r \in Reader, NEW q \in Peer, map[r][q] # NoCell
                     PROVE  cells'[map[r][q]] # NoObject
            OBVIOUS
        <3>1. map[r][q] \in Cell /\ cells[map[r][q]] # NoObject
            BY DEF Inv, TypeOK, OptCell
        <3> QED BY <3>1, <1>2, <1>3
    <2> QED BY <1>3, <2>1, <2>2, <2>3 DEF Inv, TypeOK, Update, readerVars
<1>5. CellsAreOwned'
    BY DEF Inv, CellsAreOwned, Update, readerVars
<1>6. HeldIsWitnessed'
    <2> SUFFICES ASSUME NEW r \in Reader, NEW q \in Peer
                 PROVE  /\ map[r][q] # NoCell => cells'[map[r][q]] \in during'[r][q]
                        /\ got[r][q] # NoObject => got[r][q] \in during'[r][q]
                        /\ call[r] = "Query" /\ map[r][q] = NoCell =>
                              NoObject \in during'[r][q]
        BY DEF Inv, HeldIsWitnessed, Update, readerVars
    <2>1. /\ during[r][q] \subseteq during'[r][q]
          /\ call[r] # "none" => object \in during'[r][p]
        BY WitnessedFacts DEF Inv, Update, OptObject
    <2>2. ASSUME map[r][q] # NoCell
          PROVE  cells'[map[r][q]] \in during'[r][q]
        <3>1. map[r][q] \in Cell /\ call[r] # "none"
            BY <2>2 DEF Inv, TypeOK, OptCell, HeldIsWitnessed
        <3>2. CASE map[r][q] = c
            <4>1. q = p
                BY <3>2, <2>2 DEF Inv, CellsAreOwned
            <4> QED BY <3>1, <3>2, <4>1, <2>1, <1>3
        <3>3. CASE map[r][q] # c
            BY <3>1, <3>3, <2>1, <2>2, <1>3 DEF Inv, HeldIsWitnessed
        <3> QED BY <3>2, <3>3
    <2> QED BY <2>1, <2>2 DEF Inv, HeldIsWitnessed
<1>7. FloorIsBelow'
    <2> SUFFICES ASSUME NEW r \in Reader, NEW q \in Peer, floor[r][q] # NoGen
                 PROVE  /\ outer[q] # NoCell
                        /\ Le(floor[r][q], cells'[outer[q]].entry.gen)
        BY DEF FloorIsBelow, Update
    <2>1. outer[q] # NoCell /\ Le(floor[r][q], cells[outer[q]].entry.gen)
        BY DEF Inv, FloorIsBelow
    <2>2. CASE q = p
        <3>1. /\ floor[r][q] \in Generation
              /\ cells[c].entry.gen \in Generation
              /\ object.entry.gen \in Generation
            BY <1>1 DEF Inv, TypeOK, OptGeneration, Object, Entry
        <3> QED BY <3>1, <2>1, <2>2, <1>3, LeTransitive
    <2>3. CASE q # p
        <3>1. outer[q] # c /\ outer[q] \in Cell
            BY <2>1, <2>3 DEF Inv, CellsAreOwned, TypeOK, OptCell
        <3> QED BY <3>1, <2>1, <1>3
    <2> QED BY <2>2, <2>3
<1> QED BY <1>4, <1>5, <1>6, <1>7, SameAnswers DEF Inv, Update

\* A new entry (insert_node) keeps the invariant: its cell was free.
LEMMA InsertStep ==
    ASSUME Inv, NEW p \in Peer, NEW object \in Object, InsertNode(p, object)
    PROVE  Inv'
<1>1. PICK c \in Cell : /\ cells[c] = NoObject
                        /\ cells' = [cells EXCEPT ![c] = object]
                        /\ outer' = [outer EXCEPT ![p] = c]
    BY DEF InsertNode
<1>2. /\ outer' \in [Peer -> OptCell]
      /\ outer'[p] = c
      /\ \A q \in Peer : q # p => outer'[q] = outer[q]
    BY <1>1 DEF Inv, TypeOK, OptCell
<1>3. /\ cells' \in [Cell -> OptObject]
      /\ cells'[c] = object
      /\ \A d \in Cell : d # c => cells'[d] = cells[d]
    BY <1>1 DEF Inv, TypeOK, OptObject
<1>4. /\ \A q \in Peer : outer[q] # c
      /\ \A r \in Reader, q \in Peer : map[r][q] # c
      /\ c # NoCell /\ object # NoObject
    BY <1>1 DEF Inv, TypeOK
<1>5. outer[p] = NoCell /\ UNCHANGED <<clock, readerVars, floor>>
    BY DEF InsertNode
<1>6. TypeOK'
    <2>1. during' \in [Reader -> [Peer -> SUBSET OptObject]]
        BY WitnessedFacts DEF Inv, InsertNode, OptObject
    <2>2. \A q \in Peer : outer'[q] # NoCell => cells'[outer'[q]] # NoObject
        BY <1>2, <1>3, <1>4 DEF Inv, TypeOK, OptCell
    <2>3. \A r \in Reader, q \in Peer :
              map[r][q] # NoCell => cells'[map[r][q]] # NoObject
        BY <1>3, <1>4 DEF Inv, TypeOK, OptCell
    <2> QED BY <1>2, <1>3, <1>5, <2>1, <2>2, <2>3 DEF Inv, TypeOK, readerVars
<1>7. CellsAreOwned'
    BY <1>2, <1>4, <1>5 DEF Inv, CellsAreOwned, readerVars
<1>8. HeldIsWitnessed'
    <2> SUFFICES ASSUME NEW r \in Reader, NEW q \in Peer
                 PROVE  /\ map[r][q] # NoCell => cells'[map[r][q]] \in during'[r][q]
                        /\ got[r][q] # NoObject => got[r][q] \in during'[r][q]
                        /\ call[r] = "Query" /\ map[r][q] = NoCell =>
                              NoObject \in during'[r][q]
        BY <1>5 DEF Inv, HeldIsWitnessed, readerVars
    <2>1. during[r][q] \subseteq during'[r][q]
        BY WitnessedFacts DEF Inv, InsertNode, OptObject
    <2>2. map[r][q] # NoCell => cells'[map[r][q]] = cells[map[r][q]]
        BY <1>3, <1>4 DEF Inv, TypeOK, OptCell
    <2> QED BY <2>1, <2>2 DEF Inv, HeldIsWitnessed
<1>9. FloorIsBelow'
    <2> SUFFICES ASSUME NEW r \in Reader, NEW q \in Peer, floor[r][q] # NoGen
                 PROVE  /\ outer'[q] # NoCell
                        /\ Le(floor[r][q], cells'[outer'[q]].entry.gen)
        BY <1>5 DEF FloorIsBelow
    <2>1. outer[q] # NoCell /\ Le(floor[r][q], cells[outer[q]].entry.gen)
        BY DEF Inv, FloorIsBelow
    <2>2. outer'[q] = outer[q] /\ outer[q] \in Cell /\ outer[q] # c
        BY <2>1, <1>2, <1>4, <1>5 DEF Inv, TypeOK, OptCell
    <2> QED BY <2>1, <2>2, <1>3
<1> QED BY <1>2, <1>4, <1>5, <1>6, <1>7, <1>8, <1>9, SameAnswers DEF Inv

\* A peer leaving the map (remove_node) keeps the invariant: a reader's map
\* still holds the cell, whose object was the last the peer had.
LEMMA RemoveStep ==
    ASSUME Inv, NEW p \in Peer, p # Me, RemoveNode(p)
    PROVE  Inv'
<1>1. /\ outer' = [outer EXCEPT ![p] = NoCell]
      /\ cells' = Kept(outer', map)
      /\ during' = Witnessed(p, NoObject)
      /\ floor' = [r \in Reader |-> [floor[r] EXCEPT ![p] = NoGen]]
      /\ UNCHANGED <<clock, readerVars>>
    BY DEF RemoveNode
<1>2. /\ outer' \in [Peer -> OptCell]
      /\ outer'[p] = NoCell
      /\ \A q \in Peer : q # p => outer'[q] = outer[q]
    BY <1>1 DEF Inv, TypeOK, OptCell
<1>3. /\ cells' \in [Cell -> OptObject]
      /\ \A q \in Peer : outer'[q] # NoCell => cells'[outer'[q]] = cells[outer'[q]]
      /\ \A r \in Reader, q \in Peer :
            map[r][q] # NoCell => cells'[map[r][q]] = cells[map[r][q]]
    <2>1. /\ cells' \in [Cell -> OptObject]
          /\ \A c \in Cell :
                (\/ \E q \in Peer : outer'[q] = c
                 \/ \E r \in Reader, q \in Peer : map[r][q] = c)
                => cells'[c] = cells[c]
        BY <1>1 DEF Kept, Inv, TypeOK, OptObject
    <2>2. /\ \A q \in Peer : outer'[q] # NoCell => outer'[q] \in Cell
          /\ \A r \in Reader, q \in Peer :
                map[r][q] # NoCell => map[r][q] \in Cell
        BY <1>2 DEF Inv, TypeOK, OptCell
    <2> QED BY <2>1, <2>2
<1>4. /\ floor' \in [Reader -> [Peer -> OptGeneration]]
      /\ \A r \in Reader : floor'[r][p] = NoGen
      /\ \A r \in Reader, q \in Peer : q # p => floor'[r][q] = floor[r][q]
    <2>1. \A r \in Reader : floor[r] \in [Peer -> OptGeneration]
        BY DEF Inv, TypeOK
    <2> QED BY <1>1, <2>1 DEF OptGeneration
<1>5. TypeOK'
    <2>1. during' \in [Reader -> [Peer -> SUBSET OptObject]]
        BY <1>1, WitnessedFacts DEF Inv, OptObject
    <2>2. \A q \in Peer : outer'[q] # NoCell => cells'[outer'[q]] # NoObject
        BY <1>2, <1>3 DEF Inv, TypeOK
    <2>3. \A r \in Reader, q \in Peer :
              map[r][q] # NoCell => cells'[map[r][q]] # NoObject
        BY <1>3 DEF Inv, TypeOK
    <2>4. UNCHANGED <<clock, call, map, todo, got, now, stage, verdict, answer>>
        BY <1>1 DEF readerVars
    <2> QED BY <1>2, <1>3, <1>4, <2>1, <2>2, <2>3, <2>4 DEF Inv, TypeOK
<1>6. CellsAreOwned'
    BY <1>1, <1>2 DEF Inv, CellsAreOwned, readerVars
<1>7. HeldIsWitnessed'
    <2> SUFFICES ASSUME NEW r \in Reader, NEW q \in Peer
                 PROVE  /\ map[r][q] # NoCell => cells'[map[r][q]] \in during'[r][q]
                        /\ got[r][q] # NoObject => got[r][q] \in during'[r][q]
                        /\ call[r] = "Query" /\ map[r][q] = NoCell =>
                              NoObject \in during'[r][q]
        BY <1>1 DEF Inv, HeldIsWitnessed, readerVars
    <2>1. during[r][q] \subseteq during'[r][q]
        BY <1>1, WitnessedFacts DEF Inv, OptObject
    <2> QED BY <2>1, <1>3 DEF Inv, HeldIsWitnessed
<1>8. FloorIsBelow'
    BY <1>2, <1>3, <1>4 DEF Inv, FloorIsBelow
<1> QED BY <1>1, <1>2, <1>5, <1>6, <1>7, <1>8, SameAnswers DEF Inv

-----------------------------------------------------------------------------
\* The shard's writes keep the invariant.
LEMMA WriteStep == ASSUME Inv, Write PROVE Inv'
<1> USE DEF Object
<1>1. clock \in Nat /\ TypeOK
    BY DEF Inv, TypeOK
<1>2. \A entry \in Entry : Stamped(entry) \in Object /\ Stamped(entry).entry = entry
    BY <1>1 DEF Stamped
<1>3. \A p \in Peer :
          /\ EntryOf(p) \in OptEntry
          /\ outer[p] # NoCell => /\ EntryOf(p) = cells[outer[p]].entry
                                  /\ EntryOf(p) \in Entry
                                  /\ cells[outer[p]] \in Object
    BY <1>1, LiveCells DEF EntryOf, OptEntry
<1>4. InboundGeneration \subseteq Generation
    BY DEF InboundGeneration, Generation
<1>5. ASSUME NEW v \in View, UpdateOwnView(v) PROVE Inv'
    <2> DEFINE new == OwnEntry(NextAge(cells[outer[Me]].entry.gen), v)
    <2>1. cells[outer[Me]].entry.gen \in Generation
        BY <1>3 DEF Inv, Entry
    <2>2. /\ new \in Entry
          /\ Le(cells[outer[Me]].entry.gen, new.gen)
        BY <2>1, NextAgeAdvances DEF OwnEntry, Entry, OptGeneration, Le
    <2> QED BY <1>5, <2>2, <1>2, UpdateStep DEF UpdateOwnView
<1>6. ASSUME NEW p \in Peer \ {Me}, OnNodeJoined(p) PROVE Inv'
    BY <1>6, <1>2, PlaceholderEntry, InsertStep DEF OnNodeJoined
<1>7. ASSUME NEW p \in Peer \ {Me}, OnNodeLeft(p) PROVE Inv'
    BY <1>7, RemoveStep DEF OnNodeLeft
<1>8. ASSUME NEW p \in Peer \ {Me}, NEW gen \in InboundGeneration,
             MarkStaleBy(p, gen)
      PROVE  Inv'
    <2> DEFINE new == [cells[outer[p]] EXCEPT !.entry = MarkStale(@, gen)]
    <2>1. outer[p] # NoCell /\ Update(p, new)
        BY <1>8 DEF MarkStaleBy
    <2>2. cells[outer[p]] \in Object /\ cells[outer[p]].entry \in Entry
        BY <2>1, <1>3
    <2>3. /\ MarkStale(cells[outer[p]].entry, gen) \in Entry
          /\ MarkStale(cells[outer[p]].entry, gen).gen
                = cells[outer[p]].entry.gen
        BY <2>2, <1>4, StoredEntries DEF OptEntry, Entry
    <2>4. /\ new \in Object
          /\ new.entry = MarkStale(cells[outer[p]].entry, gen)
        BY <2>2, <2>3
    <2>5. Le(cells[outer[p]].entry.gen, new.entry.gen)
        BY <2>3, <2>4 DEF Le
    <2> QED BY <2>1, <2>4, <2>5, UpdateStep
<1>9. ASSUME NEW p \in Peer \ {Me}, NEW gen \in InboundGeneration,
             NEW v \in View, AcceptInboundSnapshot(p, gen, v)
      PROVE  Inv'
    <2> DEFINE new == AcceptSnapshot(EntryOf(p), gen, v)
    <2>1. /\ new \in Entry
          /\ EntryOf(p) # NoView => Le(EntryOf(p).gen, new.gen)
        BY <1>9, <1>3, <1>4, StoredEntries DEF AcceptInboundSnapshot
    <2>2. CASE Update(p, Stamped(new))
        <3>1. outer[p] # NoCell
            BY <2>2 DEF Update
        <3>2. EntryOf(p) # NoView
            BY <3>1, <1>3
        <3> QED BY <2>1, <2>2, <3>1, <3>2, <1>2, <1>3, UpdateStep
    <2>3. CASE InsertNode(p, Stamped(new))
        BY <2>1, <2>3, <1>2, InsertStep
    <2> QED BY <1>9, <2>2, <2>3 DEF AcceptInboundSnapshot, Upsert
<1>10. ASSUME NEW p \in Peer \ {Me}, NEW gen \in InboundGeneration,
              NEW v \in View, AcceptInboundDelta(p, gen, v)
       PROVE  Inv'
    <2> DEFINE new == AcceptDelta(EntryOf(p), gen, v)
    <2>1. /\ new \in Entry
          /\ Le(EntryOf(p).gen, new.gen)
        BY <1>10, <1>3, <1>4, StoredEntries DEF AcceptInboundDelta
    <2>2. outer[p] # NoCell /\ Update(p, Stamped(new))
        BY <1>10 DEF AcceptInboundDelta, Update
    <2> QED BY <2>1, <2>2, <1>2, <1>3, UpdateStep
<1> QED BY <1>5, <1>6, <1>7, <1>8, <1>9, <1>10 DEF Write

-----------------------------------------------------------------------------
\* The first load of a read (get, snapshot, stale_peers).
LEMMA BeginStep ==
    ASSUME Inv, NEW r \in Reader, NEW kind \in Calls,
           NEW wanted \in SUBSET Peer, kind = "Query" => wanted = Peer,
           Begin(r, kind, wanted)
    PROVE  Inv'
<1>1. /\ call' = [call EXCEPT ![r] = kind]
      /\ map' = [map EXCEPT ![r] =
                    [p \in Peer |-> IF p \in wanted THEN outer[p] ELSE NoCell]]
      /\ todo' = [todo EXCEPT ![r] = {p \in wanted : outer[p] # NoCell}]
      /\ during' = [during EXCEPT ![r] = [p \in Peer |-> {Current(p)}]]
      /\ UNCHANGED <<writerVars, clock, got, now, stage, verdict, answer, floor>>
      /\ call[r] = "none"
    BY DEF Begin
<1>2. \A p \in Peer : Current(p) \in OptObject
    BY DEF Current, Inv, TypeOK, OptObject, OptCell
<1>3. /\ map' \in [Reader -> [Peer -> OptCell]]
      /\ \A p \in Peer : map'[r][p] = IF p \in wanted THEN outer[p] ELSE NoCell
      /\ \A s \in Reader : s # r => map'[s] = map[s]
    BY <1>1 DEF Inv, TypeOK, OptCell
<1>4. /\ todo' \in [Reader -> SUBSET Peer]
      /\ todo'[r] = {p \in wanted : outer[p] # NoCell}
      /\ \A s \in Reader : s # r => todo'[s] = todo[s]
    BY <1>1 DEF Inv, TypeOK
<1>5. /\ during' \in [Reader -> [Peer -> SUBSET OptObject]]
      /\ \A p \in Peer : during'[r][p] = {Current(p)}
      /\ \A s \in Reader : s # r => during'[s] = during[s]
    BY <1>1, <1>2 DEF Inv, TypeOK
<1>6. /\ call' \in [Reader -> Calls \cup {"none"}]
      /\ call'[r] = kind
      /\ \A s \in Reader : s # r => call'[s] = call[s]
    BY <1>1 DEF Inv, TypeOK
<1>7. TypeOK'
    <2>1. \A s \in Reader, p \in Peer :
              map'[s][p] # NoCell => cells[map'[s][p]] # NoObject
        <3> SUFFICES ASSUME NEW s \in Reader, NEW p \in Peer, map'[s][p] # NoCell
                     PROVE  cells[map'[s][p]] # NoObject
            OBVIOUS
        <3>1. CASE s = r
            BY <3>1, <1>3 DEF Inv, TypeOK
        <3>2. CASE s # r
            BY <3>2, <1>3 DEF Inv, TypeOK
        <3> QED BY <3>1, <3>2
    <2> QED BY <1>1, <1>3, <1>4, <1>5, <1>6, <2>1 DEF Inv, TypeOK, writerVars
<1>8. CellsAreOwned'
    <2>1. UNCHANGED outer
        BY <1>1 DEF writerVars
    <2>2. \A s \in Reader, p \in Peer :
              \/ s # r /\ map'[s][p] = map[s][p]
              \/ s = r /\ map'[s][p] \in {outer[p], NoCell}
        BY <1>3
    <2> QED BY <2>1, <2>2 DEF Inv, CellsAreOwned
<1>9. HeldIsWitnessed'
    <2> SUFFICES ASSUME NEW s \in Reader, NEW p \in Peer
                 PROVE  HeldIsWitnessed!(s, p)'
        BY DEF HeldIsWitnessed
    <2>1. CASE s # r
        BY <2>1, <1>1, <1>3, <1>4, <1>5, <1>6
           DEF Inv, HeldIsWitnessed, writerVars
    <2>2. CASE s = r
        <3>1. got[r][p] = NoObject /\ got' = got /\ cells' = cells
            BY <1>1 DEF Inv, HeldIsWitnessed, writerVars
        <3>2. kind # "none"
            BY DEF Calls
        <3> QED BY <2>2, <3>1, <3>2, <1>3, <1>4, <1>5, <1>6 DEF Current
    <2> QED BY <2>1, <2>2
<1>10. FloorIsBelow'
    BY <1>1 DEF Inv, FloorIsBelow, writerVars
<1>11. AnswersAgree'
    <2> SUFFICES ASSUME NEW s \in Reader PROVE AnswersAgree!(s)'
        BY DEF AnswersAgree
    <2>1. StaleAmong(s)' = StaleAmong(s)
        BY <1>1 DEF StaleAmong
    <2>2. CASE s # r
        BY <2>1, <2>2, <1>1, <1>4, <1>6 DEF Inv, AnswersAgree
    <2>3. CASE s = r
        BY <2>3, <1>1 DEF Inv, AnswersAgree
    <2> QED BY <2>2, <2>3
<1> QED BY <1>1, <1>7, <1>8, <1>9, <1>10, <1>11 DEF Inv, writerVars

\* Reading the clock disturbs nothing: no verdict has been taken.
LEMMA TakeNowStep ==
    ASSUME Inv, NEW r \in Reader, TakeNow(r) PROVE Inv'
<1>1. TypeOK'
    BY DEF Inv, TypeOK, TakeNow, writerVars
<1>2. AnswersAgree'
    <2> SUFFICES ASSUME NEW s \in Reader PROVE AnswersAgree!(s)'
        BY DEF AnswersAgree
    <2>1. UNCHANGED <<call, todo, got, stage, verdict, answer>>
        BY DEF TakeNow
    <2>2. CASE s # r
        <3>1. now'[s] = now[s]
            BY <2>2 DEF TakeNow, Inv, TypeOK
        <3> QED BY <2>1, <3>1 DEF Inv, AnswersAgree, StaleAmong
    <2>3. CASE s = r
        BY <2>1, <2>3 DEF TakeNow, Inv, AnswersAgree
    <2> QED BY <2>2, <2>3
<1> QED BY <1>1, <1>2 DEF Inv, TakeNow, writerVars, CellsAreOwned,
                    HeldIsWitnessed, FloorIsBelow

\* The verdict of a query or of stale_peers is taken.
LEMMA CheckStep ==
    ASSUME Inv, NEW r \in Reader, CheckStaleness(r) PROVE Inv'
<1>1. /\ stage' = [stage EXCEPT ![r] = "checked"]
      /\ verdict' = [verdict EXCEPT ![r] = StaleAmong(r)]
      /\ UNCHANGED <<outer, cells, clock, call, map, todo, got, now, answer, during, floor>>
      /\ todo[r] = {} /\ now[r] # -1 /\ stage[r] = "loading"
    BY DEF CheckStaleness, writerVars
<1>2. StaleAmong(r) \in SUBSET Peer
    BY DEF StaleAmong
<1>3. TypeOK'
    BY <1>1, <1>2 DEF Inv, TypeOK, Stages
<1>4. AnswersAgree'
    <2> SUFFICES ASSUME NEW s \in Reader PROVE AnswersAgree!(s)'
        BY DEF AnswersAgree
    <2>1. StaleAmong(s)' = StaleAmong(s)
        BY <1>1 DEF StaleAmong
    <2>2. CASE s # r
        <3>1. stage'[s] = stage[s] /\ verdict'[s] = verdict[s]
            BY <1>1, <2>2 DEF Inv, TypeOK
        <3> QED BY <1>1, <2>1, <3>1 DEF Inv, AnswersAgree
    <2>3. CASE s = r
        <3>1. stage'[r] = "checked" /\ verdict'[r] = StaleAmong(r)
            BY <1>1 DEF Inv, TypeOK
        <3>2. call[r] # "none"
            BY DEF CheckStaleness
        <3> QED BY <1>1, <2>1, <2>3, <3>1, <3>2
    <2> QED BY <2>2, <2>3
<1> QED BY <1>1, <1>3, <1>4 DEF Inv, CellsAreOwned, HeldIsWitnessed, FloorIsBelow

\* The projection is given what the verdict was about.
LEMMA ProjectStep ==
    ASSUME Inv, NEW r \in Reader, Project(r) PROVE Inv'
<1>1. /\ stage' = [stage EXCEPT ![r] = "projected"]
      /\ answer' = [answer EXCEPT ![r] = got[r]]
      /\ UNCHANGED <<outer, cells, clock, call, map, todo, got, now, verdict, during, floor>>
      /\ stage[r] = "checked"
    BY DEF Project, writerVars
<1>2. got[r] \in [Peer -> OptObject]
    BY DEF Inv, TypeOK
<1>3. TypeOK'
    BY <1>1, <1>2 DEF Inv, TypeOK, Stages
<1>4. AnswersAgree'
    <2> SUFFICES ASSUME NEW s \in Reader PROVE AnswersAgree!(s)'
        BY DEF AnswersAgree
    <2>1. StaleAmong(s)' = StaleAmong(s)
        BY <1>1 DEF StaleAmong
    <2>2. CASE s # r
        <3>1. stage'[s] = stage[s] /\ answer'[s] = answer[s]
            BY <1>1, <2>2 DEF Inv, TypeOK
        <3> QED BY <1>1, <2>1, <3>1 DEF Inv, AnswersAgree
    <2>3. CASE s = r
        <3>1. stage'[r] = "projected" /\ answer'[r] = got[r]
            BY <1>1 DEF Inv, TypeOK
        <3> QED BY <1>1, <2>1, <2>3, <3>1 DEF Inv, AnswersAgree
    <2> QED BY <2>2, <2>3
<1> QED BY <1>1, <1>3, <1>4 DEF Inv, CellsAreOwned, HeldIsWitnessed, FloorIsBelow

\* The load of a cell returns an object its peer had during the call.
LEMMA LoadStep ==
    ASSUME Inv, NEW r \in Reader, NEW p \in Peer, LoadEntry(r, p)
    PROVE  Inv'
<1> DEFINE object == cells[map[r][p]]
<1>1. /\ p \in todo[r]
      /\ todo' = [todo EXCEPT ![r] = @ \ {p}]
      /\ got' = [got EXCEPT ![r][p] = object]
      /\ UNCHANGED <<writerVars, clock, call, map, now, stage, verdict, answer, during>>
    BY DEF LoadEntry
<1>2. /\ map[r][p] \in Cell
      /\ object \in Object
      /\ object \in during[r][p]
      /\ call[r] # "none"
    BY <1>1 DEF Inv, TypeOK, HeldIsWitnessed, OptCell, OptObject
<1>3. /\ got' \in [Reader -> [Peer -> OptObject]]
      /\ got'[r][p] = object
      /\ \A s \in Reader, q \in Peer : ~(s = r /\ q = p) => got'[s][q] = got[s][q]
    BY <1>1, <1>2 DEF Inv, TypeOK, OptObject
<1>4. /\ todo' \in [Reader -> SUBSET Peer]
      /\ todo'[r] = todo[r] \ {p}
      /\ \A s \in Reader : s # r => todo'[s] = todo[s]
    BY <1>1 DEF Inv, TypeOK
<1>5. /\ floor' \in [Reader -> [Peer -> OptGeneration]]
      /\ \A s \in Reader, q \in Peer :
            ~(s = r /\ q = p /\ map[r][p] = outer[p]) =>
                floor'[s][q] = floor[s][q]
      /\ map[r][p] = outer[p] => floor'[r][p] = object.entry.gen
    <2>1. object.entry.gen \in OptGeneration
        BY <1>2 DEF Object, Entry, OptGeneration
    <2> QED BY <2>1 DEF LoadEntry, Inv, TypeOK
<1>6. TypeOK'
    BY <1>1, <1>3, <1>4, <1>5 DEF Inv, TypeOK, writerVars
<1>7. HeldIsWitnessed'
    <2> SUFFICES ASSUME NEW s \in Reader, NEW q \in Peer
                 PROVE  HeldIsWitnessed!(s, q)'
        BY DEF HeldIsWitnessed
    <2>1. UNCHANGED <<call, map, cells, during>>
        BY <1>1 DEF writerVars
    <2>2. CASE s = r /\ q = p
        <3>1. map[r][p] # NoCell /\ object # NoObject
            BY <1>2
        <3> QED BY <2>1, <2>2, <3>1, <1>2, <1>3, <1>4
    <2>3. CASE ~(s = r /\ q = p)
        <3>1. got'[s][q] = got[s][q]
            BY <2>3, <1>3
        <3>2. /\ q \in todo'[s] <=> q \in todo[s]
              /\ todo[s] = {} => todo'[s] = {}
            BY <2>3, <1>4
        <3> QED BY <2>1, <3>1, <3>2 DEF Inv, HeldIsWitnessed
    <2> QED BY <2>2, <2>3
<1>8. FloorIsBelow'
    <2>1. UNCHANGED <<outer, cells>>
        BY <1>1 DEF writerVars
    <2> QED BY <2>1, <1>2, <1>5 DEF Inv, FloorIsBelow, Le
<1>9. AnswersAgree'
    <2> SUFFICES ASSUME NEW s \in Reader PROVE AnswersAgree!(s)'
        BY DEF AnswersAgree
    <2>1. CASE s # r
        <3>1. todo'[s] = todo[s] /\ got'[s] = got[s]
            BY <2>1, <1>1, <1>4 DEF Inv, TypeOK
        <3>2. StaleAmong(s)' = StaleAmong(s)
            BY <3>1, <1>1 DEF StaleAmong
        <3> QED BY <3>1, <3>2, <1>1 DEF Inv, AnswersAgree
    <2>2. CASE s = r
        BY <2>2, <1>1 DEF Inv, AnswersAgree
    <2> QED BY <2>1, <2>2
<1> QED BY <1>1, <1>6, <1>7, <1>8, <1>9 DEF Inv, writerVars, CellsAreOwned

\* A call that returns drops its map.
LEMMA ReturnStep ==
    ASSUME Inv, NEW r \in Reader, Return(r) PROVE Inv'
<1>1. /\ call' = [call EXCEPT ![r] = "none"]
      /\ map' = [map EXCEPT ![r] = [p \in Peer |-> NoCell]]
      /\ cells' = Kept(outer, map')
      /\ got' = [got EXCEPT ![r] = [p \in Peer |-> NoObject]]
      /\ now' = [now EXCEPT ![r] = -1]
      /\ stage' = [stage EXCEPT ![r] = "loading"]
      /\ verdict' = [verdict EXCEPT ![r] = {}]
      /\ answer' = [answer EXCEPT ![r] = [p \in Peer |-> NoObject]]
      /\ during' = [during EXCEPT ![r] = [p \in Peer |-> {}]]
      /\ UNCHANGED <<outer, clock, todo, floor>>
      /\ todo[r] = {}
    BY DEF Return, Answers, Nothing, Inv, AnswersAgree
<1>2. /\ map' \in [Reader -> [Peer -> OptCell]]
      /\ \A p \in Peer : map'[r][p] = NoCell
      /\ \A s \in Reader : s # r => map'[s] = map[s]
    BY <1>1 DEF Inv, TypeOK, OptCell
<1>3. /\ cells' \in [Cell -> OptObject]
      /\ \A q \in Peer : outer[q] # NoCell => cells'[outer[q]] = cells[outer[q]]
      /\ \A s \in Reader, q \in Peer :
            map'[s][q] # NoCell => cells'[map'[s][q]] = cells[map'[s][q]]
    <2>1. /\ cells' \in [Cell -> OptObject]
          /\ \A c \in Cell :
                (\/ \E q \in Peer : outer[q] = c
                 \/ \E s \in Reader, q \in Peer : map'[s][q] = c)
                => cells'[c] = cells[c]
        BY <1>1 DEF Kept, Inv, TypeOK, OptObject
    <2>2. /\ \A q \in Peer : outer[q] # NoCell => outer[q] \in Cell
          /\ \A s \in Reader, q \in Peer :
                map'[s][q] # NoCell => map'[s][q] \in Cell
        BY <1>2 DEF Inv, TypeOK, OptCell
    <2> QED BY <2>1, <2>2
<1>4. /\ call' \in [Reader -> Calls \cup {"none"}]
      /\ got' \in [Reader -> [Peer -> OptObject]]
      /\ now' \in [Reader -> Int]
      /\ stage' \in [Reader -> Stages]
      /\ verdict' \in [Reader -> SUBSET Peer]
      /\ answer' \in [Reader -> [Peer -> OptObject]]
      /\ during' \in [Reader -> [Peer -> SUBSET OptObject]]
    BY <1>1 DEF Inv, TypeOK, OptObject, Stages
<1>5. TypeOK'
    <2>1. \A s \in Reader, p \in Peer :
              map'[s][p] # NoCell => cells'[map'[s][p]] # NoObject
        <3> SUFFICES ASSUME NEW s \in Reader, NEW p \in Peer, map'[s][p] # NoCell
                     PROVE  cells'[map'[s][p]] # NoObject
            OBVIOUS
        <3>1. map'[s][p] = map[s][p]
            BY <1>2
        <3> QED BY <3>1, <1>3 DEF Inv, TypeOK
    <2>2. \A p \in Peer : outer'[p] # NoCell => cells'[outer'[p]] # NoObject
        BY <1>1, <1>3 DEF Inv, TypeOK
    <2> QED BY <1>1, <1>2, <1>3, <1>4, <2>1, <2>2 DEF Inv, TypeOK
<1>6. CellsAreOwned'
    BY <1>1, <1>2 DEF Inv, CellsAreOwned
<1>7. HeldIsWitnessed'
    <2> SUFFICES ASSUME NEW s \in Reader, NEW p \in Peer
                 PROVE  HeldIsWitnessed!(s, p)'
        BY DEF HeldIsWitnessed
    <2>1. CASE s # r
        <3>1. /\ call'[s] = call[s] /\ map'[s] = map[s] /\ got'[s] = got[s]
              /\ during'[s] = during[s] /\ todo'[s] = todo[s]
            BY <2>1, <1>1 DEF Inv, TypeOK
        <3>2. map[s][p] # NoCell => cells'[map[s][p]] = cells[map[s][p]]
            BY <3>1, <1>3
        <3> QED BY <3>1, <3>2 DEF Inv, HeldIsWitnessed
    <2>2. CASE s = r
        <3>1. /\ call'[s] = "none" /\ map'[s][p] = NoCell
              /\ got'[s][p] = NoObject /\ todo'[s] = {}
            BY <2>2, <1>1 DEF Inv, TypeOK
        <3> QED BY <3>1
    <2> QED BY <2>1, <2>2
<1>8. FloorIsBelow'
    BY <1>1, <1>3 DEF Inv, FloorIsBelow
<1>9. AnswersAgree'
    <2> SUFFICES ASSUME NEW s \in Reader PROVE AnswersAgree!(s)'
        BY DEF AnswersAgree
    <2>1. CASE s # r
        <3>1. /\ call'[s] = call[s] /\ todo'[s] = todo[s] /\ got'[s] = got[s]
              /\ now'[s] = now[s] /\ stage'[s] = stage[s]
              /\ verdict'[s] = verdict[s] /\ answer'[s] = answer[s]
            BY <2>1, <1>1 DEF Inv, TypeOK
        <3>2. StaleAmong(s)' = StaleAmong(s)
            BY <3>1 DEF StaleAmong
        <3> QED BY <3>1, <3>2 DEF Inv, AnswersAgree
    <2>2. CASE s = r
        <3>1. stage'[s] = "loading"
            BY <2>2, <1>1 DEF Inv, TypeOK
        <3> QED BY <3>1
    <2> QED BY <2>1, <2>2
<1> QED BY <1>1, <1>5, <1>6, <1>7, <1>8, <1>9 DEF Inv

-----------------------------------------------------------------------------
\* The invariant holds of a new view map.
LEMMA InvInit == ASSUME Init PROVE Inv
<1>1. PICK c \in Cell, v \in View :
          LET first == [entry |-> OwnEntry(NewGeneration(1, 0), v), synced |-> 0]
          IN  /\ outer = [p \in Peer |-> IF p = Me THEN c ELSE NoCell]
              /\ cells = [d \in Cell |-> IF d = c THEN first ELSE NoObject]
    BY DEF Init
<1>2. [entry |-> OwnEntry(NewGeneration(1, 0), v), synced |-> 0] \in Object
    BY DEF OwnEntry, NewGeneration, Object, Entry, Generation, OptGeneration
<1>3. /\ outer \in [Peer -> OptCell]
      /\ cells \in [Cell -> OptObject]
      /\ outer[Me] # NoCell
      /\ \A p \in Peer : outer[p] # NoCell => p = Me /\ cells[outer[p]] # NoObject
    BY <1>1, <1>2 DEF OptCell, OptObject
<1>4. TypeOK
    BY <1>3 DEF Init, TypeOK, OptCell, OptObject, OptGeneration, Nothing, Stages
<1>5. CellsAreOwned
    BY <1>3 DEF Init, CellsAreOwned
<1> QED BY <1>3, <1>4, <1>5 DEF Init, Inv, HeldIsWitnessed, FloorIsBelow, AnswersAgree, Nothing

\* Every step keeps the invariant.
LEMMA InvNext == ASSUME Inv, [Next]_vars PROVE Inv'
<1>1. CASE Write
    BY <1>1, WriteStep
<1>2. CASE Tick
    <2>1. TypeOK'
        BY <1>2 DEF Inv, TypeOK, Tick, writerVars, readerVars
    <2>2. AnswersAgree'
        BY <1>2, SameAnswers DEF Inv, Tick
    <2> QED BY <1>2, <2>1, <2>2 DEF Inv, Tick, writerVars, readerVars, CellsAreOwned,
                              HeldIsWitnessed, FloorIsBelow
<1>3. ASSUME NEW r \in Reader, BeginQuery(r) PROVE Inv'
    BY <1>3, BeginStep DEF BeginQuery, Calls
<1>4. ASSUME NEW r \in Reader, BeginStalePeers(r) PROVE Inv'
    BY <1>4, BeginStep DEF BeginStalePeers, Calls
<1>5. ASSUME NEW r \in Reader, NEW p \in Peer, BeginGet(r, p) PROVE Inv'
    BY <1>5, BeginStep DEF BeginGet, Calls
<1>6. CASE UNCHANGED vars
    <2>1. AnswersAgree'
        BY <1>6, SameAnswers DEF Inv, vars
    <2> QED BY <1>6, <2>1 DEF Inv, vars, readerVars, TypeOK, CellsAreOwned,
                              HeldIsWitnessed, FloorIsBelow, Current
<1> QED BY <1>1, <1>2, <1>3, <1>4, <1>5, <1>6, TakeNowStep, LoadStep, CheckStep,
           ProjectStep, ReturnStep DEF Next

\* The invariant is inductive.
THEOREM ViewMapInv == Spec => []Inv
<1> QED BY InvInit, InvNext, PTL DEF Spec

\* Type correctness, and no read ever follows a freed cell.
THEOREM ViewMapTypeOK == Spec => []TypeOK
<1>1. Inv => TypeOK
    BY DEF Inv
<1> QED BY <1>1, ViewMapInv, PTL

\* Every lock-free read is linearizable, entry by entry: what it returns for
\* a peer, that peer's entry was during the call.
THEOREM ReadsLinearizable == Spec => []ReadsAreCurrent
<1>1. Inv => ReadsAreCurrent
    <2> SUFFICES ASSUME Inv, NEW r \in Reader, NEW p \in Peer, call[r] # "none",
                        \/ got[r][p] # NoObject
                        \/ call[r] = "Query" /\ p \notin todo[r]
                 PROVE  got[r][p] \in during[r][p]
        BY DEF ReadsAreCurrent
    <2> QED BY DEF Inv, HeldIsWitnessed
<1> QED BY <1>1, ViewMapInv, PTL

\* A query reports stale exactly the peers whose views it projected were stale,
\* whatever is written between its loads, its check and its projection.
THEOREM VerdictSound == Spec => []VerdictMatchesProjection
<1>1. Inv => VerdictMatchesProjection
    <2> SUFFICES ASSUME Inv, NEW r \in Reader, stage[r] = "projected",
                        NEW p \in Peer \ {Me}
                 PROVE  p \in verdict[r] <=>
                            answer[r][p] # NoObject /\ IsStale(answer[r][p], now[r])
        BY DEF VerdictMatchesProjection
    <2>1. verdict[r] = StaleAmong(r) /\ answer[r] = got[r]
        BY DEF Inv, AnswersAgree
    <2> QED BY <2>1 DEF StaleAmong
<1> QED BY <1>1, ViewMapInv, PTL

\* A thread's reads of a peer that stays never go back.
THEOREM ReadsMonotonic == Spec => ReadsMoveForward
<1>1. ASSUME Inv, [Next]_vars
      PROVE  [\A r \in Reader, p \in Peer :
                 /\ p \in todo[r] \ todo'[r]
                 /\ map[r][p] = outer[p]
                 /\ floor[r][p] # NoGen
                 => Le(floor[r][p], got'[r][p].entry.gen)]_vars
    <2> SUFFICES ASSUME NEW r \in Reader, NEW p \in Peer,
                        p \in todo[r] \ todo'[r], map[r][p] = outer[p],
                        floor[r][p] # NoGen
                 PROVE  Le(floor[r][p], got'[r][p].entry.gen)
        OBVIOUS
    <2>1. Le(floor[r][p], cells[outer[p]].entry.gen)
        BY <1>1 DEF Inv, FloorIsBelow
    <2>2. got'[r][p] = cells[map[r][p]]
        <3>1. todo' # todo
            OBVIOUS
        <3>2. ~Write /\ ~Tick
            BY <3>1 DEF Write, Tick, readerVars, UpdateOwnView, OnNodeJoined,
               OnNodeLeft, MarkStaleBy, AcceptInboundSnapshot,
               AcceptInboundDelta, Upsert, Update, InsertNode, RemoveNode
        <3>3. PICK s \in Reader :
                  \/ \E kind \in Calls, wanted \in SUBSET Peer :
                        Begin(s, kind, wanted)
                  \/ \E q \in Peer : LoadEntry(s, q)
            BY <1>1, <3>1, <3>2 DEF Next, vars, readerVars, TakeNow, CheckStaleness, Project,
               Return, BeginQuery, BeginStalePeers, BeginGet, Calls
        <3>4. ~ \E kind \in Calls, wanted \in SUBSET Peer : Begin(s, kind, wanted)
            <4> SUFFICES ASSUME NEW kind, NEW wanted, Begin(s, kind, wanted)
                         PROVE  FALSE
                OBVIOUS
            <4>1. todo \in [Reader -> SUBSET Peer] /\ todo[s] = {}
                BY <1>1 DEF Begin, Inv, HeldIsWitnessed, TypeOK
            <4>2. r # s => todo'[r] = todo[r]
                BY <4>1 DEF Begin
            <4> QED BY <4>1, <4>2
        <3>5. PICK q \in Peer : LoadEntry(s, q)
            BY <3>3, <3>4
        <3>6. s = r /\ q = p
            BY <1>1, <3>5 DEF LoadEntry, Inv, TypeOK
        <3> QED BY <1>1, <3>5, <3>6 DEF LoadEntry, Inv, TypeOK
    <2> QED BY <2>1, <2>2
<1> QED BY <1>1, ViewMapInv, PTL DEF ReadsMoveForward, Spec

=============================================================================
