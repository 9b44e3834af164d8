------------------------- MODULE StateClusterProofs -------------------------
(***************************************************************************)
(* Safety of StateCluster for every set of nodes, every application data   *)
(* type obeying the delta law, every strategy, version table and network,  *)
(* and every bound.                                                        *)
(*                                                                         *)
(* Then the engine and its pure parts.                                     *)
(* The actors of StateCluster and the functions of module Engine, which    *)
(* the harness runs, are one engine: every step of an actor is a call of a *)
(* method, with the same outcome and the same messages.                    *)
(*                                                                         *)
(* The ranks of health_status mean what the comment on them says, for any  *)
(* number of peers and despite the integer division and the peers counted  *)
(* twice.                                                                  *)
(***************************************************************************)
EXTENDS StateCluster, GenerationsProofs, Diagnostics, FiniteSetTheorems

-----------------------------------------------------------------------------
(* What the entry operators of ShardCore return.                           *)

\* accept_inbound_snapshot leaves a well-formed entry.
LEMMA AcceptSnapshotType ==
    \A e \in OptEntry, g \in Generation, v \in View :
        AcceptSnapshot(e, g, v) \in OptEntry
BY NoGenAssumption
   DEF AcceptSnapshot, SnapshotAccepted, Updated, KeptPending, OptEntry, Entry,
       OptGeneration

\* accept_inbound_delta leaves a well-formed entry.
LEMMA AcceptDeltaType ==
    \A e \in OptEntry, g \in Generation, v \in View :
        AcceptDelta(e, g, v) \in OptEntry
BY NoGenAssumption
   DEF AcceptDelta, Updated, KeptPending, OptEntry, Entry, OptGeneration

\* mark_stale leaves a well-formed entry.
LEMMA MarkStaleType ==
    \A e \in OptEntry, g \in Generation : MarkStale(e, g) \in OptEntry
BY DEF MarkStale, OptEntry, Entry, OptGeneration

\* on_node_joined leaves a well-formed entry.
LEMMA PlaceholderType ==
    \A e \in OptEntry, v \in View : InsertPlaceholder(e, v) \in Entry
BY DEF InsertPlaceholder, Placeholder, PlaceholderPending, OptEntry, Entry,
       OptGeneration, Generation, Zero, NewGeneration

\* update_own_view stores a well-formed entry.
LEMMA OwnEntryType ==
    \A g \in Generation, v \in View : OwnEntry(g, v) \in Entry
BY DEF OwnEntry, Entry, OptGeneration

-----------------------------------------------------------------------------
(* Types, with what they rest on: the own view exists because it is always *)
(* current, and no node receives a message of its own.                     *)

Addressed ==
    /\ \A n \in Node : \A b \in scheduled[n] : b.src = n
    /\ \A x \in msgs : x.body.src # x.dst

TypeInv == TypeOK /\ OwnViewCurrent /\ Addressed

Body == SyncBody \cup RequestSnapshotBody \cup FeedBody

\* route_actions produces messages to others, carrying the sender's body.
LEMMA SendType ==
    ASSUME TypeOK, NEW n \in Node, NEW T, NEW b \in Body, b.src = n
    PROVE  /\ Send(n, T, b) \subseteq Message
           /\ \A x \in Send(n, T, b) : x.body = b /\ x.body.src # x.dst
BY DEF Send, Message, Body, TypeOK

\* broadcasts likewise.
LEMMA BroadcastType ==
    ASSUME TypeOK, NEW n \in Node, NEW b \in Body, b.src = n
    PROVE  /\ Broadcast(n, b) \subseteq Message
           /\ \A x \in Broadcast(n, b) : x.body = b /\ x.body.src # x.dst
BY SendType DEF Broadcast

\* A snapshot made by a node is a well-formed body of that node.
LEMMA FullSnapshotType ==
    ASSUME TypeOK, NEW n \in Node, NEW g \in Generation, NEW v \in View
    PROVE  /\ FullSnapshot(n, g, v) \in FullSnapshotBody
           /\ FullSnapshot(n, g, v).src = n
BY DEF FullSnapshot, FullSnapshotBody, TypeOK

\* A delta made by a node is a well-formed body of that node.
LEMMA DeltaUpdateType ==
    ASSUME TypeOK, NEW n \in Node, NEW g \in Generation, NEW d \in Delta
    PROVE  /\ DeltaUpdate(n, g, d) \in DeltaUpdateBody
           /\ DeltaUpdate(n, g, d).src = n
BY DEF DeltaUpdate, DeltaUpdateBody, TypeOK

\* So is the snapshot the other handlers send.
LEMMA OwnSnapshotType ==
    ASSUME TypeInv, NEW n \in Node
    PROVE  /\ OwnSnapshot(n) \in FullSnapshotBody
           /\ OwnSnapshot(n).src = n
<1>1. state[n].gen \in Generation /\ state[n].value \in State
    BY DEF TypeInv, TypeOK
<1>2. views[n][n].value \in View
    <2>1. views[n][n] = OwnEntry(state[n].gen, Project(state[n].value))
        BY DEF TypeInv, OwnViewCurrent
    <2>2. Project(state[n].value) \in View
        BY <1>1, DataAssumption DEF DataAssumption
    <2> QED BY <2>1, <2>2 DEF OwnEntry
<1> QED BY <1>1, <1>2, FullSnapshotType DEF OwnSnapshot, TypeInv

\* Delivering a message adds none.
LEMMA RemainingSubset == \A x : Remaining(x) \subseteq msgs
BY DEF Remaining

\* A node starts with its own view only, and that one current.
LEMMA FirstViewsType ==
    ASSUME NEW n \in Node, NEW g \in Generation
    PROVE  /\ FirstViews(n, g) \in [Node -> OptEntry]
           /\ FirstViews(n, g)[n] = OwnEntry(g, Project(InitState))
BY OwnEntryType, DataAssumption DEF FirstViews, OptEntry, DataAssumption

\* Every initial state is well typed.
LEMMA TypeInit == Init => TypeInv
<1> SUFFICES ASSUME Init PROVE TypeInv
    OBVIOUS
<1>1. FirstGen \in Generation
    BY DEF FirstGen, NewGeneration, Generation
<1>2. TypeOK
    <2>1. state \in [Node -> [gen : Generation, value : State]]
        BY <1>1, DataAssumption DEF Init, DataAssumption
    <2>2. views \in [Node -> [Node -> OptEntry]]
        BY <1>1, FirstViewsType DEF Init
    <2>3. hist \subseteq [node : Node, gen : Generation, wire : WireVersion, view : View]
        BY <1>1, DataAssumption DEF Init, DataAssumption, Published
    <2>4. events \in [Node -> SUBSET MembershipEvent]
        BY DEF Init, Joined, MembershipEvent
    <2>5. diag \in [Node -> [Node -> DiagStatus]]
        BY DEF Init, DiagStatus
    <2> QED BY <2>1, <2>2, <2>3, <2>4, <2>5 DEF Init, TypeOK, OptGeneration
<1>3. OwnViewCurrent
    BY <1>1, FirstViewsType DEF Init, OwnViewCurrent
<1>4. Addressed
    BY DEF Init, Addressed
<1> QED BY <1>2, <1>3, <1>4 DEF TypeInv

\* A mutation keeps the types: what it stores and what it sends.
LEMMA MutationType ==
    ASSUME TypeInv, NEW n \in Node, NEW v \in State, NEW act,
           NEW b \in SyncBody, b.src = n,
           ApplyMutation(n, NextAge(state[n].gen), v),
           Perform(n, act, NextAge(state[n].gen), b),
           UNCHANGED <<wire, departed, diag, hostVars>>
    PROVE  TypeInv'
<1> DEFINE g == NextAge(state[n].gen)
<1>1. g \in Generation
    BY NextAgeAdvances DEF TypeInv, TypeOK
<1>2. Project(v) \in View
    BY DataAssumption DEF DataAssumption
<1>3. state' \in [Node -> [gen : Generation, value : State]]
    BY <1>1 DEF ApplyMutation, TypeInv, TypeOK
<1>4. views' \in [Node -> [Node -> OptEntry]]
    <2>1. OwnEntry(g, Project(v)) \in OptEntry
        BY <1>1, <1>2, OwnEntryType DEF OptEntry
    <2> QED BY <2>1 DEF ApplyMutation, TypeInv, TypeOK
<1>5. hist' \subseteq [node : Node, gen : Generation, wire : WireVersion, view : View]
    BY <1>1, <1>2 DEF ApplyMutation, Published, TypeInv, TypeOK
<1>6. feed' \in [Node -> OptGeneration]
    BY <1>1 DEF Perform, NotifyChange, OptGeneration, TypeInv, TypeOK
<1>7. scheduled' \in [Node -> SUBSET SyncBody]
    BY DEF Perform, TypeInv, TypeOK
<1>8. msgs' \subseteq Message
    BY BroadcastType DEF Perform, Body, TypeInv, TypeOK
<1>9. TypeOK'
    BY <1>3, <1>4, <1>5, <1>6, <1>7, <1>8 DEF hostVars, TypeInv, TypeOK
<1>10. OwnViewCurrent'
    BY <1>1 DEF ApplyMutation, OwnViewCurrent, TypeInv, TypeOK
<1>11. Addressed'
    <2>1. \A m \in Node : \A c \in scheduled'[m] : c.src = m
        BY DEF Perform, Addressed, TypeInv, TypeOK
    <2>2. \A x \in msgs' : x.body.src # x.dst
        BY BroadcastType DEF Perform, Addressed, Body, TypeInv
    <2> QED BY <2>1, <2>2 DEF Addressed
<1> QED BY <1>9, <1>10, <1>11 DEF TypeInv

\* A step that only exchanges messages keeps the types.
LEMMA ExchangeType ==
    ASSUME TypeInv, NEW n \in Node, NEW T, NEW b \in Body, b.src = n,
           msgs' \subseteq msgs \cup Send(n, T, b),
           UNCHANGED <<engineVars, shardVars, hostVars>>
    PROVE  TypeInv'
<1>1. TypeOK /\ OwnViewCurrent /\ Addressed
    BY DEF TypeInv
<1>2. msgs' \subseteq Message
    BY <1>1, SendType DEF TypeOK
<1>3. TypeOK'
    BY <1>1, <1>2 DEF engineVars, shardVars, hostVars, TypeOK
<1>4. OwnViewCurrent'
    BY <1>1 DEF shardVars, OwnViewCurrent
<1>5. \A x \in msgs' : x.body.src # x.dst
    BY <1>1, SendType DEF Addressed
<1>6. Addressed'
    BY <1>1, <1>5 DEF engineVars, Addressed
<1> QED BY <1>3, <1>4, <1>6 DEF TypeInv

\* A step in which n changes its entry of another node p, or its record of p,
\* keeps the types.
LEMMA EntryType ==
    ASSUME TypeInv, NEW n \in Node, NEW p \in Node, n # p,
           NEW e \in OptEntry, NEW s \in DiagStatus,
           views' = views \/ views' = [views EXCEPT ![n][p] = e],
           diag' = diag \/ diag' = [diag EXCEPT ![n][p] = s],
           msgs' \subseteq msgs,
           UNCHANGED <<state, hist, wire, departed, feed, scheduled, hostVars>>
    PROVE  TypeInv'
<1>1. TypeOK /\ OwnViewCurrent /\ Addressed
    BY DEF TypeInv
<1> DEFINE W == [views EXCEPT ![n][p] = e]
           D == [diag EXCEPT ![n][p] = s]
<1>2. views' \in [Node -> [Node -> OptEntry]]
    <2>1. W \in [Node -> [Node -> OptEntry]]
        BY <1>1 DEF TypeOK
    <2> QED BY <1>1, <2>1 DEF TypeOK
<1>3. diag' \in [Node -> [Node -> DiagStatus]]
    <2>1. D \in [Node -> [Node -> DiagStatus]]
        BY <1>1 DEF TypeOK
    <2> QED BY <1>1, <2>1 DEF TypeOK
<1>4. TypeOK'
    BY <1>1, <1>2, <1>3 DEF hostVars, TypeOK
<1>5. OwnViewCurrent'
    <2>1. \A m \in Node : W[m][m] = views[m][m]
        BY <1>1 DEF TypeOK
    <2> QED BY <1>1, <2>1 DEF OwnViewCurrent
<1>6. Addressed'
    BY <1>1 DEF Addressed
<1> QED BY <1>4, <1>5, <1>6 DEF TypeInv

\* A step that records something about a peer and asks it for a snapshot keeps
\* the types.
LEMMA DiagnosedType ==
    ASSUME TypeInv, NEW n \in Node, NEW T, NEW b \in Body, b.src = n,
           diag' \in [Node -> [Node -> DiagStatus]],
           msgs' \subseteq msgs \cup Send(n, T, b),
           UNCHANGED <<wire, departed, feed, scheduled, shardVars, hostVars>>
    PROVE  TypeInv'
<1>1. TypeOK /\ OwnViewCurrent /\ Addressed
    BY DEF TypeInv
<1>2. msgs' \subseteq Message
    BY <1>1, SendType DEF TypeOK
<1>3. TypeOK'
    BY <1>1, <1>2 DEF shardVars, hostVars, TypeOK
<1>4. OwnViewCurrent'
    BY <1>1 DEF shardVars, OwnViewCurrent
<1>5. \A x \in msgs' : x.body.src # x.dst
    BY <1>1, SendType DEF Addressed
<1>6. Addressed'
    BY <1>1, <1>5 DEF Addressed
<1> QED BY <1>3, <1>4, <1>6 DEF TypeInv

\* The bodies of requests and feeds are well formed.
LEMMA RequestType ==
    ASSUME NEW n \in Node
    PROVE  RequestSnapshot(n) \in Body /\ RequestSnapshot(n).src = n
BY DEF RequestSnapshot, RequestSnapshotBody, Body

\* A restarted node is well typed, with a current own view.
LEMMA RestartType ==
    ASSUME TypeInv, NEW n \in Node, Restart(n)
    PROVE  TypeInv'
<1>1. TypeOK /\ OwnViewCurrent /\ Addressed
    BY DEF TypeInv
<1>2. PICK inc \in (state[n].gen.inc + 1) .. MaxInc, w \in WireVersion :
        LET gen == NewGeneration(Lifetime(n, inc), 0) IN
        /\ wire' = [wire EXCEPT ![n] = w]
        /\ state' = [state EXCEPT ![n] = [gen |-> gen, value |-> InitState]]
        /\ views' = [views EXCEPT ![n] = FirstViews(n, gen)]
        /\ hist' = hist \cup {Published(n, gen, w, Project(InitState))}
    BY DEF Restart
<1> DEFINE g == NewGeneration(Lifetime(n, inc), 0)
<1>3. g \in Generation
    <2>1. state[n].gen.inc \in Nat
        BY <1>1 DEF TypeOK, Generation
    <2>2. inc \in Nat
        BY <1>2, <2>1
    <2> QED BY <2>2 DEF NewGeneration, Lifetime, Generation
<1> HIDE DEF g
<1>4. state' \in [Node -> [gen : Generation, value : State]]
    BY <1>1, <1>2, <1>3, DataAssumption DEF TypeOK, DataAssumption, g
<1>5. /\ FirstViews(n, g) \in [Node -> OptEntry]
      /\ FirstViews(n, g)[n] = OwnEntry(g, Project(InitState))
    BY <1>3, FirstViewsType
<1>6. views' \in [Node -> [Node -> OptEntry]]
    BY <1>1, <1>2, <1>5 DEF TypeOK, g
<1>7. hist' \subseteq [node : Node, gen : Generation, wire : WireVersion, view : View]
    <2>1. Project(InitState) \in View
        BY DataAssumption DEF DataAssumption
    <2>2. Published(n, g, w, Project(InitState))
             \in [node : Node, gen : Generation, wire : WireVersion, view : View]
        BY <1>2, <1>3, <2>1 DEF Published
    <2> QED BY <1>1, <1>2, <2>2 DEF TypeOK, g
<1>8. events' \in [Node -> SUBSET MembershipEvent]
    <2>1. \A q \in Node : Joined(q) \in MembershipEvent
        BY DEF Joined, MembershipEvent
    <2> QED BY <1>1, <2>1 DEF Restart, TypeOK
<1>9. wire' \in [Node -> WireVersion]
    BY <1>1, <1>2 DEF TypeOK
<1>10. diag' \in [Node -> [Node -> DiagStatus]]
    <2>1. [p \in Node |-> "none"] \in [Node -> DiagStatus]
        BY DEF DiagStatus
    <2> QED BY <1>1, <2>1 DEF Restart, TypeOK
<1>11. TypeOK'
    BY <1>1, <1>4, <1>6, <1>7, <1>8, <1>9, <1>10 DEF Restart, TypeOK, OptGeneration
<1>12. OwnViewCurrent'
    BY <1>1, <1>2, <1>5 DEF OwnViewCurrent, TypeOK, g
<1>13. Addressed'
    BY <1>1 DEF Restart, Addressed
<1> QED BY <1>11, <1>12, <1>13 DEF TypeInv

\* A received message keeps the types, whatever the handler does with it.
LEMMA ReceiveTypeInv ==
    ASSUME TypeInv, NEW n \in Node, NEW x \in msgs, Receive(n, x)
    PROVE  TypeInv'
<1>1. TypeOK /\ OwnViewCurrent /\ Addressed
    BY DEF TypeInv
<1> DEFINE p == x.body.src
<1>2. x \in Message /\ x.body \in Body /\ p # x.dst
    BY <1>1 DEF TypeOK, Addressed, Message, Body
<1>3. p \in Node
    BY <1>2 DEF Body, SyncBody, FullSnapshotBody, DeltaUpdateBody,
            RequestSnapshotBody, FeedBody
<1>4. views[n][p] \in OptEntry /\ diag[n][p] \in DiagStatus
    BY <1>1, <1>3 DEF TypeOK
<1>5. /\ x.body.type = "FullSnapshot" => x.body \in FullSnapshotBody
      /\ x.body.type = "DeltaUpdate" => x.body \in DeltaUpdateBody
      /\ x.body.type = "Feed" => x.body \in FeedBody
    BY <1>2 DEF Body, SyncBody, FullSnapshotBody, DeltaUpdateBody,
            RequestSnapshotBody, FeedBody
<1>6. Remaining(x) \subseteq msgs
    BY RemainingSubset
<1>7. {"ok", "failing", "none"} \subseteq DiagStatus
    BY DEF DiagStatus
<1>8. RequestSnapshot(n) \in Body /\ RequestSnapshot(n).src = n
    BY RequestType
<1> DEFINE Exchange(T, b) == /\ msgs' \subseteq msgs \cup Send(n, T, b)
                             /\ UNCHANGED <<engineVars, shardVars, hostVars>>
<1>9. CASE IgnoreDeparted(n, x)
    <2>1. Exchange({}, RequestSnapshot(n))
        BY <1>6, <1>9 DEF IgnoreDeparted
    <2> QED BY <1>8, <2>1, ExchangeType
<1>10. CASE HandleFullSnapshot(n, x)
    <2> DEFINE e == AcceptSnapshot(views[n][p], x.body.gen, x.body.data)
    <2>1. n # p /\ x.body \in FullSnapshotBody
        BY <1>2, <1>5, <1>10 DEF HandleFullSnapshot, Takes
    <2>2. e \in OptEntry
        BY <1>4, <2>1, AcceptSnapshotType DEF FullSnapshotBody
    <2>3. views' = [views EXCEPT ![n][p] = e]
        BY <1>10 DEF HandleFullSnapshot
    <2>4. diag' = diag \/ diag' = [diag EXCEPT ![n][p] = "ok"]
        BY <1>10 DEF HandleFullSnapshot, Recorded
    <2>5. /\ msgs' \subseteq msgs
          /\ UNCHANGED <<state, hist, wire, departed, feed, scheduled, hostVars>>
        BY <1>6, <1>10 DEF HandleFullSnapshot
    <2> HIDE DEF e, p
    <2> QED BY <1>3, <1>7, <2>1, <2>2, <2>3, <2>4, <2>5, EntryType
<1>11. CASE RejectFullSnapshot(n, x)
    <2>1. n # p
        BY <1>2, <1>11 DEF RejectFullSnapshot, Takes
    <2>2. views' = views \/ views' = [views EXCEPT ![n][p] = NoView]
        BY <1>11, <2>1 DEF RejectFullSnapshot, ViewRemoved
    <2>3. diag' = [diag EXCEPT ![n][p] = "failing"]
        BY <1>11 DEF RejectFullSnapshot, Recorded
    <2>4. /\ msgs' \subseteq msgs
          /\ UNCHANGED <<state, hist, wire, departed, feed, scheduled, hostVars>>
        BY <1>6, <1>11 DEF RejectFullSnapshot
    <2>5. NoView \in OptEntry
        BY DEF OptEntry
    <2> HIDE DEF p
    <2> QED BY <1>3, <1>7, <2>1, <2>2, <2>3, <2>4, <2>5, EntryType
<1>12. CASE RejectDeltaVersion(n, x)
    <2>1. n # p
        BY <1>2, <1>12 DEF RejectDeltaVersion, Takes
    <2>2. views' = views \/ views' = [views EXCEPT ![n][p] = NoView]
        BY <1>12, <2>1 DEF RejectDeltaVersion, ViewRemoved
    <2>3. diag' = [diag EXCEPT ![n][p] = "failing"]
        BY <1>12 DEF RejectDeltaVersion, Recorded
    <2>4. /\ msgs' \subseteq msgs
          /\ UNCHANGED <<state, hist, wire, departed, feed, scheduled, hostVars>>
        BY <1>6, <1>12 DEF RejectDeltaVersion
    <2>5. NoView \in OptEntry
        BY DEF OptEntry
    <2> HIDE DEF p
    <2> QED BY <1>3, <1>7, <2>1, <2>2, <2>3, <2>4, <2>5, EntryType
<1>13. CASE RequestInsteadOfDelta(n, x)
    <2>1. Exchange({p}, RequestSnapshot(n))
        BY <1>6, <1>13 DEF RequestInsteadOfDelta
    <2> QED BY <1>8, <2>1, ExchangeType
<1>14. CASE DiscardStaleDelta(n, x)
    <2>1. Exchange({}, RequestSnapshot(n))
        BY <1>6, <1>14 DEF DiscardStaleDelta
    <2> QED BY <1>8, <2>1, ExchangeType
<1>15. CASE RequestAfterGap(n, x)
    <2>1. diag' \in [Node -> [Node -> DiagStatus]]
        BY <1>1, <1>3, <1>4, <1>7, <1>15 DEF RequestAfterGap, GapRecorded, TypeOK
    <2> QED BY <1>6, <1>8, <1>15, <2>1, DiagnosedType DEF RequestAfterGap
<1>16. CASE RequestAfterDamage(n, x)
    <2>1. diag' \in [Node -> [Node -> DiagStatus]]
        BY <1>1, <1>3, <1>7, <1>16 DEF RequestAfterDamage, Recorded, TypeOK
    <2> QED BY <1>6, <1>8, <1>16, <2>1, DiagnosedType DEF RequestAfterDamage
<1>17. CASE ApplyDeltaUpdate(n, x)
    <2> DEFINE v == ApplyDelta(views[n][p].value, x.body.data)
               e == AcceptDelta(views[n][p], x.body.gen, v)
    <2>1. n # p /\ x.body \in DeltaUpdateBody /\ views[n][p] # NoView
        BY <1>2, <1>5, <1>17 DEF ApplyDeltaUpdate, ReadableDelta, Takes
    <2>2. v \in View
        BY <1>4, <2>1, DataAssumption
           DEF DeltaUpdateBody, OptEntry, Entry, DataAssumption
    <2>3. e \in OptEntry
        BY <1>4, <2>1, <2>2, AcceptDeltaType DEF DeltaUpdateBody
    <2>4. views' = [views EXCEPT ![n][p] = e]
        BY <1>1, <1>3, <1>17 DEF ApplyDeltaUpdate, TypeOK
    <2>5. diag' = [diag EXCEPT ![n][p] = "ok"]
        BY <1>17 DEF ApplyDeltaUpdate, Recorded
    <2>6. /\ msgs' \subseteq msgs
          /\ UNCHANGED <<state, hist, wire, departed, feed, scheduled, hostVars>>
        BY <1>6, <1>17 DEF ApplyDeltaUpdate
    <2> HIDE DEF v, e, p
    <2> QED BY <1>3, <1>7, <2>1, <2>3, <2>4, <2>5, <2>6, EntryType
<1>18. CASE HandleRequestSnapshot(n, x)
    <2>1. OwnSnapshot(n) \in Body /\ OwnSnapshot(n).src = n
        BY OwnSnapshotType DEF Body, SyncBody
    <2>2. Exchange({p}, OwnSnapshot(n))
        BY <1>6, <1>18 DEF HandleRequestSnapshot
    <2> QED BY <2>1, <2>2, ExchangeType
<1>19. CASE HandleChangeFeed(n, x)
    <2> DEFINE e == MarkStale(views[n][p], x.body.gen)
    <2>1. n # p /\ x.body \in FeedBody
        BY <1>2, <1>5, <1>19 DEF HandleChangeFeed, Takes
    <2>2. e \in OptEntry
        BY <1>4, <2>1, MarkStaleType DEF FeedBody
    <2>3. views' = [views EXCEPT ![n][p] = e]
        BY <1>19 DEF HandleChangeFeed
    <2>4. /\ msgs' \subseteq msgs /\ diag' = diag
          /\ UNCHANGED <<state, hist, wire, departed, feed, scheduled, hostVars>>
        BY <1>6, <1>19 DEF HandleChangeFeed, engineVars
    <2> HIDE DEF e, p
    <2> QED BY <1>3, <1>7, <2>1, <2>2, <2>3, <2>4, EntryType
<1> QED BY <1>9, <1>10, <1>11, <1>12, <1>13, <1>14, <1>15, <1>16, <1>17,
           <1>18, <1>19 DEF Receive

\* Every step keeps the types.
LEMMA TypeNext == TypeInv /\ [Next]_vars => TypeInv'
<1> SUFFICES ASSUME TypeInv, [Next]_vars PROVE TypeInv'
    OBVIOUS
<1>1. TypeOK /\ OwnViewCurrent /\ Addressed
    BY DEF TypeInv
<1>2. ASSUME NEW n \in Node, Crash(n)
      PROVE  TypeInv'
    <2>1. events' \in [Node -> SUBSET MembershipEvent]
        BY <1>1, <1>2 DEF Crash, Superseded, Left, MembershipEvent, TypeOK
    <2>2. TypeOK'
        BY <1>1, <1>2, <2>1 DEF Crash, shardVars, TypeOK
    <2>3. OwnViewCurrent'
        BY <1>1, <1>2 DEF Crash, shardVars, OwnViewCurrent
    <2>4. Addressed'
        BY <1>1, <1>2 DEF Crash, Addressed, TypeOK
    <2> QED BY <2>2, <2>3, <2>4 DEF TypeInv
<1>3. ASSUME NEW n \in Node, Restart(n)
      PROVE  TypeInv'
    BY <1>3, RestartType
<1>4. ASSUME NEW n \in Node, NEW c \in Change, NEW u \in Urgency,
             Mutate(n, c, u) \/ MutateWithDelta(n, c, u)
      PROVE  TypeInv'
    <2> DEFINE g == NextAge(state[n].gen)
               v == ApplyChange(state[n].value, c)
               d == ViewDelta(state[n].value, c)
    <2>1. g \in Generation /\ v \in State /\ d \in Delta /\ Project(v) \in View
        BY <1>1, NextAgeAdvances, DataAssumption DEF TypeOK, DataAssumption
    <2>2. /\ FullSnapshot(n, g, Project(v)) \in SyncBody
          /\ FullSnapshot(n, g, Project(v)).src = n
          /\ DeltaUpdate(n, g, d) \in SyncBody
          /\ DeltaUpdate(n, g, d).src = n
        BY <1>1, <2>1, FullSnapshotType, DeltaUpdateType DEF SyncBody
    <2>3. PICK b \in SyncBody, act \in {ResolveAction(u)} :
             /\ b.src = n
             /\ ApplyMutation(n, g, v)
             /\ Perform(n, act, g, b)
             /\ UNCHANGED <<wire, departed, diag, hostVars>>
        BY <1>4, <2>2 DEF Mutate, MutateWithDelta, MutateBody, MutateWithDeltaBody
    <2> HIDE DEF v
    <2> QED BY <2>1, <2>3, MutationType
<1>5. ASSUME NEW n \in Node, FireDelayed(n)
      PROVE  TypeInv'
    <2>1. PICK b \in scheduled[n] :
             /\ msgs' = msgs \cup Broadcast(n, b)
             /\ scheduled' = [scheduled EXCEPT ![n] = @ \ {b}]
        BY <1>5 DEF FireDelayed
    <2>2. b \in Body /\ b.src = n
        BY <1>1 DEF TypeOK, Addressed, Body
    <2>3. msgs' \subseteq Message /\ \A x \in msgs' : x.body.src # x.dst
        BY <1>1, <2>1, <2>2, BroadcastType DEF TypeOK, Addressed
    <2>4. TypeOK'
        BY <1>1, <1>5, <2>1, <2>3 DEF FireDelayed, shardVars, hostVars, TypeOK
    <2>5. OwnViewCurrent'
        BY <1>1, <1>5 DEF FireDelayed, shardVars, OwnViewCurrent
    <2>6. Addressed'
        BY <1>1, <2>1, <2>3 DEF Addressed, TypeOK
    <2> QED BY <2>4, <2>5, <2>6 DEF TypeInv
<1>6. ASSUME NEW n \in Node, FlushChangeFeed(n)
      PROVE  TypeInv'
    <2>1. Feed(n, feed[n]) \in Body /\ Feed(n, feed[n]).src = n
        BY <1>1, <1>6
           DEF FlushChangeFeed, Feed, FeedBody, Body, OptGeneration, TypeOK
    <2>2. msgs' \subseteq Message /\ \A x \in msgs' : x.body.src # x.dst
        BY <1>1, <1>6, <2>1, BroadcastType DEF FlushChangeFeed, TypeOK, Addressed
    <2>3. TypeOK'
        BY <1>1, <1>6, <2>2
           DEF FlushChangeFeed, OptGeneration, shardVars, hostVars, TypeOK
    <2>4. OwnViewCurrent'
        BY <1>1, <1>6 DEF FlushChangeFeed, shardVars, OwnViewCurrent
    <2>5. Addressed'
        BY <1>1, <1>6, <2>2 DEF FlushChangeFeed, Addressed
    <2> QED BY <2>3, <2>4, <2>5 DEF TypeInv
<1>7. ASSUME NEW n \in Node, PeriodicSync(n)
      PROVE  TypeInv'
    <2>1. OwnSnapshot(n) \in Body /\ OwnSnapshot(n).src = n
        BY OwnSnapshotType DEF Body, SyncBody
    <2> QED BY <1>7, <2>1, ExchangeType DEF PeriodicSync, Broadcast
<1>8. ASSUME NEW n \in Node, NEW aged \in SUBSET Node, Query(n, aged)
      PROVE  TypeInv'
    <2>1. PICK T : msgs' = msgs \cup Send(n, T, RequestSnapshot(n))
        BY <1>8 DEF Query
    <2> QED BY <1>8, <2>1, RequestType, ExchangeType DEF Query
<1>9. ASSUME NEW n \in Node, NEW p \in Node, NodeJoined(n, p)
      PROVE  TypeInv'
    <2> DEFINE e == IF p = n THEN views[n][p]
                    ELSE InsertPlaceholder(views[n][p], DefaultView)
    <2>1. views' = [views EXCEPT ![n][p] = e]
        BY <1>9 DEF NodeJoined
    <2>2. e \in OptEntry
        <3>1. views[n][p] \in OptEntry /\ DefaultView \in View
            BY <1>1, DataAssumption DEF DataAssumption, TypeOK
        <3>2. InsertPlaceholder(views[n][p], DefaultView) \in OptEntry
            BY <3>1, PlaceholderType DEF OptEntry
        <3> QED BY <3>1, <3>2
    <2>3. OwnSnapshot(n) \in Body /\ OwnSnapshot(n).src = n
        BY OwnSnapshotType DEF Body, SyncBody
    <2>4. msgs' \subseteq Message /\ \A x \in msgs' : x.body.src # x.dst
        BY <1>1, <1>9, <2>3, SendType DEF NodeJoined, TypeOK, Addressed
    <2>5. views' \in [Node -> [Node -> OptEntry]]
        BY <1>1, <2>1, <2>2 DEF TypeOK
    <2>6. TypeOK'
        BY <1>1, <1>9, <2>4, <2>5 DEF NodeJoined, Readmitted, TypeOK
    <2>7. \A m \in Node : views'[m][m] = views[m][m]
        BY <1>1, <2>1 DEF TypeOK
    <2>8. OwnViewCurrent'
        BY <1>1, <1>9, <2>7 DEF NodeJoined, OwnViewCurrent
    <2>9. Addressed'
        BY <1>1, <1>9, <2>4 DEF NodeJoined, Addressed
    <2> QED BY <2>6, <2>8, <2>9 DEF TypeInv
<1>10. ASSUME NEW n \in Node, NEW p \in Node, NodeLeft(n, p)
       PROVE  TypeInv'
    <2> DEFINE e == IF p = n THEN views[n][p] ELSE NoView
    <2>1. views' = [views EXCEPT ![n][p] = e]
        BY <1>10 DEF NodeLeft, EngineNodeLeft, Depart, ViewRemoved
    <2>2. views' \in [Node -> [Node -> OptEntry]]
        BY <1>1, <2>1 DEF OptEntry, TypeOK
    <2>3. diag' \in [Node -> [Node -> DiagStatus]]
        BY <1>1, <1>10 DEF NodeLeft, EngineNodeLeft, Depart, Recorded, DiagStatus, TypeOK
    <2>4. TypeOK'
        BY <1>1, <1>10, <2>2, <2>3 DEF NodeLeft, EngineNodeLeft, Depart, TypeOK
    <2>5. \A m \in Node : views'[m][m] = views[m][m]
        BY <1>1, <2>1 DEF TypeOK
    <2>6. OwnViewCurrent'
        BY <1>1, <1>10, <2>5 DEF NodeLeft, EngineNodeLeft, Depart, OwnViewCurrent
    <2>7. Addressed'
        BY <1>1, <1>10 DEF NodeLeft, EngineNodeLeft, Depart, Addressed
    <2> QED BY <2>4, <2>6, <2>7 DEF TypeInv
<1>11. ASSUME NEW n \in Node, NEW p \in Node, RegisterPeer(n, p)
       PROVE  TypeInv'
    <2>1. TypeOK'
        BY <1>1, <1>11 DEF RegisterPeer, engineVars, shardVars, TypeOK
    <2>2. OwnViewCurrent'
        BY <1>1, <1>11 DEF RegisterPeer, shardVars, OwnViewCurrent
    <2>3. Addressed'
        BY <1>1, <1>11 DEF RegisterPeer, engineVars, Addressed
    <2> QED BY <2>1, <2>2, <2>3 DEF TypeInv
<1>12. ASSUME NEW n \in Node, NEW x \in msgs, Receive(n, x)
       PROVE  TypeInv'
    BY <1>12, ReceiveTypeInv
<1>13. ASSUME NEW x \in msgs, Lose(x)
       PROVE  TypeInv'
    <2>1. TypeOK'
        BY <1>1, <1>13 DEF Lose, engineVars, shardVars, hostVars, TypeOK
    <2>2. OwnViewCurrent'
        BY <1>1, <1>13 DEF Lose, shardVars, OwnViewCurrent
    <2>3. Addressed'
        BY <1>1, <1>13 DEF Lose, engineVars, Addressed
    <2> QED BY <2>1, <2>2, <2>3 DEF TypeInv
<1>14. CASE UNCHANGED vars
    BY <1>1, <1>14 DEF vars, TypeInv, TypeOK, OwnViewCurrent, Addressed
<1> QED BY <1>2, <1>3, <1>4, <1>5, <1>6, <1>7, <1>8, <1>9, <1>10, <1>11,
           <1>12, <1>13, <1>14 DEF Next

\* The types hold in every reachable state.
LEMMA TypeInvariant == Spec => []TypeInv
<1>1. Init => TypeInv
    BY TypeInit
<1>2. TypeInv /\ [Next]_vars => TypeInv'
    BY TypeNext
<1> QED BY <1>1, <1>2, PTL DEF Spec

\* Every structure of every node stays well formed, in particular the own view
\* that own_view_value expects is always there.
THEOREM TypeCorrect == Spec => []TypeOK
<1>1. TypeInv => TypeOK
    BY DEF TypeInv
<1> QED BY <1>1, TypeInvariant, PTL

\* The view a node sends in its snapshots is the projection of the state whose
\* generation it puts on them (own_view_value, update_own_view).
THEOREM OwnViewIsCurrent == Spec => []OwnViewCurrent
<1>1. TypeInv => OwnViewCurrent
    BY DEF TypeInv
<1> QED BY <1>1, TypeInvariant, PTL

-----------------------------------------------------------------------------
(* The safety invariants.  None is inductive by itself: that a view is     *)
(* genuine rests on every message in transit and every delayed send being  *)
(* genuine, that on generations naming one view each, and that on no node  *)
(* having published beyond its own generation.                             *)

\* Nothing was published beyond the owner's generation, nor at the sentinel's
\* incarnation.
HistBound ==
    \A h \in hist : h.gen.inc > 0 /\ Le(h.gen, state[h.node].gen)

StatePublished ==
    \A n \in Node :
        Published(n, state[n].gen, wire[n], Project(state[n].value)) \in hist

\* What a message says was so: a snapshot is a published view, a delta leads
\* from one published view to the next, a feed names a published generation.
Genuine(b) ==
    /\ b.type = "FullSnapshot" =>
          Published(b.src, b.gen, b.wire, b.data) \in hist
    /\ b.type = "DeltaUpdate" =>
          \E h \in hist :
              /\ h.node = b.src
              /\ NextAge(h.gen) = b.gen
              /\ Published(b.src, b.gen, h.wire, ApplyDelta(h.view, b.data)) \in hist
    /\ b.type = "Feed" => \E h \in hist : h.node = b.src /\ h.gen = b.gen

Traffic ==
    /\ \A x \in msgs : Genuine(x.body)
    /\ \A n \in Node : \A b \in scheduled[n] : Genuine(b)
    /\ \A n \in Node :
          feed[n] # NoGen => \E h \in hist : h.node = n /\ h.gen = feed[n]

\* An entry is a placeholder or a published view in a readable version, and
\* its mark lies between the entry and its owner.
EntrySafe(n, p) ==
    views[n][p] # NoView =>
        /\ views[n][p].gen # Zero =>
              \E w \in Reads[wire[n]] :
                  Published(p, views[n][p].gen, w, views[n][p].value) \in hist
        /\ views[n][p].pending # NoGen =>
              /\ Lt(views[n][p].gen, views[n][p].pending)
              /\ Le(views[n][p].pending, state[p].gen)

Entries == \A n, p \in Node : EntrySafe(n, p)

Inv ==
    /\ TypeInv
    /\ HistBound
    /\ StatePublished
    /\ GenerationNamesView
    /\ Traffic
    /\ Entries

-----------------------------------------------------------------------------
(* Lemmas.                                                                 *)

\* A node's generation is never the sentinel's, nor below a placeholder's mark.
LEMMA StateGenPositive ==
    ASSUME Inv, NEW n \in Node
    PROVE  /\ state[n].gen \in Generation
           /\ Lt(Zero, state[n].gen)
           /\ Le(PlaceholderPending, state[n].gen)
<1>1. state[n].gen \in Generation
    BY DEF Inv, TypeInv, TypeOK
<1>2. Published(n, state[n].gen, wire[n], Project(state[n].value)) \in hist
    BY DEF Inv, StatePublished
<1>3. state[n].gen.inc > 0
    BY <1>2 DEF Inv, HistBound, Published
<1> QED BY <1>1, <1>3, ZeroBelow DEF PlaceholderPending

\* What a node reads its own snapshots from is what it published.
LEMMA OwnSnapshotGenuine ==
    ASSUME Inv, NEW n \in Node
    PROVE  Genuine(OwnSnapshot(n))
<1>1. views[n][n].value = Project(state[n].value)
    <2>1. views[n][n] = OwnEntry(state[n].gen, Project(state[n].value))
        BY DEF Inv, TypeInv, OwnViewCurrent
    <2> QED BY <2>1 DEF OwnEntry
<1>2. Published(n, state[n].gen, wire[n], Project(state[n].value)) \in hist
    BY DEF Inv, StatePublished
<1> QED BY <1>1, <1>2 DEF Genuine, OwnSnapshot, FullSnapshot

\* A request claims nothing.
LEMMA RequestGenuine == \A n : Genuine(RequestSnapshot(n))
BY DEF Genuine, RequestSnapshot

\* What was genuine stays so as more is published.
LEMMA GenuineGrows ==
    ASSUME hist \subseteq hist'
    PROVE  \A b : Genuine(b) => Genuine(b)'
BY DEF Genuine

\* Only bodies given to route_actions are sent.
LEMMA SendBody == \A n, T, b : \A x \in Send(n, T, b) : x.body = b
BY DEF Send

\* A step that publishes nothing is safe if what it sends is genuine and the
\* entries it changes are safe.
LEMMA QuietStep ==
    ASSUME Inv, TypeInv',
           UNCHANGED <<state, hist, wire>>,
           \A x \in msgs' : x \in msgs \/ Genuine(x.body),
           \A n \in Node : scheduled'[n] \subseteq scheduled[n],
           \A n \in Node : feed'[n] = feed[n] \/ feed'[n] = NoGen,
           \A n, p \in Node : views'[n][p] = views[n][p] \/ EntrySafe(n, p)'
    PROVE  Inv'
<1>1. HistBound'
    BY DEF Inv, HistBound
<1>2. StatePublished'
    BY DEF Inv, StatePublished
<1>3. GenerationNamesView'
    BY DEF Inv, GenerationNamesView
<1>4. Traffic'
    <2>1. \A b : Genuine(b) => Genuine(b)'
        BY GenuineGrows
    <2> QED BY <2>1 DEF Inv, Traffic
<1>5. Entries'
    BY DEF Inv, Entries, EntrySafe
<1> QED BY <1>1, <1>2, <1>3, <1>4, <1>5 DEF Inv

\* n publishes view v of generation g and version w; what is sent is genuine
\* then, and no entry changes but n's own, unless it is forgotten.
PublishesSafely(n, w, g, v) ==
    /\ state' = [state EXCEPT ![n] = [gen |-> g, value |-> v]]
    /\ wire' = [wire EXCEPT ![n] = w]
    /\ hist' = hist \cup {Published(n, g, w, Project(v))}
    /\ \A x \in msgs' : x \in msgs \/ Genuine(x.body)'
    /\ \A m \in Node : \A b \in scheduled'[m] :
          b \in scheduled[m] \/ Genuine(b)'
    /\ \A m \in Node : \/ feed'[m] \in {feed[m], NoGen}
                       \/ m = n /\ feed'[m] = g
    /\ \A m, p \in Node :
          \/ m # p /\ views'[m][p] = NoView
          \/ m = p /\ m = n
          \/ views'[m][p] = views[m][p] /\ wire'[m] = wire[m]

\* Such a step is safe if the generation is newer than the node's last.
LEMMA PublishStep ==
    ASSUME Inv, TypeInv', NEW n \in Node, NEW w \in WireVersion,
           NEW g \in Generation, NEW v \in State,
           Lt(state[n].gen, g),
           PublishesSafely(n, w, g, v)
    PROVE  Inv'
<1> USE DEF PublishesSafely
<1>1. TypeOK
    BY DEF Inv, TypeInv
<1>2. \A m \in Node :
         /\ state[m].gen \in Generation
         /\ state'[m].gen \in Generation
         /\ Le(state[m].gen, state'[m].gen)
    BY <1>1 DEF TypeOK, Le
<1>3. state'[n].gen = g /\ state'[n].value = v /\ wire'[n] = w
    BY <1>1 DEF TypeOK
<1>4. \A h \in hist : h.gen \in Generation /\ h.node \in Node
    BY <1>1 DEF TypeOK
<1>5. hist \subseteq hist'
    OBVIOUS
<1>6. HistBound'
    <2>1. ASSUME NEW h \in hist
          PROVE  h.gen.inc > 0 /\ Le(h.gen, state'[h.node].gen)
        <3>1. h.gen.inc > 0 /\ Le(h.gen, state[h.node].gen)
            BY DEF Inv, HistBound
        <3> QED BY <1>2, <1>4, <3>1, LeTransitive
    <2>2. g.inc > 0 /\ Le(g, state'[n].gen)
        <3>1. state[n].gen.inc > 0
            BY DEF Inv, StatePublished, HistBound, Published
        <3> QED BY <1>2, <1>3, <3>1 DEF Lt, Le, Generation
    <2> QED BY <2>1, <2>2 DEF HistBound, Published
<1>7. StatePublished'
    <2>1. \A m \in Node : m # n => state'[m] = state[m] /\ wire'[m] = wire[m]
        BY <1>1 DEF TypeOK
    <2> QED BY <1>3, <2>1 DEF Inv, StatePublished
<1>8. GenerationNamesView'
    <2> DEFINE new == Published(n, g, w, Project(v))
    <2>1. \A h \in hist : ~(h.node = new.node /\ h.gen = new.gen)
        <3> SUFFICES ASSUME NEW h \in hist, h.node = n, h.gen = g PROVE FALSE
            BY DEF Published
        <3>1. Le(g, state[n].gen)
            BY DEF Inv, HistBound
        <3> QED BY <1>2, <3>1, LtTotal
    <2>2. hist' = hist \cup {new}
        OBVIOUS
    <2> HIDE DEF new
    <2> QED BY <2>1, <2>2 DEF Inv, GenerationNamesView
<1>9. Traffic'
    <2>1. \A b : Genuine(b) => Genuine(b)'
        BY <1>5, GenuineGrows
    <2>2. \A m \in Node : feed'[m] # NoGen =>
             \E h \in hist' : h.node = m /\ h.gen = feed'[m]
        <3>1. Published(n, g, w, Project(v)).node = n
            BY DEF Published
        <3>2. Published(n, g, w, Project(v)).gen = g
            BY DEF Published
        <3> QED BY <1>5, <3>1, <3>2 DEF Inv, Traffic
    <2> QED BY <2>1, <2>2 DEF Inv, Traffic
<1>10. Entries'
    <2> SUFFICES ASSUME NEW m \in Node, NEW p \in Node
                 PROVE  EntrySafe(m, p)'
        BY DEF Entries
    <2>1. CASE m # p /\ views'[m][p] = NoView
        BY <2>1 DEF EntrySafe
    <2>2. CASE m = p /\ m = n
        <3>1. views'[n][n] = OwnEntry(g, Project(v))
            BY <1>3 DEF TypeInv, OwnViewCurrent
        <3>2. w \in Reads[w]
            BY VersionAssumption DEF VersionAssumption
        <3>3. /\ views'[n][n].gen = g
              /\ views'[n][n].value = Project(v)
              /\ views'[n][n].pending = NoGen
            BY <3>1 DEF OwnEntry
        <3>4. Published(n, g, w, Project(v)) \in hist'
            OBVIOUS
        <3> QED BY <1>3, <2>2, <3>2, <3>3, <3>4 DEF EntrySafe
    <2>3. CASE views'[m][p] = views[m][p] /\ wire'[m] = wire[m]
        <3>1. EntrySafe(m, p)
            BY DEF Inv, Entries
        <3>2. ASSUME views[m][p] # NoView, views[m][p].pending # NoGen
              PROVE  Le(views[m][p].pending, state'[p].gen)
            <4>1. views[m][p].pending \in Generation
                BY <1>1, <3>2 DEF TypeOK, OptEntry, Entry, OptGeneration
            <4>2. Le(views[m][p].pending, state[p].gen)
                BY <3>1, <3>2 DEF EntrySafe
            <4> QED BY <1>2, <4>1, <4>2, LeTransitive
        <3> QED BY <1>5, <2>3, <3>1, <3>2 DEF EntrySafe
    <2> QED BY <2>1, <2>2, <2>3
<1> QED BY <1>6, <1>7, <1>8, <1>9, <1>10 DEF Inv

\* Initially each node has published its first view and nothing is in transit.
LEMMA SafetyInit == Init => Inv
<1> SUFFICES ASSUME Init PROVE Inv
    OBVIOUS
<1>1. TypeInv
    BY TypeInit
<1>2. FirstGen \in Generation /\ FirstGen.inc > 0
    BY DEF FirstGen, NewGeneration, Generation
<1>3. \A n \in Node : state[n].gen = FirstGen /\ state[n].value = InitState
    BY DEF Init
<1>4. HistBound
    BY <1>2, <1>3 DEF Init, HistBound, Published, Le
<1>5. StatePublished
    BY <1>3 DEF Init, StatePublished
<1>6. GenerationNamesView
    BY DEF Init, GenerationNamesView, Published
<1>7. Traffic
    BY DEF Init, Traffic
<1>8. Entries
    <2> SUFFICES ASSUME NEW n \in Node, NEW p \in Node, views[n][p] # NoView
                 PROVE  EntrySafe(n, p)
        BY DEF Entries, EntrySafe
    <2>1. n = p
        BY DEF Init, FirstViews
    <2>2. views[n][n] = OwnEntry(FirstGen, Project(InitState))
        BY DEF Init, FirstViews
    <2>3. Published(n, FirstGen, wire[n], Project(InitState)) \in hist
        BY DEF Init
    <2>4. wire[n] \in Reads[wire[n]]
        BY VersionAssumption DEF Init, VersionAssumption
    <2>5. /\ views[n][p].gen = FirstGen
          /\ views[n][p].value = Project(InitState)
          /\ views[n][p].pending = NoGen
        BY <2>1, <2>2 DEF OwnEntry
    <2> QED BY <2>1, <2>3, <2>4, <2>5 DEF EntrySafe
<1> QED BY <1>1, <1>4, <1>5, <1>6, <1>7, <1>8 DEF Inv

\* What mutate and mutate_with_delta do is safe: the delta they may send leads
\* from the view published before to the one published now.
LEMMA MutationSafe ==
    ASSUME Inv, TypeInv', NEW n \in Node, NEW c \in Change, NEW act,
           NEW b, \/ b = MutateBody(n, NextAge(state[n].gen),
                                    ApplyChange(state[n].value, c))
                  \/ b = MutateWithDeltaBody(n, NextAge(state[n].gen), c, act),
           ApplyMutation(n, NextAge(state[n].gen), ApplyChange(state[n].value, c)),
           Perform(n, act, NextAge(state[n].gen), b),
           UNCHANGED <<wire, departed, diag, hostVars>>
    PROVE  Inv'
<1> DEFINE g == NextAge(state[n].gen)
           s == state[n].value
           v == ApplyChange(s, c)
           d == ViewDelta(s, c)
           base == Published(n, state[n].gen, wire[n], Project(s))
           new == Published(n, g, wire[n], Project(v))
<1>1. TypeOK
    BY DEF Inv, TypeInv
<1>2. g \in Generation /\ Lt(state[n].gen, g) /\ s \in State /\ v \in State
    BY <1>1, NextAgeAdvances, DataAssumption DEF TypeOK, DataAssumption
<1>3. ApplyDelta(Project(s), d) = Project(v)
    BY <1>2, DeltaLaw DEF DeltaLaw
<1>4. base \in hist
    BY DEF Inv, StatePublished
<1>5. /\ state' = [state EXCEPT ![n] = [gen |-> g, value |-> v]]
      /\ views' = [views EXCEPT ![n][n] = OwnEntry(g, Project(v))]
      /\ hist' = hist \cup {new}
    BY DEF ApplyMutation
<1>6. wire[n] \in WireVersion /\ wire' = [wire EXCEPT ![n] = wire[n]]
    BY <1>1 DEF TypeOK
<1>7. /\ base.node = n /\ NextAge(base.gen) = g
      /\ Published(n, g, base.wire, ApplyDelta(base.view, d)) = new
    BY <1>3 DEF Published
<1>8. Genuine(b)'
    <2>1. CASE b = FullSnapshot(n, g, Project(v))
        <3>1. Published(b.src, b.gen, b.wire, b.data) = new
            BY <2>1 DEF FullSnapshot
        <3>2. b.type = "FullSnapshot"
            BY <2>1 DEF FullSnapshot
        <3> HIDE DEF new
        <3> QED BY <1>5, <3>1, <3>2 DEF Genuine
    <2>2. CASE b = DeltaUpdate(n, g, d)
        <3>1. b.type = "DeltaUpdate" /\ b.src = n /\ b.gen = g /\ b.data = d
            BY <2>2 DEF DeltaUpdate
        <3> HIDE DEF new, base, g, d
        <3>2. \E h \in hist' :
                 /\ h.node = b.src
                 /\ NextAge(h.gen) = b.gen
                 /\ Published(b.src, b.gen, h.wire, ApplyDelta(h.view, b.data))
                       \in hist'
            BY <1>4, <1>5, <1>7, <3>1
        <3> QED BY <3>1, <3>2 DEF Genuine
    <2> QED BY <2>1, <2>2 DEF MutateBody, MutateWithDeltaBody
<1> HIDE DEF g, v
<1>9. \A x \in msgs' : x \in msgs \/ Genuine(x.body)'
    BY <1>8, SendBody DEF Perform, Broadcast
<1>10. \A m \in Node : \A k \in scheduled'[m] : k \in scheduled[m] \/ Genuine(k)'
    BY <1>1, <1>8 DEF Perform, TypeOK
<1>11. \A m \in Node : \/ feed'[m] \in {feed[m], NoGen}
                       \/ m = n /\ feed'[m] = g
    BY <1>1 DEF Perform, NotifyChange, TypeOK, g
<1>12. \A m, p \in Node :
          \/ m # p /\ views'[m][p] = NoView
          \/ m = p /\ m = n
          \/ views'[m][p] = views[m][p] /\ wire'[m] = wire[m]
    BY <1>1, <1>5 DEF TypeOK
<1>13. PublishesSafely(n, wire[n], g, v)
    BY <1>5, <1>6, <1>9, <1>10, <1>11, <1>12 DEF PublishesSafely
<1> QED BY <1>2, <1>6, <1>13, PublishStep

\* A restart is safe: the clock moved, so its generation is new.
LEMMA RestartSafe ==
    ASSUME Inv, TypeInv', NEW n \in Node, Restart(n)
    PROVE  Inv'
<1>1. TypeOK
    BY DEF Inv, TypeInv
<1>2. PICK inc \in (state[n].gen.inc + 1) .. MaxInc, w \in WireVersion :
        LET gen == NewGeneration(Lifetime(n, inc), 0) IN
        /\ wire' = [wire EXCEPT ![n] = w]
        /\ state' = [state EXCEPT ![n] = [gen |-> gen, value |-> InitState]]
        /\ views' = [views EXCEPT ![n] = FirstViews(n, gen)]
        /\ hist' = hist \cup {Published(n, gen, w, Project(InitState))}
    BY DEF Restart
<1> DEFINE g == NewGeneration(Lifetime(n, inc), 0)
<1>3. g \in Generation /\ Lt(state[n].gen, g)
    <2>1. state[n].gen.inc \in Nat
        BY <1>1 DEF TypeOK, Generation
    <2>2. inc \in Nat /\ inc > state[n].gen.inc
        BY <1>2, <2>1
    <2> QED BY <2>1, <2>2 DEF NewGeneration, Lifetime, Generation, Lt
<1>4. InitState \in State
    BY DataAssumption DEF DataAssumption
<1>5. /\ wire' = [wire EXCEPT ![n] = w]
      /\ state' = [state EXCEPT ![n] = [gen |-> g, value |-> InitState]]
      /\ views' = [views EXCEPT ![n] = FirstViews(n, g)]
      /\ hist' = hist \cup {Published(n, g, w, Project(InitState))}
    BY <1>2
<1> HIDE DEF g
<1>6. \A m \in Node : \/ feed'[m] \in {feed[m], NoGen}
                      \/ m = n /\ feed'[m] = g
    BY <1>1 DEF Restart, TypeOK
<1>7. \A m, p \in Node :
         \/ m # p /\ views'[m][p] = NoView
         \/ m = p /\ m = n
         \/ views'[m][p] = views[m][p] /\ wire'[m] = wire[m]
    BY <1>1, <1>5 DEF FirstViews, TypeOK
<1>8. /\ \A x \in msgs' : x \in msgs \/ Genuine(x.body)'
      /\ \A m \in Node : \A b \in scheduled'[m] :
            b \in scheduled[m] \/ Genuine(b)'
    BY DEF Restart
<1>9. w \in WireVersion
    BY <1>2
<1>10. PublishesSafely(n, w, g, InitState)
    BY <1>5, <1>6, <1>7, <1>8 DEF PublishesSafely
<1> QED BY <1>3, <1>4, <1>9, <1>10, PublishStep

\* Storing a published view of a readable version keeps the entry safe; the
\* mark is kept only if it is still ahead.
LEMMA UpdatedSafe ==
    ASSUME Inv, UNCHANGED <<state, hist, wire>>,
           NEW n \in Node, NEW p \in Node, NEW g, NEW v,
           NEW w \in Reads[wire[n]], Published(p, g, w, v) \in hist,
           views'[n][p] = Updated(views[n][p], g, v)
    PROVE  EntrySafe(n, p)'
<1>1. EntrySafe(n, p)
    BY DEF Inv, Entries
<1>2. /\ views'[n][p].gen = g
      /\ views'[n][p].value = v
      /\ views'[n][p].pending = KeptPending(views[n][p], g)
    BY DEF Updated
<1>3. ASSUME views'[n][p].pending # NoGen
      PROVE  /\ Lt(g, views'[n][p].pending)
             /\ Le(views'[n][p].pending, state[p].gen)
    BY <1>1, <1>2, <1>3 DEF KeptPending, EntrySafe
<1> QED BY <1>2, <1>3 DEF EntrySafe

\* A received message is handled safely: snapshots are stored only in a
\* version the node reads, deltas only on the view they were made from, marks
\* only of generations the sender reached.
LEMMA ReceiveSafe ==
    ASSUME Inv, TypeInv', NEW n \in Node, NEW x \in msgs, Receive(n, x)
    PROVE  Inv'
<1>1. TypeOK /\ Addressed
    BY DEF Inv, TypeInv
<1> DEFINE b == x.body
           p == x.body.src
<1>2. x \in Message /\ b \in Body /\ Genuine(b)
    BY <1>1 DEF Inv, Traffic, TypeOK, Message, Body
<1>3. p \in Node
    BY <1>2 DEF Body, SyncBody, FullSnapshotBody, DeltaUpdateBody,
            RequestSnapshotBody, FeedBody
<1>4. Remaining(x) \subseteq msgs
    BY RemainingSubset
<1>5. Genuine(RequestSnapshot(n)) /\ Genuine(OwnSnapshot(n))
    BY RequestGenuine, OwnSnapshotGenuine
<1>6. views[n][p] \in OptEntry
    BY <1>1, <1>3 DEF TypeOK
<1>7. ASSUME UNCHANGED <<state, hist, wire, feed, scheduled, views>>,
             NEW T, \/ msgs' \subseteq msgs \cup Send(n, T, RequestSnapshot(n))
                    \/ msgs' \subseteq msgs \cup Send(n, T, OwnSnapshot(n))
      PROVE  Inv'
    <2>1. \A y \in msgs' : y \in msgs \/ Genuine(y.body)
        BY <1>5, <1>7, SendBody
    <2> QED BY <1>7, <2>1, QuietStep
<1>8. ASSUME UNCHANGED <<state, hist, wire, feed, scheduled>>,
             msgs' \subseteq msgs,
             \A m, q \in Node : \/ views'[m][q] = views[m][q]
                                \/ m = n /\ q = p /\ EntrySafe(n, p)'
      PROVE  Inv'
    <2>1. \A m, q \in Node : views'[m][q] = views[m][q] \/ EntrySafe(m, q)'
        BY <1>8
    <2>2. \A y \in msgs' : y \in msgs \/ Genuine(y.body)
        BY <1>8
    <2> HIDE DEF p, b
    <2> QED BY <1>8, <2>1, <2>2, QuietStep
<1> DEFINE Changes(e) == /\ UNCHANGED <<state, hist, wire, feed, scheduled>>
                         /\ msgs' \subseteq msgs
                         /\ views' = [views EXCEPT ![n][p] = e]
<1>9. CASE IgnoreDeparted(n, x)
    BY <1>4, <1>7, <1>9 DEF IgnoreDeparted, engineVars, shardVars
<1>10. CASE HandleFullSnapshot(n, x)
    <2>1. Changes(AcceptSnapshot(views[n][p], b.gen, b.data))
        BY <1>4, <1>10 DEF HandleFullSnapshot
    <2>2. b.type = "FullSnapshot" /\ Published(p, b.gen, b.wire, b.data) \in hist
        BY <1>2, <1>10 DEF HandleFullSnapshot, Takes, Genuine
    <2>3. b.wire \in Reads[wire[n]]
        BY <1>10 DEF HandleFullSnapshot, Verdicts, OnInbound, OnDeserializeError
    <2>4. views'[n][p] = AcceptSnapshot(views[n][p], b.gen, b.data)
        BY <1>1, <1>3, <2>1 DEF TypeOK
    <2>5. \A m, q \in Node : (m = n /\ q = p) \/ views'[m][q] = views[m][q]
        BY <1>1, <2>1 DEF TypeOK
    <2>6. views'[n][p] = views[n][p] \/ EntrySafe(n, p)'
        <3>1. CASE views'[n][p] = Updated(views[n][p], b.gen, b.data)
            BY <1>3, <2>1, <2>2, <2>3, <3>1, UpdatedSafe
        <3> QED BY <2>4, <3>1 DEF AcceptSnapshot
    <2> QED BY <1>8, <2>1, <2>5, <2>6
<1>11. CASE RejectFullSnapshot(n, x) \/ RejectDeltaVersion(n, x)
    <2>1. /\ UNCHANGED <<state, hist, wire, feed, scheduled>>
          /\ msgs' \subseteq msgs
          /\ views' \in {views, ViewRemoved(n, p)}
        BY <1>4, <1>11 DEF RejectFullSnapshot, RejectDeltaVersion
    <2>2. \A m, q \in Node :
             \/ views'[m][q] = views[m][q]
             \/ m = n /\ q = p /\ views'[m][q] = NoView
        BY <1>1, <1>3, <2>1 DEF ViewRemoved, TypeOK
    <2> QED BY <1>8, <2>1, <2>2 DEF EntrySafe
<1>12. CASE RequestInsteadOfDelta(n, x)
    BY <1>4, <1>7, <1>12 DEF RequestInsteadOfDelta, engineVars, shardVars
<1>13. CASE DiscardStaleDelta(n, x)
    BY <1>4, <1>7, <1>13 DEF DiscardStaleDelta, engineVars, shardVars
<1>14. CASE RequestAfterGap(n, x)
    BY <1>4, <1>7, <1>14 DEF RequestAfterGap, shardVars
<1>15. CASE RequestAfterDamage(n, x)
    BY <1>4, <1>7, <1>15 DEF RequestAfterDamage, shardVars
<1>16. CASE ApplyDeltaUpdate(n, x)
    <2> DEFINE e == views[n][p]
               v == ApplyDelta(e.value, b.data)
    <2>1. Changes(AcceptDelta(e, b.gen, v))
        BY <1>1, <1>3, <1>4, <1>16 DEF ApplyDeltaUpdate, TypeOK
    <2>2. /\ b.type = "DeltaUpdate"
          /\ e # NoView
          /\ b.gen = NextAge(e.gen)
        BY <1>16 DEF ApplyDeltaUpdate, ReadableDelta, Takes, PreCheck
    <2>3. PICK h \in hist :
             /\ h.node = p
             /\ NextAge(h.gen) = b.gen
             /\ Published(p, b.gen, h.wire, ApplyDelta(h.view, b.data)) \in hist
        BY <1>2, <2>2 DEF Genuine
    <2>4. e.gen = h.gen /\ e.gen # Zero
        <3>1. e.gen \in Generation /\ h.gen \in Generation
            BY <1>1, <1>6, <2>2 DEF TypeOK, OptEntry, Entry
        <3>2. h.gen.inc > 0
            BY DEF Inv, HistBound
        <3>3. e.gen = h.gen
            BY <2>2, <2>3, <3>1, NextAgeInjective
        <3> QED BY <3>2, <3>3 DEF Zero, NewGeneration
    <2>5. PICK w \in Reads[wire[n]] : Published(p, e.gen, w, e.value) \in hist
        BY <1>3, <2>2, <2>4 DEF Inv, Entries, EntrySafe
    <2>6. Published(p, e.gen, w, e.value) = h
        <3> DEFINE k == Published(p, e.gen, w, e.value)
        <3>1. k.node = h.node /\ k.gen = h.gen
            BY <2>3, <2>4 DEF Published
        <3>2. k \in hist
            BY <2>5
        <3> HIDE DEF k
        <3>3. k = h
            BY <3>1, <3>2 DEF Inv, GenerationNamesView
        <3> QED BY <3>3 DEF k
    <2>7. h.wire = w /\ h.view = e.value
        BY <2>6 DEF Published
    <2>8. Published(p, b.gen, w, v) \in hist
        BY <2>3, <2>7
    <2>9. views'[n][p] = AcceptDelta(e, b.gen, v)
        BY <1>1, <1>3, <2>1 DEF TypeOK
    <2>10. \A m, q \in Node : (m = n /\ q = p) \/ views'[m][q] = views[m][q]
        BY <1>1, <2>1 DEF TypeOK
    <2> HIDE DEF v
    <2>11. views'[n][p] = views[n][p] \/ EntrySafe(n, p)'
        <3>1. CASE views'[n][p] = Updated(e, b.gen, v)
            BY <1>3, <2>1, <2>5, <2>8, <3>1, UpdatedSafe
        <3> QED BY <2>9, <3>1 DEF AcceptDelta
    <2> QED BY <1>8, <2>1, <2>10, <2>11
<1>17. CASE HandleRequestSnapshot(n, x)
    BY <1>4, <1>7, <1>17 DEF HandleRequestSnapshot, engineVars, shardVars
<1>18. CASE HandleChangeFeed(n, x)
    <2> DEFINE e == views[n][p]
    <2>1. Changes(MarkStale(e, b.gen))
        BY <1>4, <1>18 DEF HandleChangeFeed, engineVars
    <2>2. b.type = "Feed" /\ b \in FeedBody
        BY <1>2, <1>18 DEF HandleChangeFeed, Takes, Body, SyncBody,
               FullSnapshotBody, DeltaUpdateBody, RequestSnapshotBody, FeedBody
    <2>3. b.gen \in Generation /\ Le(b.gen, state[p].gen)
        BY <1>2, <2>2 DEF Genuine, Inv, HistBound, FeedBody
    <2>4. views'[n][p] = MarkStale(e, b.gen)
        BY <1>1, <1>3, <2>1 DEF TypeOK
    <2>5. \A m, q \in Node : (m = n /\ q = p) \/ views'[m][q] = views[m][q]
        BY <1>1, <2>1 DEF TypeOK
    <2>6. views'[n][p] = views[n][p] \/ EntrySafe(n, p)'
        <3> SUFFICES ASSUME e # NoView, ~Le(b.gen, e.gen)
                     PROVE  EntrySafe(n, p)'
            BY <2>4 DEF MarkStale
        <3>1. e \in Entry
            BY <1>6 DEF OptEntry
        <3>2. Lt(e.gen, b.gen)
            BY <2>3, <3>1, LtTotal DEF Entry
        <3>3. views'[n][p] = [e EXCEPT !.pending = b.gen]
            BY <2>4 DEF MarkStale
        <3>4. /\ views'[n][p].gen = e.gen
              /\ views'[n][p].value = e.value
              /\ views'[n][p].pending = b.gen
            BY <3>1, <3>3 DEF Entry
        <3>5. EntrySafe(n, p)
            BY <1>3 DEF Inv, Entries
        <3>6. state' = state /\ hist' = hist /\ wire' = wire
            BY <2>1
        <3>7. e.gen # Zero =>
                 \E w \in Reads[wire[n]] : Published(p, e.gen, w, e.value) \in hist
            BY <3>5 DEF EntrySafe
        <3> HIDE DEF e, p, b
        <3> QED BY <2>3, <3>2, <3>4, <3>6, <3>7 DEF EntrySafe
    <2> QED BY <1>8, <2>1, <2>5, <2>6
<1> QED BY <1>9, <1>10, <1>11, <1>12, <1>13, <1>14, <1>15, <1>16, <1>17,
           <1>18 DEF Receive

\* Every step is safe.
LEMMA SafetyNext == Inv /\ [Next]_vars => Inv'
<1> SUFFICES ASSUME Inv, [Next]_vars PROVE Inv'
    OBVIOUS
<1>1. TypeOK /\ TypeInv'
    BY TypeNext DEF Inv, TypeInv
<1>2. ASSUME UNCHANGED <<state, hist, wire, views>>,
             \A m \in Node : scheduled'[m] \subseteq scheduled[m],
             \A m \in Node : feed'[m] = feed[m] \/ feed'[m] = NoGen,
             \A x \in msgs' : x \in msgs \/ Genuine(x.body)
      PROVE  Inv'
    BY <1>1, <1>2, QuietStep
<1>3. ASSUME NEW n \in Node, Crash(n)
      PROVE  Inv'
    <2>1. \A m \in Node : scheduled'[m] \subseteq scheduled[m]
        BY <1>1, <1>3 DEF Crash, TypeOK
    <2> QED BY <1>2, <1>3, <2>1 DEF Crash, shardVars
<1>4. ASSUME NEW n \in Node, Restart(n)
      PROVE  Inv'
    BY <1>1, <1>4, RestartSafe
<1>5. ASSUME NEW n \in Node, NEW c \in Change, NEW u \in Urgency,
             Mutate(n, c, u)
      PROVE  Inv'
    BY <1>1, <1>5, MutationSafe DEF Mutate
<1>6. ASSUME NEW n \in Node, NEW c \in Change, NEW u \in Urgency,
             MutateWithDelta(n, c, u)
      PROVE  Inv'
    BY <1>1, <1>6, MutationSafe DEF MutateWithDelta
<1>7. ASSUME NEW n \in Node, FireDelayed(n)
      PROVE  Inv'
    <2>1. PICK b \in scheduled[n] :
             /\ msgs' = msgs \cup Broadcast(n, b)
             /\ scheduled' = [scheduled EXCEPT ![n] = @ \ {b}]
        BY <1>7 DEF FireDelayed
    <2>2. \A x \in msgs' : x \in msgs \/ Genuine(x.body)
        BY <2>1, SendBody DEF Broadcast, Inv, Traffic
    <2>3. \A m \in Node : scheduled'[m] \subseteq scheduled[m]
        BY <1>1, <2>1 DEF TypeOK
    <2> QED BY <1>2, <1>7, <2>2, <2>3 DEF FireDelayed, shardVars
<1>8. ASSUME NEW n \in Node, FlushChangeFeed(n)
      PROVE  Inv'
    <2>1. Genuine(Feed(n, feed[n]))
        BY <1>8 DEF FlushChangeFeed, Genuine, Feed, Inv, Traffic
    <2>2. \A x \in msgs' : x \in msgs \/ Genuine(x.body)
        BY <1>8, <2>1, SendBody DEF FlushChangeFeed, Broadcast
    <2>3. \A m \in Node : feed'[m] = feed[m] \/ feed'[m] = NoGen
        BY <1>1, <1>8 DEF FlushChangeFeed, TypeOK
    <2> QED BY <1>2, <1>8, <2>2, <2>3 DEF FlushChangeFeed, shardVars
<1>9. ASSUME NEW n \in Node, PeriodicSync(n)
      PROVE  Inv'
    <2>1. \A x \in msgs' : x \in msgs \/ Genuine(x.body)
        BY <1>9, OwnSnapshotGenuine, SendBody DEF PeriodicSync, Broadcast
    <2> QED BY <1>2, <1>9, <2>1 DEF PeriodicSync, engineVars, shardVars
<1>10. ASSUME NEW n \in Node, NEW aged \in SUBSET Node, Query(n, aged)
       PROVE  Inv'
    <2>1. PICK T : msgs' = msgs \cup Send(n, T, RequestSnapshot(n))
        BY <1>10 DEF Query
    <2>2. \A x \in msgs' : x \in msgs \/ Genuine(x.body)
        BY <2>1, RequestGenuine, SendBody
    <2> QED BY <1>2, <1>10, <2>2 DEF Query, engineVars, shardVars
<1>11. ASSUME NEW n \in Node, NEW p \in Node, NodeJoined(n, p)
       PROVE  Inv'
    <2>1. \A x \in msgs' : x \in msgs \/ Genuine(x.body)
        BY <1>11, OwnSnapshotGenuine, SendBody DEF NodeJoined
    <2>2. \A m, q \in Node :
             \/ views'[m][q] = views[m][q]
             \/ views'[m][q] = Placeholder(DefaultView)
        BY <1>1, <1>11 DEF NodeJoined, InsertPlaceholder, TypeOK
    <2>3. ASSUME NEW m \in Node, NEW q \in Node,
                 views'[m][q] = Placeholder(DefaultView)
          PROVE  EntrySafe(m, q)'
        <3>1. Le(PlaceholderPending, state'[q].gen)
            BY <1>11, StateGenPositive DEF NodeJoined
        <3>2. Lt(Zero, PlaceholderPending)
            BY DEF Lt, Zero, PlaceholderPending, NewGeneration
        <3> QED BY <2>3, <3>1, <3>2 DEF EntrySafe, Placeholder
    <2> QED BY <1>1, <1>11, <2>1, <2>2, <2>3, QuietStep DEF NodeJoined
<1>12. ASSUME NEW n \in Node, NEW p \in Node, NodeLeft(n, p)
       PROVE  Inv'
    <2>1. \A m, q \in Node :
             views'[m][q] = views[m][q] \/ views'[m][q] = NoView
        BY <1>1, <1>12 DEF NodeLeft, EngineNodeLeft, Depart, ViewRemoved, TypeOK
    <2>2. \A m, q \in Node : views'[m][q] = views[m][q] \/ EntrySafe(m, q)'
        BY <2>1 DEF EntrySafe
    <2> QED BY <1>1, <1>12, <2>2, QuietStep DEF NodeLeft, EngineNodeLeft, Depart
<1>13. ASSUME NEW n \in Node, NEW p \in Node, RegisterPeer(n, p)
       PROVE  Inv'
    BY <1>2, <1>13 DEF RegisterPeer, engineVars, shardVars
<1>14. ASSUME NEW n \in Node, NEW x \in msgs, Receive(n, x)
       PROVE  Inv'
    BY <1>1, <1>14, ReceiveSafe
<1>15. ASSUME NEW x \in msgs, Lose(x)
       PROVE  Inv'
    BY <1>2, <1>15 DEF Lose, engineVars, shardVars
<1>16. CASE UNCHANGED vars
    BY <1>2, <1>16 DEF vars
<1> QED BY <1>3, <1>4, <1>5, <1>6, <1>7, <1>8, <1>9, <1>10, <1>11, <1>12,
           <1>13, <1>14, <1>15, <1>16 DEF Next

\* The invariant holds in every reachable state.
LEMMA SafetyInvariant == Spec => []Inv
<1>1. Init => Inv
    BY SafetyInit
<1>2. Inv /\ [Next]_vars => Inv'
    BY SafetyNext
<1> QED BY <1>1, <1>2, PTL DEF Spec

-----------------------------------------------------------------------------
(* Theorems.                                                               *)

\* No lifetime and no mutation reuses a generation: one generation of a node
\* names one view in one version (DistributedStateEngine::new, apply_mutation).
THEOREM GenerationsUnique == Spec => []GenerationNamesView
<1>1. Inv => GenerationNamesView
    BY DEF Inv
<1> QED BY <1>1, SafetyInvariant, PTL

\* Whatever the network does, a node's view of a peer is exactly what the peer
\* published at the generation the entry carries, in a version the node reads
\* (handle_full_snapshot, handle_delta_update, accept_inbound_delta).
THEOREM ViewsAreGenuine == Spec => []ViewIntegrity
<1>1. Inv => ViewIntegrity
    BY DEF Inv, Entries, EntrySafe, ViewIntegrity
<1> QED BY <1>1, SafetyInvariant, PTL

\* Nobody believes in a generation its owner has not reached, as a view or as
\* an announcement (mark_stale, on_node_joined, notify_change).
THEOREM NothingFromTheFuture == Spec => []NotFromTheFuture
<1>1. Inv => NotFromTheFuture
    <2> SUFFICES ASSUME Inv, NEW n \in Node, NEW p \in Node, views[n][p] # NoView
                 PROVE  /\ Le(views[n][p].gen, state[p].gen)
                        /\ views[n][p].pending # NoGen =>
                              Le(views[n][p].pending, state[p].gen)
        BY DEF NotFromTheFuture
    <2>1. EntrySafe(n, p)
        BY DEF Inv, Entries
    <2>2. CASE views[n][p].gen = Zero
        BY <2>1, <2>2, StateGenPositive DEF EntrySafe, Le
    <2>3. CASE views[n][p].gen # Zero
        <3>1. PICK w : Published(p, views[n][p].gen, w, views[n][p].value) \in hist
            BY <2>1, <2>3 DEF EntrySafe
        <3>2. Le(views[n][p].gen, state[p].gen)
            BY <3>1 DEF Inv, HistBound, Published
        <3> QED BY <2>1, <3>2 DEF EntrySafe
    <2> QED BY <2>2, <2>3
<1> QED BY <1>1, SafetyInvariant, PTL

\* A staleness mark is gone as soon as the view catches up (mark_stale,
\* accept_inbound_snapshot, accept_inbound_delta).
THEOREM MarksAreAhead == Spec => []PendingAhead
<1>1. Inv => PendingAhead
    BY DEF Inv, Entries, EntrySafe, PendingAhead
<1> QED BY <1>1, SafetyInvariant, PTL

-----------------------------------------------------------------------------
(* The steps: what they do to the entries of a view map.  No entry comes   *)
(* back once its owner left, none goes back to an older generation, none   *)
(* loses an announcement before it has caught up when feeds keep their     *)
(* order, no delta arrives with a gap when every change is pushed and all of*)
(* it delivered in order, and the whole protocol implements                *)
(* ReplicatedViews.                                                        *)

\* n's entry for p is dropped, stays the same copy, or becomes a copy of a
\* newer, real generation.
EntryStep(n, p) ==
    \/ views'[n][p] = NoView
    \/ /\ views[n][p] # NoView /\ views'[n][p] # NoView
       /\ views'[n][p].gen = views[n][p].gen
       /\ views'[n][p].value = views[n][p].value
    \/ /\ views'[n][p] # NoView
       /\ views'[n][p].gen # Zero
       /\ views[n][p] # NoView => Lt(views[n][p].gen, views'[n][p].gen)

\* What an accepted snapshot or delta leaves (accept_inbound_snapshot,
\* accept_inbound_delta).
LEMMA UpdatedEntry ==
    ASSUME NEW e, NEW g \in Generation, NEW v
    PROVE  /\ Updated(e, g, v).gen = g
           /\ Updated(e, g, v).value = v
BY DEF Updated

\* An updated entry is an entry.
LEMMA UpdatedIsEntry ==
    ASSUME NEW e \in OptEntry, NEW g \in Generation, NEW v \in View
    PROVE  Updated(e, g, v) # NoView
<1>1. KeptPending(e, g) \in OptGeneration
    BY NoGenAssumption DEF KeptPending, OptEntry, Entry, OptGeneration
<1>2. Updated(e, g, v) \in Entry
    BY <1>1 DEF Updated, Entry
<1> QED BY <1>2, NoViewAssumption

\* A message touches the receiver's entry and record of its sender only, and
\* neither when the sender has departed (handle_inbound).
LEMMA ReceiveStep ==
    ASSUME Inv, NEW n \in Node, NEW x \in msgs, Receive(n, x)
    PROVE  /\ x.body.src \in Node /\ x.body.src # n
           /\ UNCHANGED <<state, hist, wire, departed>>
           /\ x.body.src \in departed[n] => UNCHANGED <<views, diag>>
           /\ \A m, q \in Node : ~(m = n /\ q = x.body.src) =>
                 views'[m][q] = views[m][q] /\ diag'[m][q] = diag[m][q]
           /\ EntryStep(n, x.body.src)
<1> DEFINE b == x.body
           p == x.body.src
<1>1. TypeOK /\ Addressed
    BY DEF Inv, TypeInv
<1>2. x \in Message /\ b \in Body /\ p # x.dst /\ Genuine(b)
    BY <1>1 DEF TypeOK, Addressed, Message, Body, Inv, Traffic
<1>3. p \in Node
    BY <1>2 DEF Body, SyncBody, FullSnapshotBody, DeltaUpdateBody,
            RequestSnapshotBody, FeedBody
<1>4. x.dst = n
    BY DEF Receive, IgnoreDeparted, HandleFullSnapshot, RejectFullSnapshot,
       RejectDeltaVersion, RequestInsteadOfDelta, DiscardStaleDelta,
       RequestAfterGap, RequestAfterDamage, ApplyDeltaUpdate,
       HandleRequestSnapshot, HandleChangeFeed, ReadableDelta, Takes
<1>5. UNCHANGED <<state, hist, wire, departed>>
    BY DEF Receive, IgnoreDeparted, HandleFullSnapshot, RejectFullSnapshot,
       RejectDeltaVersion, RequestInsteadOfDelta, DiscardStaleDelta,
       RequestAfterGap, RequestAfterDamage, ApplyDeltaUpdate,
       HandleRequestSnapshot, HandleChangeFeed, engineVars, shardVars
<1>6. p \in departed[n] => UNCHANGED <<views, diag>>
    BY DEF Receive, IgnoreDeparted, HandleFullSnapshot, RejectFullSnapshot,
       RejectDeltaVersion, RequestInsteadOfDelta, DiscardStaleDelta,
       RequestAfterGap, RequestAfterDamage, ApplyDeltaUpdate,
       HandleRequestSnapshot, HandleChangeFeed, ReadableDelta, Takes,
       engineVars, shardVars
<1>7. /\ views \in [Node -> [Node -> OptEntry]]
      /\ diag \in [Node -> [Node -> DiagStatus]]
      /\ views[n][p] \in OptEntry
    BY <1>1, <1>3 DEF TypeOK
<1>8. /\ b.type = "FullSnapshot" => b.gen \in Generation /\ b.data \in View
      /\ b.type = "DeltaUpdate" => b.gen \in Generation /\ b.data \in Delta
      /\ b.type = "Feed" => b.gen \in Generation
    BY <1>2 DEF Body, SyncBody, FullSnapshotBody, DeltaUpdateBody,
            RequestSnapshotBody, FeedBody
<1> DEFINE Local == /\ \E e : views' = [views EXCEPT ![n][p] = e]
                    /\ \E d : diag' = [diag EXCEPT ![n][p] = d]
           Idle == UNCHANGED views
<1>9. ASSUME Local
      PROVE  \A m, q \in Node : ~(m = n /\ q = p) =>
                 views'[m][q] = views[m][q] /\ diag'[m][q] = diag[m][q]
    BY <1>7, <1>9
<1>10. [views EXCEPT ![n][p] = views[n][p]] = views
    BY <1>7, <1>3
<1>11. [diag EXCEPT ![n][p] = diag[n][p]] = diag
    BY <1>7, <1>3
<1>12. Idle => EntryStep(n, p)
    BY DEF EntryStep
<1>13. CASE \/ IgnoreDeparted(n, x) \/ RequestInsteadOfDelta(n, x)
            \/ DiscardStaleDelta(n, x) \/ HandleRequestSnapshot(n, x)
    <2>1. UNCHANGED <<views, diag>>
        BY <1>13 DEF IgnoreDeparted, RequestInsteadOfDelta, DiscardStaleDelta,
           HandleRequestSnapshot, engineVars, shardVars
    <2> QED BY <2>1, <1>2, <1>3, <1>4, <1>5, <1>12
<1>14. CASE RequestAfterGap(n, x) \/ RequestAfterDamage(n, x)
    <2>1. UNCHANGED views /\ \E d : diag' = [diag EXCEPT ![n][p] = d]
        BY <1>14 DEF RequestAfterGap, RequestAfterDamage, GapRecorded, Recorded,
           shardVars
    <2>2. Local
        BY <2>1, <1>10
    <2> QED BY <2>1, <2>2, <1>2, <1>3, <1>4, <1>5, <1>6, <1>9, <1>12
<1>15. CASE RejectFullSnapshot(n, x) \/ RejectDeltaVersion(n, x)
    <2>1. /\ views' \in {views, ViewRemoved(n, p)}
          /\ diag' = [diag EXCEPT ![n][p] = "failing"]
        BY <1>15 DEF RejectFullSnapshot, RejectDeltaVersion, Recorded
    <2>2. ViewRemoved(n, p) = [views EXCEPT ![n][p] = NoView]
        BY <1>2, <1>4 DEF ViewRemoved
    <2>3. Local
        BY <2>1, <2>2, <1>10
    <2>4. views'[n][p] = NoView \/ Idle
        BY <2>1, <2>2, <1>7, <1>3
    <2> QED BY <2>3, <2>4, <1>2, <1>3, <1>4, <1>5, <1>6, <1>9, <1>12
            DEF EntryStep
<1>16. CASE HandleFullSnapshot(n, x)
    <2>1. /\ views' = [views EXCEPT ![n][p] =
                          AcceptSnapshot(views[n][p], b.gen, b.data)]
          /\ diag' \in {diag, [diag EXCEPT ![n][p] = "ok"]}
          /\ b.type = "FullSnapshot"
        BY <1>16 DEF HandleFullSnapshot, Recorded, Takes
    <2>2. Local
        BY <2>1, <1>11
    <2>3. views'[n][p] = AcceptSnapshot(views[n][p], b.gen, b.data)
        BY <2>1, <1>7, <1>3
    <2>4. b.gen # Zero
        <3>1. Published(p, b.gen, b.wire, b.data) \in hist
            BY <2>1, <1>2 DEF Genuine
        <3>2. b.gen.inc > 0
            BY <3>1 DEF Inv, HistBound, Published
        <3> QED BY <3>2 DEF Zero, NewGeneration
    <2>5. EntryStep(n, p)
        <3>1. CASE SnapshotAccepted(views[n][p], b.gen)
            <4>1. views'[n][p] = Updated(views[n][p], b.gen, b.data)
                BY <3>1, <2>3 DEF AcceptSnapshot
            <4>2. views'[n][p] # NoView /\ views'[n][p].gen = b.gen
                BY <4>1, <2>1, <1>7, <1>8, UpdatedIsEntry, UpdatedEntry
            <4>3. views[n][p] # NoView => Lt(views[n][p].gen, b.gen)
                BY <3>1 DEF SnapshotAccepted, ShouldAccept
            <4> QED BY <4>2, <4>3, <2>4 DEF EntryStep
        <3>2. CASE ~SnapshotAccepted(views[n][p], b.gen)
            BY <3>2, <2>3 DEF AcceptSnapshot, EntryStep
        <3> QED BY <3>1, <3>2
    <2> QED BY <2>2, <2>5, <1>2, <1>3, <1>4, <1>5, <1>6, <1>9
<1>17. CASE ApplyDeltaUpdate(n, x)
    <2> DEFINE e == views[n][p]
               v == ApplyDelta(views[n][p].value, b.data)
    <2>1. /\ views' = [views EXCEPT ![n][p] = AcceptDelta(e, b.gen, v)]
          /\ diag' = [diag EXCEPT ![n][p] = "ok"]
          /\ b.type = "DeltaUpdate"
          /\ e # NoView
          /\ PreCheck(e.gen, b.gen) = "Follows"
        BY <1>17 DEF ApplyDeltaUpdate, Recorded, ReadableDelta, Takes
    <2>2. Local
        BY <2>1
    <2>3. views'[n][p] = AcceptDelta(e, b.gen, v)
        BY <2>1, <1>7, <1>3
    <2>4. e \in Entry /\ e.gen \in Generation
        BY <2>1, <1>7 DEF OptEntry, Entry
    <2>5. b.gen = NextAge(e.gen)
        BY <2>1 DEF PreCheck
    <2>6. Lt(e.gen, b.gen) /\ b.gen # Zero
        BY <2>4, <2>5, NextAgeAdvances DEF NextAge, NewGeneration, Zero, Generation
    <2>7. v \in View
        BY <2>1, <2>4, <1>8, DataAssumption DEF DataAssumption, Entry
    <2>8. EntryStep(n, p)
        <3>1. CASE views'[n][p] = Updated(e, b.gen, v)
            <4>1. views'[n][p] # NoView /\ views'[n][p].gen = b.gen
                BY <3>1, <2>1, <2>7, <1>7, <1>8, UpdatedIsEntry, UpdatedEntry
            <4> QED BY <4>1, <2>6 DEF EntryStep
        <3>2. CASE views'[n][p] = e
            BY <3>2, <2>1 DEF EntryStep
        <3> QED BY <3>1, <3>2, <2>3 DEF AcceptDelta
    <2> QED BY <2>2, <2>8, <1>2, <1>3, <1>4, <1>5, <1>6, <1>9
<1>18. CASE HandleChangeFeed(n, x)
    <2>1. /\ views' = [views EXCEPT ![n][p] = MarkStale(views[n][p], b.gen)]
          /\ UNCHANGED diag
          /\ b.type = "Feed"
        BY <1>18 DEF HandleChangeFeed, engineVars, Takes
    <2>2. Local
        BY <2>1, <1>11
    <2>3. views'[n][p] = MarkStale(views[n][p], b.gen)
        BY <2>1, <1>7, <1>3
    <2>4. EntryStep(n, p)
        <3>1. CASE views[n][p] = NoView
            BY <3>1, <2>3 DEF MarkStale, EntryStep
        <3>2. CASE views[n][p] # NoView
            <4>1. views[n][p] \in Entry
                BY <3>2, <1>7 DEF OptEntry
            <4>2. /\ MarkStale(views[n][p], b.gen) \in Entry
                  /\ MarkStale(views[n][p], b.gen).gen = views[n][p].gen
                  /\ MarkStale(views[n][p], b.gen).value = views[n][p].value
                BY <4>1, <1>8, <2>1 DEF MarkStale, Entry, OptGeneration
            <4> QED BY <3>2, <4>2, <2>3, NoViewAssumption DEF EntryStep
        <3> QED BY <3>1, <3>2
    <2> QED BY <2>2, <2>4, <1>2, <1>3, <1>4, <1>5, <1>6, <1>9
<1> QED BY <1>13, <1>14, <1>15, <1>16, <1>17, <1>18 DEF Receive

\* A mutation or a restart of n: its own entry, state and history move on, the
\* views of others stay.
LEMMA OwnStep ==
    ASSUME Inv, Inv', NEW n \in Node, NEW g \in Generation, NEW w, NEW v,
           Lt(state[n].gen, g),
           state' = [state EXCEPT ![n] = [gen |-> g, value |-> v]],
           hist' = hist \cup {Published(n, g, w, Project(v))}
    PROVE  /\ Abstract!Publishes(n)
           /\ \A m \in Node : Le(state[m].gen, state'[m].gen)
<1>1. state \in [Node -> [gen : Generation, value : State]]
    BY DEF Inv, TypeInv, TypeOK
<1>2. \A m \in Node : Le(state[m].gen, state'[m].gen)
    <2>1. /\ state'[n].gen = g
          /\ \A m \in Node : m # n => state'[m] = state[m]
        BY <1>1
    <2> QED BY <2>1 DEF Le
<1>3. \A k \in hist : k.node = n => Lt(k.gen, g)
    <2> SUFFICES ASSUME NEW k \in hist, k.node = n
                 PROVE  Lt(k.gen, g)
        OBVIOUS
    <2>1. Le(k.gen, state[n].gen)
        BY DEF Inv, HistBound
    <2>2. k.gen \in Generation /\ state[n].gen \in Generation
        BY <1>1 DEF Inv, TypeInv, TypeOK
    <2> QED BY <2>1, <2>2, LeLtTransitive
<1> DEFINE h == Published(n, g, w, Project(v))
<1>4. hist' = hist \cup {h} /\ h.node = n /\ h.gen = g
    BY DEF Published
<1> HIDE DEF h
<1>5. /\ h \in hist'
      /\ \A k \in hist : k.node = n => Lt(k.gen, h.gen)
    BY <1>3, <1>4
<1>6. Abstract!Publishes(n)
    BY <1>4, <1>5 DEF Abstract!Publishes, Abstract!Lt, Lt
<1> QED BY <1>2, <1>6

\* Mutate and mutate_with_delta.
LEMMA MutationStep ==
    ASSUME Inv, Inv', NEW n \in Node, NEW c \in Change, NEW u,
           Mutate(n, c, u) \/ MutateWithDelta(n, c, u)
    PROVE  /\ Abstract!Publishes(n)
           /\ \A m \in Node : Le(state[m].gen, state'[m].gen)
           /\ \A m, q \in Node : m # q => views'[m][q] = views[m][q]
           /\ UNCHANGED <<departed, diag>>
<1> DEFINE g == NextAge(state[n].gen)
           v == ApplyChange(state[n].value, c)
<1>1. ApplyMutation(n, g, v) /\ UNCHANGED <<departed, diag>>
    BY DEF Mutate, MutateWithDelta
<1>2. state[n].gen \in Generation /\ views \in [Node -> [Node -> OptEntry]]
    BY DEF Inv, TypeInv, TypeOK
<1>3. g \in Generation /\ Lt(state[n].gen, g)
    BY <1>2, NextAgeAdvances
<1>4. \A m, q \in Node : m # q => views'[m][q] = views[m][q]
    BY <1>1, <1>2 DEF ApplyMutation
<1> HIDE DEF g, v
<1> QED BY <1>1, <1>3, <1>4, OwnStep DEF ApplyMutation

\* A restart forgets every view but the own.
LEMMA RestartStep ==
    ASSUME Inv, Inv', NEW n \in Node, Restart(n)
    PROVE  /\ Abstract!Publishes(n)
           /\ \A m \in Node : Le(state[m].gen, state'[m].gen)
           /\ \A q \in Node : q # n => views'[n][q] = NoView
           /\ \A m, q \in Node : m # n => views'[m][q] = views[m][q]
           /\ departed' = [departed EXCEPT ![n] = {}]
           /\ diag' = [diag EXCEPT ![n] = [p \in Node |-> "none"]]
<1>1. PICK inc \in (state[n].gen.inc + 1) .. MaxInc, w \in WireVersion :
          LET gen == NewGeneration(inc, 0) IN
          /\ state' = [state EXCEPT ![n] = [gen |-> gen, value |-> InitState]]
          /\ views' = [views EXCEPT ![n] = FirstViews(n, gen)]
          /\ hist' = hist \cup {Published(n, gen, w, Project(InitState))}
    BY DEF Restart, Lifetime
<1> DEFINE g == NewGeneration(inc, 0)
<1>2. state[n].gen \in Generation /\ views \in [Node -> [Node -> OptEntry]]
    BY DEF Inv, TypeInv, TypeOK
<1>3. g \in Generation /\ Lt(state[n].gen, g)
    BY <1>1, <1>2, BoundAssumption DEF BoundAssumption, NewGeneration, Generation, Lt
<1>4. /\ \A q \in Node : q # n => views'[n][q] = NoView
      /\ \A m, q \in Node : m # n => views'[m][q] = views[m][q]
    BY <1>1, <1>2 DEF FirstViews
<1>5. /\ state' = [state EXCEPT ![n] = [gen |-> g, value |-> InitState]]
      /\ hist' = hist \cup {Published(n, g, w, Project(InitState))}
    BY <1>1
<1> HIDE DEF g
<1>6. /\ Abstract!Publishes(n)
      /\ \A m \in Node : Le(state[m].gen, state'[m].gen)
    BY <1>3, <1>5, OwnStep
<1> QED BY <1>4, <1>6 DEF Restart

\* The steps that leave views, history and diagnostics alone.
Calm == UNCHANGED <<state, hist, views, departed, diag>>

\* Every step publishes, joins, leaves or receives, or is one of those: crashes,
\* timers, queries, the registry and the network.
LEMMA StepKinds ==
    [Next]_vars =>
        \/ Calm
        \/ \E n \in Node : Restart(n)
        \/ \E n \in Node, c \in Change, u \in Urgency :
              Mutate(n, c, u) \/ MutateWithDelta(n, c, u)
        \/ \E n, p \in Node : NodeJoined(n, p)
        \/ \E n, p \in Node : NodeLeft(n, p)
        \/ \E n \in Node, x \in msgs : Receive(n, x)
<1> DEFINE Goal ==
        \/ Calm
        \/ \E n \in Node : Restart(n)
        \/ \E n \in Node, c \in Change, u \in Urgency :
              Mutate(n, c, u) \/ MutateWithDelta(n, c, u)
        \/ \E n, p \in Node : NodeJoined(n, p)
        \/ \E n, p \in Node : NodeLeft(n, p)
        \/ \E n \in Node, x \in msgs : Receive(n, x)
<1>1. CASE UNCHANGED vars
    BY <1>1 DEF vars, Calm
<1>2. ASSUME NEW x \in msgs, Lose(x) PROVE Calm
    BY <1>2 DEF Lose, Calm, engineVars, shardVars
<1>3. ASSUME NEW n \in Node, Crash(n) PROVE Calm
    BY <1>3 DEF Crash, Calm, shardVars
<1>4. ASSUME NEW n \in Node, FireDelayed(n) PROVE Calm
    BY <1>4 DEF FireDelayed, Calm, shardVars
<1>5. ASSUME NEW n \in Node, FlushChangeFeed(n) PROVE Calm
    BY <1>5 DEF FlushChangeFeed, Calm, shardVars
<1>6. ASSUME NEW n \in Node, PeriodicSync(n) PROVE Calm
    BY <1>6 DEF PeriodicSync, Calm, engineVars, shardVars
<1>7. ASSUME NEW n \in Node, NEW aged \in SUBSET Node, Query(n, aged) PROVE Calm
    BY <1>7 DEF Query, Calm, engineVars, shardVars
<1>8. ASSUME NEW n \in Node, NEW p \in Node, RegisterPeer(n, p) PROVE Calm
    BY <1>8 DEF RegisterPeer, Calm, engineVars, shardVars
<1>9. ASSUME Next PROVE Goal
    <2>1. CASE \E x \in msgs : Lose(x)
        BY <2>1, <1>2
    <2>2. ASSUME NEW n \in Node,
                 \/ Crash(n)
                 \/ Restart(n)
                 \/ \E c \in Change, u \in Urgency :
                       Mutate(n, c, u) \/ MutateWithDelta(n, c, u)
                 \/ FireDelayed(n)
                 \/ FlushChangeFeed(n)
                 \/ PeriodicSync(n)
                 \/ \E aged \in SUBSET Node : Query(n, aged)
                 \/ \E p \in Node :
                       NodeJoined(n, p) \/ NodeLeft(n, p) \/ RegisterPeer(n, p)
                 \/ \E x \in msgs : Receive(n, x)
          PROVE  Goal
        BY <2>2, <1>3, <1>4, <1>5, <1>6, <1>7, <1>8
    <2> QED BY <1>9, <2>1, <2>2 DEF Next
<1> QED BY <1>1, <1>9

\* NodeJoined gives the peer an entry, if it has none, and readmits it.
LEMMA JoinStep ==
    ASSUME Inv, NEW n \in Node, NEW p \in Node, NodeJoined(n, p)
    PROVE  /\ UNCHANGED <<state, hist, diag>>
           /\ departed' = [departed EXCEPT ![n] = @ \ {p}]
           /\ \A m, q \in Node :
                 \/ views'[m][q] = views[m][q]
                 \/ /\ m = n /\ q = p /\ n # p
                    /\ views[m][q] = NoView
                    /\ views'[m][q] = Placeholder(DefaultView)
<1>1. views \in [Node -> [Node -> OptEntry]]
    BY DEF Inv, TypeInv, TypeOK
<1> QED BY <1>1 DEF NodeJoined, Readmitted, InsertPlaceholder

\* NodeLeft removes the peer's entry and record, and filters it.
LEMMA LeaveStep ==
    ASSUME Inv, NEW n \in Node, NEW p \in Node, NodeLeft(n, p)
    PROVE  /\ UNCHANGED <<state, hist>>
           /\ departed' = [departed EXCEPT ![n] = @ \cup {p}]
           /\ diag' = [diag EXCEPT ![n][p] = "none"]
           /\ n # p => views'[n][p] = NoView
           /\ n = p => views' = views
           /\ \A m, q \in Node : ~(m = n /\ q = p) => views'[m][q] = views[m][q]
<1>1. views \in [Node -> [Node -> OptEntry]]
    BY DEF Inv, TypeInv, TypeOK
<1>2. n = p => [views EXCEPT ![n][p] = views[n][p]] = views
    BY <1>1
<1> QED BY <1>1, <1>2 DEF NodeLeft, EngineNodeLeft, Depart, ViewRemoved, Recorded

-----------------------------------------------------------------------------
(* No ghosts.                                                              *)

\* No step brings back a view or a record of a peer that left.
LEMMA GhostsNext == Inv /\ Inv' /\ NoGhosts /\ [Next]_vars => NoGhosts'
<1> SUFFICES ASSUME Inv, Inv', NoGhosts, [Next]_vars PROVE NoGhosts'
    OBVIOUS
<1>1. /\ departed \in [Node -> SUBSET Node]
      /\ views \in [Node -> [Node -> OptEntry]]
      /\ diag \in [Node -> [Node -> DiagStatus]]
    BY DEF Inv, TypeInv, TypeOK
<1>2. ASSUME Calm PROVE NoGhosts'
    BY <1>2 DEF Calm, NoGhosts
<1>3. ASSUME NEW n \in Node, Restart(n) PROVE NoGhosts'
    <2>1. /\ departed' = [departed EXCEPT ![n] = {}]
          /\ diag' = [diag EXCEPT ![n] = [p \in Node |-> "none"]]
          /\ \A m, q \in Node : m # n => views'[m][q] = views[m][q]
        BY <1>3, RestartStep
    <2> QED BY <2>1, <1>1 DEF NoGhosts
<1>4. ASSUME NEW n \in Node, NEW c \in Change, NEW u,
             Mutate(n, c, u) \/ MutateWithDelta(n, c, u)
      PROVE  NoGhosts'
    <2>1. /\ UNCHANGED <<departed, diag>>
          /\ \A m, q \in Node : m # q => views'[m][q] = views[m][q]
        BY <1>4, MutationStep
    <2> QED BY <2>1, <1>1 DEF NoGhosts
<1>5. ASSUME NEW n \in Node, NEW p \in Node, NodeJoined(n, p) PROVE NoGhosts'
    <2>1. /\ UNCHANGED diag
          /\ departed' = [departed EXCEPT ![n] = @ \ {p}]
          /\ \A m, q \in Node : views'[m][q] = views[m][q] \/ (m = n /\ q = p)
        BY <1>5, JoinStep
    <2> QED BY <2>1, <1>1 DEF NoGhosts
<1>6. ASSUME NEW n \in Node, NEW p \in Node, NodeLeft(n, p) PROVE NoGhosts'
    <2>1. /\ departed' = [departed EXCEPT ![n] = @ \cup {p}]
          /\ diag' = [diag EXCEPT ![n][p] = "none"]
          /\ n # p => views'[n][p] = NoView
          /\ \A m, q \in Node : ~(m = n /\ q = p) => views'[m][q] = views[m][q]
        BY <1>6, LeaveStep
    <2> QED BY <2>1, <1>1 DEF NoGhosts
<1>7. ASSUME NEW n \in Node, NEW x \in msgs, Receive(n, x) PROVE NoGhosts'
    <2> DEFINE p == x.body.src
    <2>1. /\ p \in Node
          /\ UNCHANGED departed
          /\ p \in departed[n] => UNCHANGED <<views, diag>>
          /\ \A m, q \in Node : ~(m = n /\ q = p) =>
                views'[m][q] = views[m][q] /\ diag'[m][q] = diag[m][q]
        BY <1>7, ReceiveStep
    <2> HIDE DEF p
    <2> QED BY <2>1, <1>1 DEF NoGhosts
<1> QED BY <1>2, <1>3, <1>4, <1>5, <1>6, <1>7, StepKinds

\* No late message brings back the view or the record of a peer that left
\* (LifecycleLogic.departed_nodes, DiagnosticsLogic::remove_peer).
THEOREM GhostFree == Spec => []NoGhosts
<1>1. Init => NoGhosts
    BY DEF Init, NoGhosts
<1>2. Inv /\ Inv' /\ NoGhosts /\ [Next]_vars => NoGhosts'
    BY GhostsNext
<1> QED BY <1>1, <1>2, SafetyInvariant, PTL DEF Spec

-----------------------------------------------------------------------------
(* Views move forward.                                                     *)

\* An unchanged generation is not behind itself, a copy step is not backwards.
LEMMA EntryStepForward ==
    ASSUME NEW n \in Node, NEW p \in Node, EntryStep(n, p),
           views[n][p] # NoView, views'[n][p] # NoView
    PROVE  Le(views[n][p].gen, views'[n][p].gen)
BY DEF EntryStep, Le

\* No step takes an entry to an older generation.
LEMMA ForwardNext ==
    Inv /\ Inv' /\ [Next]_vars =>
        \A n, p \in Node :
            views[n][p] # NoView /\ views'[n][p] # NoView =>
                Le(views[n][p].gen, views'[n][p].gen)
<1> SUFFICES ASSUME Inv, Inv', [Next]_vars, NEW m \in Node, NEW q \in Node,
                    views[m][q] # NoView, views'[m][q] # NoView
             PROVE  Le(views[m][q].gen, views'[m][q].gen)
    OBVIOUS
<1>1. CASE views'[m][q] = views[m][q]
    BY <1>1 DEF Le
<1>2. ASSUME \A r \in Node : Le(state[r].gen, state'[r].gen), m = q
      PROVE  Le(views[m][q].gen, views'[m][q].gen)
    <2>1. /\ views[m][m].gen = state[m].gen
          /\ views'[m][m].gen = state'[m].gen
        <3>1. /\ views[m][m] = OwnEntry(state[m].gen, Project(state[m].value))
              /\ views'[m][m] = OwnEntry(state'[m].gen, Project(state'[m].value))
            BY DEF Inv, TypeInv, OwnViewCurrent, OwnEntry
        <3> QED BY <3>1 DEF OwnEntry
    <2> QED BY <1>2, <2>1
<1>3. CASE Calm
    BY <1>3, <1>1 DEF Calm
<1>4. ASSUME NEW n \in Node, Restart(n)
      PROVE  Le(views[m][q].gen, views'[m][q].gen)
    <2>1. /\ \A r \in Node : Le(state[r].gen, state'[r].gen)
          /\ q # n => views'[n][q] = NoView
          /\ m # n => views'[m][q] = views[m][q]
        BY <1>4, RestartStep
    <2> QED BY <2>1, <1>1, <1>2
<1>5. ASSUME NEW n \in Node, NEW c \in Change, NEW u \in Urgency,
             Mutate(n, c, u) \/ MutateWithDelta(n, c, u)
      PROVE  Le(views[m][q].gen, views'[m][q].gen)
    <2>1. /\ \A r \in Node : Le(state[r].gen, state'[r].gen)
          /\ m # q => views'[m][q] = views[m][q]
        BY <1>5, MutationStep
    <2> QED BY <2>1, <1>1, <1>2
<1>6. ASSUME NEW n \in Node, NEW p \in Node, NodeJoined(n, p)
      PROVE  Le(views[m][q].gen, views'[m][q].gen)
    BY <1>6, <1>1, JoinStep
<1>7. ASSUME NEW n \in Node, NEW p \in Node, NodeLeft(n, p)
      PROVE  Le(views[m][q].gen, views'[m][q].gen)
    <2>1. /\ n # p => views'[n][p] = NoView
          /\ n = p => views' = views
          /\ ~(m = n /\ q = p) => views'[m][q] = views[m][q]
        BY <1>7, LeaveStep
    <2> QED BY <2>1, <1>1
<1>8. ASSUME NEW n \in Node, NEW x \in msgs, Receive(n, x)
      PROVE  Le(views[m][q].gen, views'[m][q].gen)
    <2>1. /\ ~(m = n /\ q = x.body.src) => views'[m][q] = views[m][q]
          /\ EntryStep(n, x.body.src)
        BY <1>8, ReceiveStep
    <2> QED BY <2>1, <1>1, EntryStepForward
<1> QED BY <1>3, <1>4, <1>5, <1>6, <1>7, <1>8, StepKinds

\* While an entry exists it only moves to newer generations
\* (accept_inbound_snapshot, accept_inbound_delta, update_own_view).
THEOREM NeverBackwards == Spec => ViewsMoveForward
<1>1. Inv /\ Inv' /\ [Next]_vars =>
          [\A n, p \in Node :
              views[n][p] # NoView /\ views'[n][p] # NoView =>
                  Le(views[n][p].gen, views'[n][p].gen)]_vars
    BY ForwardNext
<1> QED BY <1>1, SafetyInvariant, PTL DEF Spec, ViewsMoveForward

-----------------------------------------------------------------------------
(* Announcements.                                                          *)

\* A mark g that n may hold on p: nothing that p has still to announce to n,
\* on the way or in its feed, is older.
BelowFeeds(n, p, g) ==
    /\ feed[p] # NoGen => Le(g, feed[p])
    /\ \A x \in msgs :
          x.dst = n /\ x.body.src = p /\ x.body.type = "Feed" => Le(g, x.body.gen)

\* A feed in transit is not newer than what its sender has yet to announce.
FeedsOrdered ==
    \A x \in msgs :
        x.body.type = "Feed" /\ feed[x.body.src] # NoGen =>
            Le(x.body.gen, feed[x.body.src])

MarksOrdered ==
    \A n, p \in Node :
        views[n][p] # NoView /\ views[n][p].pending # NoGen =>
            BelowFeeds(n, p, views[n][p].pending)

FeedInv == FeedsOrdered /\ MarksOrdered

\* Whatever a node announces is a generation of its history: above every
\* placeholder's mark, not above the state it has now.
LEMMA AnnouncedBounds ==
    ASSUME Inv
    PROVE  /\ \A p \in Node : feed[p] # NoGen =>
                 Le(PlaceholderPending, feed[p]) /\ Le(feed[p], state[p].gen)
           /\ \A x \in msgs : x.body.type = "Feed" =>
                 /\ x.body.src \in Node
                 /\ x.body.gen \in Generation
                 /\ Le(PlaceholderPending, x.body.gen)
                 /\ Le(x.body.gen, state[x.body.src].gen)
<1>1. \A h \in hist : /\ Le(PlaceholderPending, h.gen)
                      /\ Le(h.gen, state[h.node].gen)
    BY DEF Inv, TypeInv, TypeOK, HistBound, PlaceholderPending, NewGeneration,
           Generation, Le, Lt
<1>2. \A p \in Node : feed[p] # NoGen =>
          Le(PlaceholderPending, feed[p]) /\ Le(feed[p], state[p].gen)
    BY <1>1 DEF Inv, Traffic
<1>3. \A x \in msgs : x.body.type = "Feed" =>
          x.body.src \in Node /\ x.body.gen \in Generation
    BY DEF Inv, TypeInv, TypeOK, Message, SyncBody, FullSnapshotBody,
           DeltaUpdateBody, RequestSnapshotBody, FeedBody
<1>4. \A x \in msgs : x.body.type = "Feed" =>
          \E h \in hist : h.node = x.body.src /\ h.gen = x.body.gen
    BY DEF Inv, Traffic, Genuine
<1> QED BY <1>1, <1>2, <1>3, <1>4

\* The mark of n's entry for p after a step that announces nothing new: gone,
\* as it was, or below what is still to come.
MarkStep(n, p) ==
    \/ views'[n][p] = NoView
    \/ views'[n][p].pending = NoGen
    \/ views[n][p] # NoView /\ views'[n][p].pending = views[n][p].pending
    \/ BelowFeeds(n, p, views'[n][p].pending)

\* A step that announces nothing.
LEMMA FeedQuiet ==
    ASSUME FeedInv,
           \A x \in msgs' : x.body.type = "Feed" => x \in msgs,
           \A p \in Node : feed'[p] = feed[p] \/ feed'[p] = NoGen,
           \A x \in msgs : x.body.type = "Feed" => x.body.src \in Node,
           \A n, p \in Node : MarkStep(n, p)
    PROVE  FeedInv'
<1>1. FeedsOrdered'
    BY DEF FeedInv, FeedsOrdered
<1>2. ASSUME NEW n \in Node, NEW p \in Node, NEW g, BelowFeeds(n, p, g)
      PROVE  BelowFeeds(n, p, g)'
    BY <1>2 DEF BelowFeeds
<1>3. ASSUME NEW n \in Node, NEW p \in Node,
             views'[n][p] # NoView, views'[n][p].pending # NoGen
      PROVE  BelowFeeds(n, p, views[n][p].pending)'
    <2> DEFINE g == views'[n][p].pending
    <2>1. BelowFeeds(n, p, g)
        BY <1>3 DEF FeedInv, MarksOrdered, MarkStep
    <2> QED BY <2>1 DEF BelowFeeds
<1>4. MarksOrdered'
    BY <1>3 DEF MarksOrdered
<1> QED BY <1>1, <1>4 DEF FeedInv

\* The mark after accept_inbound_snapshot or accept_inbound_delta moved the
\* entry to g: cleared once g has reached it.
LEMMA KeptMark ==
    ASSUME NEW e \in OptEntry, NEW g \in Generation, NEW v
    PROVE  \/ Updated(e, g, v).pending = NoGen
           \/ e # NoView /\ Updated(e, g, v).pending = e.pending
BY DEF Updated, KeptPending

\* n's mark on p is not lost before the view has reached it.
Kept(n, p) ==
    views[n][p] # NoView /\ views'[n][p] # NoView /\ views[n][p].pending # NoGen =>
        \/ Le(views[n][p].pending, views'[n][p].gen)
        \/ /\ views'[n][p].pending # NoGen
           /\ Le(views[n][p].pending, views'[n][p].pending)

\* An update clears the mark only when it has reached it.
LEMMA KeptByUpdate ==
    ASSUME NEW n \in Node, NEW p \in Node, NEW g \in Generation, NEW v,
           views[n][p] \in OptEntry, views'[n][p] = Updated(views[n][p], g, v)
    PROVE  Kept(n, p)
<1> SUFFICES ASSUME views[n][p] # NoView, views[n][p].pending # NoGen
             PROVE  \/ Le(views[n][p].pending, views'[n][p].gen)
                    \/ /\ views'[n][p].pending # NoGen
                       /\ Le(views[n][p].pending, views'[n][p].pending)
    BY DEF Kept
<1>1. views[n][p].pending \in Generation
    BY DEF OptEntry, Entry, OptGeneration
<1>2. views'[n][p].gen = g /\ views'[n][p].pending = KeptPending(views[n][p], g)
    BY DEF Updated
<1>3. CASE Lt(g, views[n][p].pending)
    BY <1>2, <1>3 DEF KeptPending, Le
<1>4. CASE ~Lt(g, views[n][p].pending)
    <2>1. Le(views[n][p].pending, g)
        BY <1>1, <1>4 DEF Le, Lt, Generation
    <2> QED BY <1>2, <2>1
<1> QED BY <1>3, <1>4

\* A message changes the mark on its sender as an update does, or is a feed that
\* arrived in its turn (accept_inbound_snapshot, accept_inbound_delta,
\* mark_stale).
LEMMA ReceiveMark ==
    ASSUME "Feed" \in InOrder, Inv, FeedInv,
           NEW n \in Node, NEW x \in msgs, Receive(n, x)
    PROVE  /\ MarkStep(n, x.body.src)
           /\ Kept(n, x.body.src)
           /\ UNCHANGED feed
           /\ \A y \in msgs' : y.body.type = "Feed" => y \in msgs
<1> DEFINE b == x.body
           p == x.body.src
           e == views[n][x.body.src]
<1>1. x \in Message /\ b \in SyncBody \cup RequestSnapshotBody \cup FeedBody
    BY DEF Inv, TypeInv, TypeOK, Message
<1>2. p \in Node
    BY <1>1 DEF SyncBody, FullSnapshotBody, DeltaUpdateBody,
            RequestSnapshotBody, FeedBody
<1>3. /\ views \in [Node -> [Node -> OptEntry]]
      /\ e \in OptEntry
    BY <1>2 DEF Inv, TypeInv, TypeOK
<1>4. UNCHANGED feed
    BY DEF Receive, IgnoreDeparted, HandleFullSnapshot, RejectFullSnapshot,
       RejectDeltaVersion, RequestInsteadOfDelta, DiscardStaleDelta,
       RequestAfterGap, RequestAfterDamage, ApplyDeltaUpdate,
       HandleRequestSnapshot, HandleChangeFeed, engineVars, shardVars
<1>5. \E T, r : /\ msgs' \subseteq msgs \cup Send(n, T, r)
                /\ r.type # "Feed"
    <2>1. Remaining(x) \subseteq msgs
        BY RemainingSubset
    <2>2. /\ RequestSnapshot(n).type # "Feed"
          /\ OwnSnapshot(n).type # "Feed"
        BY DEF RequestSnapshot, OwnSnapshot, FullSnapshot
    <2>3. \/ msgs' = Remaining(x)
          \/ msgs' = Remaining(x) \cup Send(n, {p}, RequestSnapshot(n))
          \/ msgs' = Remaining(x) \cup Send(n, {p}, OwnSnapshot(n))
        BY DEF Receive, IgnoreDeparted, HandleFullSnapshot, RejectFullSnapshot,
           RejectDeltaVersion, RequestInsteadOfDelta, DiscardStaleDelta,
           RequestAfterGap, RequestAfterDamage, ApplyDeltaUpdate,
           HandleRequestSnapshot, HandleChangeFeed
    <2>4. \/ msgs' \subseteq msgs \cup Send(n, {p}, RequestSnapshot(n))
          \/ msgs' \subseteq msgs \cup Send(n, {p}, OwnSnapshot(n))
        BY <2>1, <2>3
    <2> QED BY <2>2, <2>4
<1>6. \A y \in msgs' : y.body.type = "Feed" => y \in msgs
    BY <1>5, SendBody
<1>7. /\ b.type = "FullSnapshot" => b.gen \in Generation
      /\ b.type = "DeltaUpdate" => b.gen \in Generation
      /\ b.type = "Feed" => b.gen \in Generation
    BY <1>1 DEF SyncBody, FullSnapshotBody, DeltaUpdateBody,
            RequestSnapshotBody, FeedBody
<1>8. ASSUME views'[n][p] \in {NoView, e}
      PROVE  MarkStep(n, p) /\ Kept(n, p)
    BY <1>8 DEF MarkStep, Kept, Le
<1>9. ASSUME NEW g \in Generation, NEW v, views'[n][p] = Updated(e, g, v)
      PROVE  MarkStep(n, p) /\ Kept(n, p)
    <2>1. MarkStep(n, p)
        BY <1>3, <1>9, KeptMark DEF MarkStep
    <2>2. Kept(n, p)
        BY <1>2, <1>3, <1>9, KeptByUpdate
    <2> QED BY <2>1, <2>2
<1>10. CASE \/ IgnoreDeparted(n, x) \/ RequestInsteadOfDelta(n, x)
            \/ DiscardStaleDelta(n, x) \/ HandleRequestSnapshot(n, x)
            \/ RequestAfterGap(n, x) \/ RequestAfterDamage(n, x)
    <2>1. UNCHANGED views
        BY <1>10 DEF IgnoreDeparted, RequestInsteadOfDelta, DiscardStaleDelta,
           HandleRequestSnapshot, RequestAfterGap, RequestAfterDamage, shardVars
    <2> QED BY <2>1, <1>4, <1>6, <1>8
<1>11. CASE RejectFullSnapshot(n, x) \/ RejectDeltaVersion(n, x)
    <2>1. views' \in {views, ViewRemoved(n, p)}
        BY <1>11 DEF RejectFullSnapshot, RejectDeltaVersion
    <2>2. views'[n][p] \in {NoView, e}
        BY <2>1, <1>2, <1>3 DEF ViewRemoved
    <2> QED BY <2>2, <1>4, <1>6, <1>8
<1>12. CASE HandleFullSnapshot(n, x)
    <2>1. /\ views' = [views EXCEPT ![n][p] = AcceptSnapshot(e, b.gen, b.data)]
          /\ b.gen \in Generation
        BY <1>7, <1>12 DEF HandleFullSnapshot, Takes
    <2>2. views'[n][p] = AcceptSnapshot(e, b.gen, b.data)
        BY <2>1, <1>2, <1>3
    <2>3. views'[n][p] = e \/ views'[n][p] = Updated(e, b.gen, b.data)
        BY <2>2 DEF AcceptSnapshot
    <2> QED BY <2>1, <2>3, <1>4, <1>6, <1>8, <1>9
<1>13. CASE ApplyDeltaUpdate(n, x)
    <2> DEFINE v == ApplyDelta(views[n][p].value, b.data)
    <2>1. /\ views' = [views EXCEPT ![n][p] = AcceptDelta(e, b.gen, v)]
          /\ b.gen \in Generation
        BY <1>7, <1>13 DEF ApplyDeltaUpdate, ReadableDelta, Takes
    <2>2. views'[n][p] = AcceptDelta(e, b.gen, v)
        BY <2>1, <1>2, <1>3
    <2>3. views'[n][p] = e \/ views'[n][p] = Updated(e, b.gen, v)
        BY <2>2 DEF AcceptDelta
    <2> QED BY <2>1, <2>3, <1>4, <1>6, <1>8, <1>9
<1>14. CASE HandleChangeFeed(n, x)
    <2>1. /\ views' = [views EXCEPT ![n][p] = MarkStale(e, b.gen)]
          /\ b.type = "Feed" /\ b.gen \in Generation /\ x.dst = n
        BY <1>7, <1>14 DEF HandleChangeFeed, Takes
    <2>2. views'[n][p] = MarkStale(e, b.gen)
        BY <2>1, <1>2, <1>3
    <2>3. CASE e # NoView /\ ~Le(b.gen, e.gen)
        <3>1. e \in Entry
            BY <2>3, <1>3 DEF OptEntry
        <3>2. views'[n][p].pending = b.gen
            BY <2>2, <2>3, <3>1 DEF MarkStale, Entry
        <3>3. BelowFeeds(n, p, b.gen)
            <4>1. feed[p] # NoGen => Le(b.gen, feed[p])
                BY <2>1 DEF FeedInv, FeedsOrdered
            <4>2. \A y \in msgs :
                      y.dst = n /\ y.body.src = p /\ y.body.type = "Feed" =>
                          Le(b.gen, y.body.gen)
                BY <2>1 DEF Receive, Deliverable
            <4> QED BY <4>1, <4>2 DEF BelowFeeds
        <3>4. e.pending # NoGen => Le(e.pending, b.gen)
            BY <2>1, <2>3, <1>2 DEF FeedInv, MarksOrdered, BelowFeeds
        <3>5. b.gen # NoGen
            BY <2>1, NoGenAssumption
        <3>6. MarkStep(n, p)
            BY <3>2, <3>3 DEF MarkStep
        <3>7. Kept(n, p)
            BY <3>2, <3>4, <3>5 DEF Kept
        <3> QED BY <3>6, <3>7, <1>4, <1>6
    <2>4. CASE ~(e # NoView /\ ~Le(b.gen, e.gen))
        BY <2>2, <2>4, <1>4, <1>6, <1>8 DEF MarkStale
    <2> QED BY <2>3, <2>4
<1> QED BY <1>10, <1>11, <1>12, <1>13, <1>14 DEF Receive

\* A mutation announces the newest generation there is (notify_change).
LEMMA MutationMark ==
    ASSUME Inv, FeedInv, NEW n \in Node, NEW c \in Change, NEW u,
           Mutate(n, c, u) \/ MutateWithDelta(n, c, u)
    PROVE  FeedInv' /\ \A m, q \in Node : Kept(m, q)
<1> DEFINE g == NextAge(state[n].gen)
           v == ApplyChange(state[n].value, c)
<1>1. PICK a, r :
          /\ views' = [views EXCEPT ![n][n] = OwnEntry(g, Project(v))]
          /\ msgs' \subseteq msgs \cup Broadcast(n, r)
          /\ r.type # "Feed"
          /\ feed' = IF a = "NotifyChangeFeed"
                     THEN [feed EXCEPT ![n] = NotifyChange(feed[n], g)]
                     ELSE feed
    <2>1. CASE Mutate(n, c, u)
        <3>1. /\ ApplyMutation(n, g, v)
              /\ Perform(n, ResolveAction(u), g, MutateBody(n, g, v))
            BY <2>1 DEF Mutate
        <3>2. MutateBody(n, g, v).type # "Feed"
            BY DEF MutateBody, FullSnapshot
        <3> HIDE DEF g, v
        <3> QED BY <3>1, <3>2 DEF ApplyMutation, Perform
    <2>2. CASE MutateWithDelta(n, c, u)
        <3> DEFINE a == ResolveAction(u)
        <3>1. /\ ApplyMutation(n, g, v)
              /\ Perform(n, a, g, MutateWithDeltaBody(n, g, c, a))
            BY <2>2 DEF MutateWithDelta
        <3>2. MutateWithDeltaBody(n, g, c, a).type # "Feed"
            BY DEF MutateWithDeltaBody, FullSnapshot, DeltaUpdate
        <3> HIDE DEF g, v, a
        <3> QED BY <3>1, <3>2 DEF ApplyMutation, Perform
    <2> QED BY <2>1, <2>2
<1>2. /\ views \in [Node -> [Node -> OptEntry]]
      /\ feed \in [Node -> OptGeneration]
      /\ state[n].gen \in Generation
    BY DEF Inv, TypeInv, TypeOK
<1>3. g \in Generation /\ Lt(state[n].gen, g)
    BY <1>2, NextAgeAdvances
<1>4. \A x \in msgs' : x.body.type = "Feed" => x \in msgs
    BY <1>1, SendBody DEF Broadcast
<1>5. \A m, q \in Node : views'[m][q] = views[m][q] \/ (m = q /\ m = n)
    BY <1>1, <1>2
<1>6. views'[n][n].pending = NoGen /\ views[n][n].pending = NoGen
    <2>1. views'[n][n] = OwnEntry(g, Project(v))
        BY <1>1, <1>2
    <2>2. views[n][n] = OwnEntry(state[n].gen, Project(state[n].value))
        BY DEF Inv, TypeInv, OwnViewCurrent
    <2> QED BY <2>1, <2>2 DEF OwnEntry
<1>7. \A m, q \in Node : Kept(m, q)
    BY <1>5, <1>6 DEF Kept, Le
<1> HIDE DEF g, v
<1>8. \A m, q \in Node : MarkStep(m, q)
    <2> SUFFICES ASSUME NEW m \in Node, NEW q \in Node PROVE MarkStep(m, q)
        OBVIOUS
    <2> QED BY <1>5, <1>6 DEF MarkStep
<1>9. \A x \in msgs : x.body.type = "Feed" => x.body.src \in Node
    BY AnnouncedBounds
<1>10. CASE feed' = feed
    BY <1>4, <1>7, <1>8, <1>9, <1>10, FeedQuiet
<1>11. CASE feed' = [feed EXCEPT ![n] = NotifyChange(feed[n], g)]
    <2>1. NotifyChange(feed[n], g) = g
        <3>1. feed[n] # NoGen => Lt(feed[n], g)
            BY <1>2, <1>3, AnnouncedBounds, LeLtTransitive DEF OptGeneration
        <3> QED BY <3>1 DEF NotifyChange
    <2>2. feed'[n] = g /\ \A p \in Node : p # n => feed'[p] = feed[p]
        BY <2>1, <1>2, <1>11
    <2>3. FeedsOrdered'
        <3> SUFFICES ASSUME NEW x \in msgs, x.body.type = "Feed",
                            feed'[x.body.src] # NoGen
                     PROVE  Le(x.body.gen, feed'[x.body.src])
            BY <1>4 DEF FeedsOrdered
        <3>1. /\ x.body.src \in Node /\ x.body.gen \in Generation
              /\ Le(x.body.gen, state[x.body.src].gen)
            BY AnnouncedBounds
        <3>2. CASE x.body.src = n
            <4>1. Lt(x.body.gen, g)
                BY <1>2, <1>3, <3>1, <3>2, LeLtTransitive
            <4> QED BY <4>1, <2>2, <3>2 DEF Le
        <3>3. CASE x.body.src # n
            BY <2>2, <3>1, <3>3 DEF FeedInv, FeedsOrdered
        <3> QED BY <3>2, <3>3
    <2>4. MarksOrdered'
        <3> SUFFICES ASSUME NEW m \in Node, NEW q \in Node,
                            views'[m][q] # NoView, views'[m][q].pending # NoGen
                     PROVE  BelowFeeds(m, q, views[m][q].pending)'
            BY DEF MarksOrdered
        <3> DEFINE k == views[m][q].pending
        <3>1. views'[m][q] = views[m][q] /\ BelowFeeds(m, q, k)
            BY <1>5, <1>6 DEF FeedInv, MarksOrdered
        <3>2. k \in Generation /\ Le(k, state[q].gen)
            BY <3>1, <1>2 DEF Inv, Entries, EntrySafe, OptEntry, Entry, OptGeneration
        <3>3. feed'[q] # NoGen => Le(k, feed'[q])
            <4>1. CASE q = n
                <5>1. Lt(k, g)
                    BY <1>2, <1>3, <3>2, <4>1, LeLtTransitive
                <5> QED BY <5>1, <2>2, <4>1 DEF Le
            <4>2. CASE q # n
                BY <2>2, <3>1, <4>2 DEF BelowFeeds
            <4> QED BY <4>1, <4>2
        <3>4. \A x \in msgs' : x.dst = m /\ x.body.src = q /\ x.body.type = "Feed" =>
                  Le(k, x.body.gen)
            BY <1>4, <3>1 DEF BelowFeeds
        <3>5. views'[m][q].pending = k
            BY <3>1
        <3> QED BY <3>3, <3>4, <3>5 DEF BelowFeeds
    <2> QED BY <2>3, <2>4, <1>7 DEF FeedInv
<1> QED BY <1>1, <1>10, <1>11

\* A flush announces what is pending, after everything it announced before
\* (flush).
LEMMA FlushMark ==
    ASSUME Inv, FeedInv, NEW n \in Node, FlushChangeFeed(n)
    PROVE  FeedInv'
<1>1. /\ feed \in [Node -> OptGeneration]
      /\ feed[n] # NoGen
      /\ msgs' = msgs \cup Broadcast(n, Feed(n, feed[n]))
      /\ feed' = [feed EXCEPT ![n] = NoGen]
      /\ UNCHANGED views
    BY DEF FlushChangeFeed, Inv, TypeInv, TypeOK, shardVars
<1>2. feed'[n] = NoGen /\ \A p \in Node : p # n => feed'[p] = feed[p]
    BY <1>1
<1>3. \A x \in msgs' : x \in msgs \/ (x.body.src = n /\ x.body.gen = feed[n])
    BY <1>1, SendBody DEF Broadcast, Feed
<1>4. \A x \in msgs : x.body.type = "Feed" => x.body.src \in Node
    BY AnnouncedBounds
<1>5. FeedsOrdered'
    BY <1>2, <1>3, <1>4 DEF FeedInv, FeedsOrdered
<1>6. MarksOrdered'
    <2> SUFFICES ASSUME NEW m \in Node, NEW q \in Node,
                        views'[m][q] # NoView, views'[m][q].pending # NoGen
                 PROVE  BelowFeeds(m, q, views[m][q].pending)'
        BY DEF MarksOrdered
    <2>1. views'[m][q] = views[m][q] /\ BelowFeeds(m, q, views[m][q].pending)
        BY <1>1 DEF FeedInv, MarksOrdered
    <2> QED BY <2>1, <1>1, <1>2, <1>3 DEF BelowFeeds
<1> QED BY <1>5, <1>6 DEF FeedInv

\* Every step keeps the feeds in order and no mark goes before its time.
LEMMA FeedStep ==
    ASSUME "Feed" \in InOrder, Inv, Inv', FeedInv, [Next]_vars
    PROVE  FeedInv' /\ \A n, p \in Node : Kept(n, p)
<1> DEFINE Goal == FeedInv' /\ \A n, p \in Node : Kept(n, p)
<1>0. \A x \in msgs : x.body.type = "Feed" => x.body.src \in Node
    BY AnnouncedBounds
<1>1. /\ views \in [Node -> [Node -> OptEntry]]
      /\ feed \in [Node -> OptGeneration]
      /\ \A m \in Node : views[m][m].pending = NoGen /\ views'[m][m].pending = NoGen
    <2>1. /\ \A m \in Node : views[m][m] =
                 OwnEntry(state[m].gen, Project(state[m].value))
          /\ \A m \in Node : views'[m][m] =
                 OwnEntry(state'[m].gen, Project(state'[m].value))
        BY DEF Inv, TypeInv, OwnViewCurrent, OwnEntry
    <2>2. /\ views \in [Node -> [Node -> OptEntry]]
          /\ feed \in [Node -> OptGeneration]
        BY DEF Inv, TypeInv, TypeOK
    <2>3. \A m \in Node : views[m][m].pending = NoGen /\ views'[m][m].pending = NoGen
        <3> SUFFICES ASSUME NEW m \in Node
                     PROVE  views[m][m].pending = NoGen /\ views'[m][m].pending = NoGen
            OBVIOUS
        <3>1. /\ views[m][m] = OwnEntry(state[m].gen, Project(state[m].value))
              /\ views'[m][m] = OwnEntry(state'[m].gen, Project(state'[m].value))
            BY <2>1
        <3>2. \A g, v : OwnEntry(g, v).pending = NoGen
            BY DEF OwnEntry
        <3> HIDE DEF OwnEntry
        <3> QED BY <3>1, <3>2
    <2> QED BY <2>2, <2>3
<1>2. ASSUME UNCHANGED views PROVE \A m, q \in Node : Kept(m, q) /\ MarkStep(m, q)
    <2> SUFFICES ASSUME NEW m \in Node, NEW q \in Node
                 PROVE  Kept(m, q) /\ MarkStep(m, q)
        OBVIOUS
    <2> QED BY <1>2 DEF Kept, MarkStep, Le
<1>3. ASSUME UNCHANGED <<views, feed>>,
             \A x \in msgs' : x.body.type = "Feed" => x \in msgs
      PROVE  Goal
    BY <1>0, <1>2, <1>3, FeedQuiet
<1>4. ASSUME UNCHANGED vars PROVE Goal
    BY <1>3, <1>4 DEF vars
<1>5. ASSUME NEW x \in msgs, Lose(x) PROVE Goal
    BY <1>3, <1>5 DEF Lose, engineVars, shardVars
<1>6. ASSUME NEW n \in Node, Crash(n) PROVE Goal
    BY <1>3, <1>6 DEF Crash, shardVars
<1>7. ASSUME NEW n \in Node, FireDelayed(n) PROVE Goal
    <2>1. PICK b \in scheduled[n] : msgs' = msgs \cup Broadcast(n, b)
        BY <1>7 DEF FireDelayed
    <2>2. b.type # "Feed"
        <3>1. b \in SyncBody
            BY DEF Inv, TypeInv, TypeOK
        <3> QED BY <3>1 DEF SyncBody, FullSnapshotBody, DeltaUpdateBody
    <2>3. UNCHANGED <<views, feed>>
        BY <1>7 DEF FireDelayed, shardVars
    <2> QED BY <2>1, <2>2, <2>3, <1>3, SendBody DEF Broadcast
<1>8. ASSUME NEW n \in Node, FlushChangeFeed(n) PROVE Goal
    <2>1. UNCHANGED views
        BY <1>8 DEF FlushChangeFeed, shardVars
    <2> QED BY <2>1, <1>2, <1>8, FlushMark
<1>9. ASSUME NEW n \in Node, PeriodicSync(n) PROVE Goal
    <2>1. /\ msgs' = msgs \cup Broadcast(n, OwnSnapshot(n))
          /\ UNCHANGED <<views, feed>>
        BY <1>9 DEF PeriodicSync, engineVars, shardVars
    <2>2. OwnSnapshot(n).type # "Feed"
        BY DEF OwnSnapshot, FullSnapshot
    <2> QED BY <2>1, <2>2, <1>3, SendBody DEF Broadcast
<1>10. ASSUME NEW n \in Node, NEW aged \in SUBSET Node, Query(n, aged) PROVE Goal
    <2>1. /\ \E T : msgs' = msgs \cup Send(n, T, RequestSnapshot(n))
          /\ UNCHANGED <<views, feed>>
        BY <1>10 DEF Query, engineVars, shardVars
    <2>2. RequestSnapshot(n).type # "Feed"
        BY DEF RequestSnapshot
    <2> QED BY <2>1, <2>2, <1>3, SendBody
<1>11. ASSUME NEW n \in Node, NEW p \in Node, RegisterPeer(n, p) PROVE Goal
    BY <1>3, <1>11 DEF RegisterPeer, engineVars, shardVars
<1>12. ASSUME NEW n \in Node, Restart(n) PROVE Goal
    <2>1. /\ \A q \in Node : q # n => views'[n][q] = NoView
          /\ \A m, q \in Node : m # n => views'[m][q] = views[m][q]
        BY <1>12, RestartStep
    <2>2. feed' = [feed EXCEPT ![n] = NoGen] /\ UNCHANGED msgs
        BY <1>12 DEF Restart
    <2>3. \A m, q \in Node : Kept(m, q) /\ MarkStep(m, q)
        <3> SUFFICES ASSUME NEW m \in Node, NEW q \in Node
                     PROVE  Kept(m, q) /\ MarkStep(m, q)
            OBVIOUS
        <3> QED BY <2>1, <1>1 DEF Kept, MarkStep, Le
    <2>4. \A p \in Node : feed'[p] = feed[p] \/ feed'[p] = NoGen
        BY <2>2, <1>1
    <2> QED BY <2>2, <2>3, <2>4, <1>0, FeedQuiet
<1>13. ASSUME NEW n \in Node, NEW c \in Change, NEW u \in Urgency,
              Mutate(n, c, u) \/ MutateWithDelta(n, c, u)
       PROVE  Goal
    BY <1>13, MutationMark
<1>14. ASSUME NEW n \in Node, NEW p \in Node, NodeJoined(n, p) PROVE Goal
    <2>1. \A m, q \in Node :
             \/ views'[m][q] = views[m][q]
             \/ /\ views[m][q] = NoView
                /\ views'[m][q] = Placeholder(DefaultView)
        BY <1>14, JoinStep
    <2>2. /\ UNCHANGED feed
          /\ msgs' = msgs \cup Send(n, {p}, OwnSnapshot(n))
        BY <1>14 DEF NodeJoined
    <2>3. OwnSnapshot(n).type # "Feed"
        BY DEF OwnSnapshot, FullSnapshot
    <2>4. \A m, q \in Node : BelowFeeds(m, q, PlaceholderPending)
        BY AnnouncedBounds DEF BelowFeeds
    <2>5. \A m, q \in Node : Kept(m, q) /\ MarkStep(m, q)
        <3> SUFFICES ASSUME NEW m \in Node, NEW q \in Node
                     PROVE  Kept(m, q) /\ MarkStep(m, q)
            OBVIOUS
        <3>1. Placeholder(DefaultView).pending = PlaceholderPending
            BY DEF Placeholder
        <3> QED BY <2>1, <2>4, <3>1 DEF Kept, MarkStep, Le
    <2>6. \A x \in msgs' : x.body.type = "Feed" => x \in msgs
        BY <2>2, <2>3, SendBody
    <2> QED BY <2>2, <2>5, <2>6, <1>0, FeedQuiet
<1>15. ASSUME NEW n \in Node, NEW p \in Node, NodeLeft(n, p) PROVE Goal
    <2>1. \A m, q \in Node : views'[m][q] = views[m][q] \/ views'[m][q] = NoView
        BY <1>15, LeaveStep
    <2>2. UNCHANGED <<feed, msgs>>
        BY <1>15 DEF NodeLeft
    <2>3. \A m, q \in Node : Kept(m, q) /\ MarkStep(m, q)
        <3> SUFFICES ASSUME NEW m \in Node, NEW q \in Node
                     PROVE  Kept(m, q) /\ MarkStep(m, q)
            OBVIOUS
        <3> QED BY <2>1 DEF Kept, MarkStep, Le
    <2> QED BY <2>2, <2>3, <1>0, FeedQuiet
<1>16. ASSUME NEW n \in Node, NEW x \in msgs, Receive(n, x) PROVE Goal
    <2> DEFINE p == x.body.src
    <2>1. /\ MarkStep(n, p)
          /\ Kept(n, p)
          /\ UNCHANGED feed
          /\ \A y \in msgs' : y.body.type = "Feed" => y \in msgs
        BY <1>16, ReceiveMark
    <2>2. \A m, q \in Node : ~(m = n /\ q = p) => views'[m][q] = views[m][q]
        BY <1>16, ReceiveStep
    <2>3. \A m, q \in Node : Kept(m, q) /\ MarkStep(m, q)
        <3> SUFFICES ASSUME NEW m \in Node, NEW q \in Node
                     PROVE  Kept(m, q) /\ MarkStep(m, q)
            OBVIOUS
        <3>1. CASE m = n /\ q = p
            BY <2>1, <3>1
        <3>2. CASE ~(m = n /\ q = p)
            BY <2>2, <3>2 DEF Kept, MarkStep, Le
        <3> QED BY <3>1, <3>2
    <2> QED BY <2>1, <2>3, <1>0, FeedQuiet
<1>17. ASSUME NEW n \in Node,
              \/ Crash(n)
              \/ Restart(n)
              \/ \E c \in Change, u \in Urgency :
                    Mutate(n, c, u) \/ MutateWithDelta(n, c, u)
              \/ FireDelayed(n)
              \/ FlushChangeFeed(n)
              \/ PeriodicSync(n)
              \/ \E aged \in SUBSET Node : Query(n, aged)
              \/ \E p \in Node :
                    NodeJoined(n, p) \/ NodeLeft(n, p) \/ RegisterPeer(n, p)
              \/ \E x \in msgs : Receive(n, x)
       PROVE  Goal
    <2> HIDE DEF Goal
    <2> QED BY <1>6, <1>7, <1>8, <1>9, <1>10, <1>11, <1>12, <1>13, <1>14, <1>15,
               <1>16, <1>17
<1> HIDE DEF Goal
<1>18. ASSUME Next PROVE Goal
    <2>1. CASE \E x \in msgs : Lose(x)
        BY <2>1, <1>5
    <2> QED BY <2>1, <1>17, <1>18 DEF Next
<1>19. Goal
    BY <1>4, <1>18
<1> QED BY <1>19 DEF Goal

\* Where feeds keep their order, a node that heard of a generation of a peer
\* stays marked stale until its view has reached it ("Only clear
\* pending_remote_generation if we've caught up"), whatever else is lost,
\* repeated or reordered.
THEOREM AnnouncementsAreKept ==
    ASSUME "Feed" \in InOrder
    PROVE  Spec => AnnouncementKept
<1>1. Init => FeedInv
    <2> SUFFICES ASSUME Init PROVE FeedInv
        OBVIOUS
    <2>1. msgs = {} /\ \A p \in Node : feed[p] = NoGen
        BY DEF Init
    <2> QED BY <2>1 DEF FeedInv, FeedsOrdered, MarksOrdered, BelowFeeds
<1>2. Inv /\ Inv' /\ FeedInv /\ [Next]_vars => FeedInv'
    BY FeedStep
<1>3. Inv /\ Inv' /\ FeedInv /\ [Next]_vars =>
          [\A n, p \in Node :
              LET e == views[n][p]
                  f == views'[n][p]
              IN  e # NoView /\ f # NoView /\ e.pending # NoGen =>
                    \/ Le(e.pending, f.gen)
                    \/ f.pending # NoGen /\ Le(e.pending, f.pending)]_vars
    BY FeedStep DEF Kept
<1> QED BY <1>1, <1>2, <1>3, SafetyInvariant, PTL DEF Spec, AnnouncementKept

-----------------------------------------------------------------------------
(* Gaps.                                                                   *)

SyncTypes == {"FullSnapshot", "DeltaUpdate"}

\* Every change is sent to everybody as it is made, and everything that is sent
\* arrives, whole and in order: nothing suppressed, delayed or merely announced,
\* no crash, no loss, no damage.
EveryChangePushed ==
    /\ Crashers = {} /\ Loses = FALSE /\ Damages = FALSE
    /\ SyncTypes \subseteq InOrder
    /\ \A u \in Urgency : ResolveAction(u) \in {"BroadcastSnapshot", "BroadcastDelta"}

\* A snapshot or delta of p at age a is on its way to n.
InTransit(p, n, a) ==
    \E x \in msgs : /\ x.dst = n /\ x.body.src = p
                    /\ x.body.type \in SyncTypes
                    /\ x.body.gen.age = a

\* Every age of p after b is on its way to n.
PushedSince(n, p, b) ==
    \A a \in Nat : b < a /\ a <= state[p].gen.age => InTransit(p, n, a)

\* What follows a message on its link has no holes.
TransitClosed ==
    \A x \in msgs : x.body.type \in SyncTypes =>
        /\ x.body.wire = wire[x.body.src]
        /\ PushedSince(x.dst, x.body.src, x.body.gen.age)

\* What follows a view has none either.
ViewsFollowed ==
    \A n, p \in Node :
        /\ n # p /\ SupportsDelta /\ wire[n] = wire[p]
        /\ views[n][p] # NoView /\ views[n][p].gen # Zero
        => PushedSince(n, p, views[n][p].gen.age)

\* Nobody ever leaves, and nothing waits to be sent.
Undisturbed ==
    \A n \in Node :
        /\ up[n]
        /\ scheduled[n] = {}
        /\ departed[n] = {}
        /\ peers[n] = Node \ {n}
        /\ state[n].gen.inc = 1
        /\ \A p \in Node : Left(p) \notin events[n]

PushInv == Undisturbed /\ TransitClosed /\ ViewsFollowed

\* Of one lifetime, generations are ages.
LEMMA AgesOrder ==
    ASSUME NEW g \in Generation, NEW h \in Generation, g.inc = h.inc
    PROVE  /\ Le(g, h) <=> g.age <= h.age
           /\ Lt(g, h) <=> g.age < h.age
           /\ h = NextAge(g) <=> h.age = g.age + 1
           /\ g.age \in Nat /\ h.age \in Nat
<1>1. /\ g = [inc |-> g.inc, age |-> g.age] /\ h = [inc |-> h.inc, age |-> h.age]
      /\ g.age \in Nat /\ h.age \in Nat /\ g.inc \in Nat
    BY DEF Generation
<1>2. Lt(g, h) <=> g.age < h.age
    BY <1>1 DEF Lt
<1>3. g = h <=> g.age = h.age
    BY <1>1
<1>4. Le(g, h) <=> g.age <= h.age
    BY <1>1, <1>2, <1>3 DEF Le
<1>5. h = NextAge(g) <=> h.age = g.age + 1
    BY <1>1 DEF NextAge, NewGeneration
<1> QED BY <1>1, <1>2, <1>4, <1>5

\* What is on its way is of the one lifetime there is.
LEMMA SyncFacts ==
    ASSUME Inv, Undisturbed, NEW x \in msgs, x.body.type \in SyncTypes
    PROVE  /\ x.body.src \in Node /\ x.dst \in Node /\ x.body.src # x.dst
           /\ x.body.gen \in Generation
           /\ x.body.gen.inc = 1
           /\ x.body.gen.age <= state[x.body.src].gen.age
<1> DEFINE b == x.body
<1>1. /\ x \in Message /\ b.src # x.dst /\ Genuine(b)
    BY DEF Inv, TypeInv, TypeOK, Addressed, Traffic
<1>2. b \in SyncBody /\ x.dst \in Node
    BY <1>1 DEF Message, SyncTypes, RequestSnapshotBody, FeedBody, SyncBody
<1>3. b.src \in Node /\ b.gen \in Generation
    BY <1>2 DEF SyncBody, FullSnapshotBody, DeltaUpdateBody
<1>4. \E h \in hist : h.node = b.src /\ h.gen = b.gen
    BY <1>1, Zenon DEF Genuine, SyncTypes, Published
<1>5. b.gen.inc > 0 /\ Le(b.gen, state[b.src].gen)
    BY <1>4 DEF Inv, HistBound
<1>6. state[b.src].gen \in Generation /\ state[b.src].gen.inc = 1
    BY <1>3 DEF Undisturbed, Inv, TypeInv, TypeOK
<1>7. b.gen.inc = 1
    BY <1>3, <1>5, <1>6 DEF Le, Lt, Generation
<1>8. b.gen.age <= state[b.src].gen.age
    BY <1>3, <1>5, <1>6, <1>7, AgesOrder
<1> QED BY <1>1, <1>2, <1>3, <1>7, <1>8

\* A step that moves no state and no view and takes nothing off a link.
LEMMA PushQuiet ==
    ASSUME Inv, PushInv, Undisturbed', UNCHANGED <<state, wire>>,
           \A n, p \in Node : n # p =>
               views'[n][p] = views[n][p] \/ views'[n][p] = NoView
                   \/ views'[n][p].gen = Zero,
           msgs \subseteq msgs',
           \A x \in msgs' : x.body.type \in SyncTypes =>
               \/ x \in msgs
               \/ /\ x.body.src \in Node
                  /\ x.body.wire = wire[x.body.src]
                  /\ x.body.gen = state[x.body.src].gen
    PROVE  PushInv'
<1>1. \A p, n, a : InTransit(p, n, a) => InTransit(p, n, a)'
    BY DEF InTransit
<1>2. \A n, p, b : PushedSince(n, p, b) => PushedSince(n, p, b)'
    BY <1>1 DEF PushedSince
<1>3. \A p \in Node : state[p].gen.age \in Nat
    BY DEF Inv, TypeInv, TypeOK, Generation
<1>4. TransitClosed'
    <2> SUFFICES ASSUME NEW x \in msgs', x.body.type \in SyncTypes
                 PROVE  /\ x.body.wire = wire[x.body.src]
                        /\ PushedSince(x.dst, x.body.src, x.body.gen.age)'
        BY DEF TransitClosed
    <2>1. CASE x \in msgs
        BY <2>1, <1>2 DEF PushInv, TransitClosed
    <2>2. CASE x \notin msgs
        <3>1. /\ x.body.src \in Node
              /\ x.body.wire = wire[x.body.src]
              /\ x.body.gen = state[x.body.src].gen
            BY <2>2
        <3>2. PushedSince(x.dst, x.body.src, x.body.gen.age)'
            BY <3>1, <1>3 DEF PushedSince
        <3> QED BY <3>1, <3>2
    <2> QED BY <2>1, <2>2
<1>5. ViewsFollowed'
    <2> SUFFICES ASSUME NEW n \in Node, NEW p \in Node,
                        n # p, SupportsDelta, wire[n] = wire[p],
                        views'[n][p] # NoView, views'[n][p].gen # Zero
                 PROVE  PushedSince(n, p, views[n][p].gen.age)'
        BY DEF ViewsFollowed
    <2> DEFINE b == views[n][p].gen.age
    <2>1. views'[n][p] = views[n][p]
        OBVIOUS
    <2>2. PushedSince(n, p, b)
        BY <2>1 DEF PushInv, ViewsFollowed
    <2>3. views'[n][p].gen.age = b
        BY <2>1
    <2> QED BY <2>2, <2>3, <1>1 DEF PushedSince
<1> QED BY <1>4, <1>5 DEF PushInv

\* What a snapshot or delta makes of its sender's entry: it is the next one, or
\* is not what the entry waits for.
LEMMA SyncReceived ==
    ASSUME Inv, Damages = FALSE, NEW n \in Node, NEW x \in msgs, Receive(n, x),
           x.body.type \in SyncTypes, x.body.src \notin departed[n],
           x.body.src \in Node, x.body.gen \in Generation
    PROVE  LET e == views[n][x.body.src]
               f == views'[n][x.body.src]
           IN  \/ f = NoView
               \/ f.gen = x.body.gen
               \/ /\ f = e
                  /\ SupportsDelta /\ x.body.wire = wire[n] /\ e # NoView =>
                        x.body.gen # NextAge(e.gen)
<1> DEFINE b == x.body
           p == x.body.src
           e == views[n][x.body.src]
           f == views'[n][x.body.src]
           Missed == SupportsDelta /\ b.wire = wire[n] /\ e # NoView =>
                         b.gen # NextAge(e.gen)
           Goal == f = NoView \/ f.gen = b.gen \/ (f = e /\ Missed)
<1>1. /\ views \in [Node -> [Node -> OptEntry]] /\ e \in OptEntry
      /\ wire[n] \in WireVersion
      /\ e # NoView => e.gen \in Generation
    BY DEF Inv, TypeInv, TypeOK, OptEntry, Entry
<1>2. e # NoView => Lt(e.gen, NextAge(e.gen))
    BY <1>1, NextAgeAdvances
<1>3. CASE HandleFullSnapshot(n, x)
    <2>1. views' = [views EXCEPT ![n][p] = AcceptSnapshot(e, b.gen, b.data)]
        BY <1>3 DEF HandleFullSnapshot
    <2>2. f = AcceptSnapshot(e, b.gen, b.data)
        BY <2>1, <1>1
    <2>3. CASE SnapshotAccepted(e, b.gen)
        <3>1. f.gen = b.gen
            BY <2>2, <2>3, UpdatedEntry DEF AcceptSnapshot
        <3> QED BY <3>1
    <2>4. CASE ~SnapshotAccepted(e, b.gen)
        <3>1. f = e
            BY <2>2, <2>4 DEF AcceptSnapshot
        <3>2. Missed
            BY <2>4, <1>2 DEF SnapshotAccepted, ShouldAccept
        <3> QED BY <3>1, <3>2
    <2> QED BY <2>3, <2>4
<1>4. CASE RejectFullSnapshot(n, x)
    <2>1. /\ views' \in {views, ViewRemoved(n, p)}
          /\ OnInbound(wire[n], b.wire, TRUE) # "Ok"
        BY <1>4 DEF RejectFullSnapshot, Verdicts
    <2>2. f = e \/ f = NoView
        BY <2>1, <1>1 DEF ViewRemoved
    <2>3. b.wire \notin Reads[wire[n]]
        BY <2>1, Zenon DEF OnInbound
    <2>4. Missed
        BY <2>3, <1>1, VersionAssumption DEF VersionAssumption
    <2> QED BY <2>2, <2>4
<1>5. CASE RejectDeltaVersion(n, x)
    <2>1. views' \in {views, ViewRemoved(n, p)} /\ b.wire # wire[n]
        BY <1>5 DEF RejectDeltaVersion
    <2>2. f = e \/ f = NoView
        BY <2>1, <1>1 DEF ViewRemoved
    <2> QED BY <2>1, <2>2
<1>6. CASE RequestInsteadOfDelta(n, x)
    BY <1>6 DEF RequestInsteadOfDelta, shardVars
<1>7. CASE DiscardStaleDelta(n, x) \/ RequestAfterGap(n, x)
    <2>1. UNCHANGED views /\ PreCheck(e.gen, b.gen) # "Follows"
        BY <1>7 DEF DiscardStaleDelta, RequestAfterGap, ReadableDelta, shardVars
    <2>2. b.gen # NextAge(e.gen)
        BY <2>1 DEF PreCheck
    <2> QED BY <2>1, <2>2
<1>8. CASE ApplyDeltaUpdate(n, x)
    <2> DEFINE v == ApplyDelta(views[n][p].value, b.data)
    <2>1. /\ views' = [views EXCEPT ![n][p] = AcceptDelta(e, b.gen, v)]
          /\ e # NoView
          /\ PreCheck(e.gen, b.gen) = "Follows"
        BY <1>8 DEF ApplyDeltaUpdate, ReadableDelta
    <2>2. f = AcceptDelta(e, b.gen, v)
        BY <2>1, <1>1
    <2>3. b.gen = NextAge(e.gen)
        BY <2>1 DEF PreCheck
    <2>4. b.gen.inc = e.gen.inc /\ b.gen.age = e.gen.age + 1
        BY <2>3 DEF NextAge, NewGeneration
    <2>5. DeltaVerdict(e, b.gen) = "Applied"
        BY <2>1, <2>4, <1>1 DEF DeltaVerdict, Generation
    <2>6. f.gen = b.gen
        BY <2>2, <2>5, UpdatedEntry DEF AcceptDelta
    <2> QED BY <2>6
<1> QED BY <1>3, <1>4, <1>5, <1>6, <1>7, <1>8
        DEF Receive, IgnoreDeparted, HandleRequestSnapshot, HandleChangeFeed,
            RequestAfterDamage, Takes, SyncTypes

\* A request or an announcement leaves generations alone.
LEMMA OtherReceived ==
    ASSUME Inv, NEW n \in Node, NEW x \in msgs, Receive(n, x),
           x.body.type \notin SyncTypes, x.body.src \in Node
    PROVE  LET e == views[n][x.body.src]
               f == views'[n][x.body.src]
           IN  f = NoView \/ (e # NoView /\ f.gen = e.gen)
<1> DEFINE e == views[n][x.body.src]
<1>1. views \in [Node -> [Node -> OptEntry]] /\ e \in OptEntry
    BY DEF Inv, TypeInv, TypeOK
<1>2. CASE HandleChangeFeed(n, x)
    <2>1. views'[n][x.body.src] = MarkStale(e, x.body.gen)
        BY <1>1, <1>2 DEF HandleChangeFeed
    <2> QED BY <2>1, <1>1 DEF MarkStale, OptEntry, Entry
<1>3. CASE IgnoreDeparted(n, x) \/ HandleRequestSnapshot(n, x)
    BY <1>3 DEF IgnoreDeparted, HandleRequestSnapshot, shardVars
<1> QED BY <1>2, <1>3
        DEF Receive, HandleFullSnapshot, RejectFullSnapshot, RejectDeltaVersion,
            RequestInsteadOfDelta, DiscardStaleDelta, RequestAfterGap,
            RequestAfterDamage, ApplyDeltaUpdate, ReadableDelta, Takes, SyncTypes

\* What a receipt does to the links: it takes x off its own, unless that may be
\* delivered again, and adds at most a request or the receiver's snapshot.
LEMMA ReceiveLinks ==
    ASSUME Inv, NEW n \in Node, NEW x \in msgs, Receive(n, x)
    PROVE  /\ msgs \ {x} \subseteq msgs'
           /\ \A y \in msgs' : y.body.type \in SyncTypes =>
                 \/ y \in msgs
                 \/ /\ y.body.src = n
                    /\ y.body.wire = wire[n]
                    /\ y.body.gen = state[n].gen
           /\ x.dst = n
           /\ UNCHANGED <<up, scheduled, peers, events>>
<1>1. /\ Remaining(x) \subseteq msgs
      /\ msgs \ {x} \subseteq Remaining(x)
    BY DEF Remaining
<1>2. \/ msgs' = Remaining(x)
      \/ \E T : msgs' = Remaining(x) \cup Send(n, T, RequestSnapshot(n))
      \/ \E T : msgs' = Remaining(x) \cup Send(n, T, OwnSnapshot(n))
    BY DEF Receive, IgnoreDeparted, HandleFullSnapshot, RejectFullSnapshot,
       RejectDeltaVersion, RequestInsteadOfDelta, DiscardStaleDelta,
       RequestAfterGap, RequestAfterDamage, ApplyDeltaUpdate,
       HandleRequestSnapshot, HandleChangeFeed
<1>3. x.dst = n /\ UNCHANGED <<up, scheduled, peers, events>>
    BY DEF Receive, IgnoreDeparted, HandleFullSnapshot, RejectFullSnapshot,
       RejectDeltaVersion, RequestInsteadOfDelta, DiscardStaleDelta,
       RequestAfterGap, RequestAfterDamage, ApplyDeltaUpdate,
       HandleRequestSnapshot, HandleChangeFeed, ReadableDelta, Takes,
       hostVars, engineVars
<1>4. RequestSnapshot(n).type \notin SyncTypes
    BY DEF RequestSnapshot, SyncTypes
<1>5. /\ OwnSnapshot(n).src = n /\ OwnSnapshot(n).wire = wire[n]
      /\ OwnSnapshot(n).gen = state[n].gen
    BY DEF OwnSnapshot, FullSnapshot
<1>6. \A y \in msgs' : \/ y \in msgs
                       \/ y.body = RequestSnapshot(n)
                       \/ y.body = OwnSnapshot(n)
    BY <1>1, <1>2, SendBody
<1> QED BY <1>1, <1>2, <1>3, <1>4, <1>5, <1>6

\* A receipt in its turn leaves no hole behind the view it meets.
LEMMA ReceivePushed ==
    ASSUME EveryChangePushed, Inv, Inv', PushInv,
           NEW n \in Node, NEW x \in msgs, Receive(n, x)
    PROVE  PushInv'
<1> DEFINE p == x.body.src
           Here(m, q) == x.body.type \in SyncTypes /\ m = n /\ q = p
<1>1. /\ p \in Node /\ p # n
      /\ UNCHANGED <<state, wire, departed>>
      /\ \A m, q \in Node : ~(m = n /\ q = p) => views'[m][q] = views[m][q]
    BY ReceiveStep
<1>2. /\ msgs \ {x} \subseteq msgs'
      /\ \A y \in msgs' : y.body.type \in SyncTypes =>
            \/ y \in msgs
            \/ /\ y.body.src = n
               /\ y.body.wire = wire[n]
               /\ y.body.gen = state[n].gen
      /\ x.dst = n
      /\ UNCHANGED <<up, scheduled, peers, events>>
    BY ReceiveLinks
<1>3. Undisturbed'
    BY <1>1, <1>2 DEF PushInv, Undisturbed
<1>4. ASSUME NEW m, NEW q, NEW a, InTransit(q, m, a), Here(m, q) => a # x.body.gen.age
      PROVE  InTransit(q, m, a)'
    <2>1. PICK y \in msgs : /\ y.dst = m /\ y.body.src = q
                            /\ y.body.type \in SyncTypes
                            /\ y.body.gen.age = a
        BY <1>4 DEF InTransit
    <2>2. y # x
        BY <2>1, <1>2, <1>4
    <2>3. y \in msgs'
        BY <2>2, <1>2
    <2> QED BY <2>1, <2>3 DEF InTransit
<1>5. ASSUME NEW m, NEW q, NEW b \in Nat, PushedSince(m, q, b),
             Here(m, q) => x.body.gen.age \in Nat /\ x.body.gen.age <= b
      PROVE  PushedSince(m, q, b)'
    <2> SUFFICES ASSUME NEW a \in Nat, b < a, a <= state[q].gen.age
                 PROVE  InTransit(q, m, a)'
        BY <1>1 DEF PushedSince
    <2>1. InTransit(q, m, a)
        BY <1>5 DEF PushedSince
    <2>2. Here(m, q) => a # x.body.gen.age
        BY <1>5
    <2> HIDE DEF Here
    <2> QED BY <2>1, <2>2, <1>4
<1>6. \A q \in Node : state[q].gen \in Generation /\ state[q].gen.age \in Nat
    BY DEF Inv, TypeInv, TypeOK, Generation
<1>7. ASSUME x.body.type \in SyncTypes, NEW y \in msgs, y.body.type \in SyncTypes,
             y.dst = n, y.body.src = p
      PROVE  x.body.gen.age \in Nat /\ x.body.gen.age <= y.body.gen.age
    <2>1. Le(x.body.gen, y.body.gen)
        BY <1>2, <1>7 DEF Receive, Deliverable, EveryChangePushed, SyncTypes
    <2>2. /\ x.body.gen \in Generation /\ x.body.gen.inc = 1
          /\ y.body.gen \in Generation /\ y.body.gen.inc = 1
        BY <1>7, SyncFacts DEF PushInv
    <2> QED BY <2>1, <2>2, AgesOrder
<1>8. TransitClosed'
    <2> SUFFICES ASSUME NEW y \in msgs', y.body.type \in SyncTypes
                 PROVE  /\ y.body.wire = wire[y.body.src]
                        /\ PushedSince(y.dst, y.body.src, y.body.gen.age)'
        BY <1>1 DEF TransitClosed
    <2>1. CASE y \in msgs
        <3>1. /\ y.body.wire = wire[y.body.src]
              /\ PushedSince(y.dst, y.body.src, y.body.gen.age)
            BY <2>1 DEF PushInv, TransitClosed
        <3>2. y.body.gen.age \in Nat
            BY <2>1, SyncFacts DEF PushInv, Generation
        <3>3. Here(y.dst, y.body.src) =>
                  x.body.gen.age \in Nat /\ x.body.gen.age <= y.body.gen.age
            BY <2>1, <1>7
        <3>4. PushedSince(y.dst, y.body.src, y.body.gen.age)'
            <4> DEFINE m == y.dst
                       q == y.body.src
                       b == y.body.gen.age
            <4>1. /\ b \in Nat /\ PushedSince(m, q, b)
                  /\ Here(m, q) => x.body.gen.age \in Nat /\ x.body.gen.age <= b
                BY <3>1, <3>2, <3>3
            <4> HIDE DEF m, q, b, Here
            <4>2. PushedSince(m, q, b)'
                BY <4>1, <1>5
            <4> QED BY <4>2 DEF m, q, b, PushedSince
        <3> QED BY <3>1, <3>4
    <2>2. CASE y \notin msgs
        <3>1. /\ y.body.src = n /\ y.body.wire = wire[n]
              /\ y.body.gen = state[n].gen
            BY <2>2, <1>2
        <3>2. PushedSince(y.dst, y.body.src, y.body.gen.age)'
            BY <3>1, <1>1, <1>6 DEF PushedSince
        <3> QED BY <3>1, <3>2
    <2> QED BY <2>1, <2>2
<1>9. ViewsFollowed'
    <2> SUFFICES ASSUME NEW m \in Node, NEW q \in Node,
                        m # q, SupportsDelta, wire[m] = wire[q],
                        views'[m][q] # NoView, views'[m][q].gen # Zero,
                        NEW b, b = views'[m][q].gen.age
                 PROVE  PushedSince(m, q, b)'
        BY <1>1 DEF ViewsFollowed, PushedSince
    <2>1. b \in Nat
        BY DEF Inv, TypeInv, TypeOK, OptEntry, Entry, Generation
    <2>2. ASSUME views[m][q] # NoView, views'[m][q].gen = views[m][q].gen
          PROVE  PushedSince(m, q, b)
        BY <2>2 DEF PushInv, ViewsFollowed
    <2>3. CASE ~Here(m, q)
        <3>1. views[m][q] # NoView /\ views'[m][q].gen = views[m][q].gen
            <4>1. CASE ~(m = n /\ q = p)
                BY <4>1, <1>1
            <4>2. CASE m = n /\ q = p
                <5>1. x.body.type \notin SyncTypes
                    BY <2>3, <4>2
                <5> QED BY <4>2, <5>1, <1>1, OtherReceived
            <4> QED BY <4>1, <4>2
        <3> HIDE DEF Here
        <3> QED BY <2>1, <2>2, <2>3, <3>1, <1>5
    <2>4. CASE Here(m, q)
        <3>1. /\ m = n /\ q = p /\ x.body.type \in SyncTypes
            BY <2>4
        <3>2. /\ x.body.gen \in Generation /\ x.body.gen.inc = 1
              /\ x.body.gen.age \in Nat
              /\ x.body.gen.age <= state[p].gen.age
            BY <3>1, SyncFacts DEF PushInv, Generation
        <3>3. /\ x.body.wire = wire[n]
              /\ PushedSince(n, p, x.body.gen.age)
            BY <3>1, <1>2 DEF PushInv, TransitClosed
        <3>4. p \notin departed[n]
            BY DEF PushInv, Undisturbed
        <3>5. \/ views'[n][p].gen = x.body.gen
              \/ /\ views'[n][p] = views[n][p]
                 /\ x.body.gen # NextAge(views[n][p].gen)
            BY <3>1, <3>2, <3>3, <3>4, <1>1, SyncReceived DEF EveryChangePushed
        <3>6. CASE views'[n][p].gen = x.body.gen
            <4>1. b = x.body.gen.age
                BY <3>1, <3>6
            <4> HIDE DEF Here
            <4> QED BY <2>1, <3>1, <3>2, <3>3, <4>1, <1>5
        <3>7. CASE /\ views'[n][p] = views[n][p]
                   /\ x.body.gen # NextAge(views[n][p].gen)
            <4> DEFINE g == views[n][p].gen
            <4>1. views[n][p] # NoView /\ g # Zero /\ g.age = b
                BY <3>1, <3>7
            <4>2. PushedSince(n, p, b)
                BY <2>2, <3>1, <3>7
            <4>3. g \in Generation /\ g.inc = 1
                <5>1. views[n][p] \in Entry
                    BY <4>1, <1>1 DEF Inv, TypeInv, TypeOK, OptEntry
                <5>2. \E w : Published(p, g, w, views[n][p].value) \in hist
                    BY <4>1, <1>1 DEF Inv, Entries, EntrySafe
                <5>3. g.inc > 0 /\ Le(g, state[p].gen)
                    BY <5>2 DEF Inv, HistBound, Published
                <5>4. state[p].gen.inc = 1
                    BY <1>1 DEF PushInv, Undisturbed
                <5>5. g \in Generation
                    BY <5>1 DEF Entry
                <5> HIDE DEF g
                <5> QED BY <5>3, <5>4, <5>5, <1>6, <1>1 DEF Le, Lt, Generation
            <4>4. x.body.gen.age # b + 1
                BY <3>2, <3>7, <4>1, <4>3, AgesOrder
            <4>5. x.body.gen.age <= b
                <5> SUFFICES ASSUME x.body.gen.age > b + 1 PROVE FALSE
                    BY <2>1, <3>2, <4>4
                <5>1. InTransit(p, n, b + 1)
                    BY <2>1, <3>2, <4>2, <1>1, <1>6 DEF PushedSince
                <5>2. PICK y \in msgs : /\ y.dst = n /\ y.body.src = p
                                        /\ y.body.type \in SyncTypes
                                        /\ y.body.gen.age = b + 1
                    BY <5>1 DEF InTransit
                <5>3. x.body.gen.age <= b + 1
                    BY <3>1, <5>2, <1>7
                <5> QED BY <2>1, <3>2, <5>3
            <4> HIDE DEF Here
            <4> QED BY <2>1, <3>1, <3>2, <4>2, <4>5, <1>5
        <3> QED BY <3>5, <3>6, <3>7
    <2> QED BY <2>3, <2>4
<1> QED BY <1>3, <1>8, <1>9 DEF PushInv

\* A change is on its way to everybody as soon as it is made.
LEMMA MutationPushed ==
    ASSUME EveryChangePushed, Inv, Inv', PushInv,
           NEW n \in Node, NEW c \in Change, NEW u \in Urgency,
           Mutate(n, c, u) \/ MutateWithDelta(n, c, u)
    PROVE  PushInv'
<1> DEFINE g == NextAge(state[n].gen)
           v == ApplyChange(state[n].value, c)
           a == ResolveAction(u)
<1>1. /\ a \in {"BroadcastSnapshot", "BroadcastDelta"}
      /\ UNCHANGED <<wire, departed, up, peers, events>>
      /\ ApplyMutation(n, g, v)
    BY DEF EveryChangePushed, Mutate, MutateWithDelta, hostVars
<1>2. PICK r : /\ r.type \in SyncTypes /\ r.src = n /\ r.gen = g /\ r.wire = wire[n]
               /\ Perform(n, a, g, r)
    <2>1. CASE Mutate(n, c, u)
        <3>1. Perform(n, a, g, MutateBody(n, g, v))
            BY <2>1 DEF Mutate
        <3> QED BY <3>1 DEF MutateBody, FullSnapshot, SyncTypes
    <2>2. CASE MutateWithDelta(n, c, u)
        <3>1. Perform(n, a, g, MutateWithDeltaBody(n, g, c, a))
            BY <2>2 DEF MutateWithDelta
        <3>2. LET r == MutateWithDeltaBody(n, g, c, a)
              IN  /\ r.type \in SyncTypes /\ r.src = n /\ r.gen = g
                  /\ r.wire = wire[n]
            BY DEF MutateWithDeltaBody, FullSnapshot, DeltaUpdate, SyncTypes
        <3> HIDE DEF a, g
        <3> QED BY <3>1, <3>2
    <2> QED BY <2>1, <2>2
<1>3. /\ msgs' = msgs \cup Broadcast(n, r)
      /\ UNCHANGED scheduled
    BY <1>1, <1>2 DEF Perform
<1>4. /\ state \in [Node -> [gen : Generation, value : State]]
      /\ views \in [Node -> [Node -> OptEntry]]
    BY DEF Inv, TypeInv, TypeOK
<1>5. /\ state'[n].gen = g
      /\ \A m \in Node : m # n => state'[m] = state[m]
      /\ \A m, q \in Node : m # q => views'[m][q] = views[m][q]
    BY <1>1, <1>4 DEF ApplyMutation
<1>6. /\ g.inc = state[n].gen.inc /\ g.age = state[n].gen.age + 1
      /\ state[n].gen.age \in Nat
    BY <1>4 DEF NextAge, NewGeneration, Generation
<1>7. Undisturbed'
    BY <1>1, <1>3, <1>5, <1>6 DEF PushInv, Undisturbed
<1>8. /\ peers[n] = Node \ {n}
    BY DEF PushInv, Undisturbed
<1>9. \A m \in Node : m # n => [dst |-> m, body |-> r] \in msgs'
    BY <1>3, <1>8 DEF Broadcast, Send
<1> HIDE DEF g, v, a
<1>10. \A q, m, k : InTransit(q, m, k) => InTransit(q, m, k)'
    BY <1>3 DEF InTransit
<1>11. \A m \in Node, k \in Nat : m # n /\ k = g.age => InTransit(n, m, k)'
    <2> SUFFICES ASSUME NEW m \in Node, NEW k \in Nat, m # n, k = g.age
                 PROVE  InTransit(n, m, k)'
        OBVIOUS
    <2> DEFINE y == [dst |-> m, body |-> r]
    <2>1. y \in msgs' /\ y.dst = m /\ y.body = r
        BY <1>9
    <2> HIDE DEF y
    <2>2. /\ y \in msgs' /\ y.dst = m /\ y.body.src = n
          /\ y.body.type \in SyncTypes /\ y.body.gen.age = k
        BY <2>1, <1>2
    <2> QED BY <2>2 DEF InTransit
<1>12. ASSUME NEW m \in Node, NEW q \in Node, m # q, NEW b \in Nat,
              PushedSince(m, q, b)
       PROVE  PushedSince(m, q, b)'
    <2> SUFFICES ASSUME NEW k \in Nat, b < k, k <= state'[q].gen.age
                 PROVE  InTransit(q, m, k)'
        BY DEF PushedSince
    <2>1. CASE k <= state[q].gen.age
        BY <2>1, <1>10, <1>12 DEF PushedSince
    <2>2. CASE ~(k <= state[q].gen.age)
        <3>1. q = n
            BY <2>2, <1>5
        <3>2. k = g.age
            BY <2>2, <3>1, <1>5, <1>6
        <3> QED BY <3>1, <3>2, <1>11, <1>12
    <2> QED BY <2>1, <2>2
<1>13. TransitClosed'
    <2> SUFFICES ASSUME NEW y \in msgs', y.body.type \in SyncTypes
                 PROVE  /\ y.body.wire = wire[y.body.src]
                        /\ PushedSince(y.dst, y.body.src, y.body.gen.age)'
        BY <1>1 DEF TransitClosed
    <2>1. CASE y \in msgs
        <3>1. /\ y.body.wire = wire[y.body.src]
              /\ PushedSince(y.dst, y.body.src, y.body.gen.age)
            BY <2>1 DEF PushInv, TransitClosed
        <3>2. /\ y.body.src \in Node /\ y.dst \in Node /\ y.body.src # y.dst
              /\ y.body.gen.age \in Nat
            BY <2>1, SyncFacts DEF PushInv, Generation
        <3> DEFINE m == y.dst
                   q == y.body.src
                   b == y.body.gen.age
        <3>3. m \in Node /\ q \in Node /\ m # q /\ b \in Nat /\ PushedSince(m, q, b)
            BY <3>1, <3>2
        <3> HIDE DEF m, q, b
        <3>4. PushedSince(m, q, b)'
            BY <3>3, <1>12
        <3> QED BY <3>1, <3>4 DEF m, q, b, PushedSince
    <2>2. CASE y \notin msgs
        <3>1. y.body = r
            BY <2>2, <1>3, SendBody DEF Broadcast
        <3>2. PushedSince(y.dst, y.body.src, y.body.gen.age)'
            BY <3>1, <1>2, <1>5, <1>6 DEF PushedSince
        <3> QED BY <3>1, <3>2, <1>2
    <2> QED BY <2>1, <2>2
<1>14. ViewsFollowed'
    <2> SUFFICES ASSUME NEW m \in Node, NEW q \in Node,
                        m # q, SupportsDelta, wire[m] = wire[q],
                        views'[m][q] # NoView, views'[m][q].gen # Zero,
                        NEW b, b = views'[m][q].gen.age
                 PROVE  PushedSince(m, q, b)'
        BY <1>1 DEF ViewsFollowed, PushedSince
    <2>1. b \in Nat
        BY DEF Inv, TypeInv, TypeOK, OptEntry, Entry, Generation
    <2>2. PushedSince(m, q, b)
        BY <1>5 DEF PushInv, ViewsFollowed
    <2> QED BY <2>1, <2>2, <1>12
<1> QED BY <1>7, <1>13, <1>14 DEF PushInv

\* Every step keeps the links without holes.
LEMMA PushStep ==
    ASSUME EveryChangePushed, Inv, Inv', PushInv, [Next]_vars
    PROVE  PushInv'
<1>1. views \in [Node -> [Node -> OptEntry]] /\ Undisturbed
    BY DEF Inv, TypeInv, TypeOK, PushInv
<1>2. ASSUME UNCHANGED <<state, wire, views>>, Undisturbed',
             msgs \subseteq msgs',
             \A x \in msgs' : x.body.type \in SyncTypes =>
                 \/ x \in msgs
                 \/ /\ x.body.src \in Node
                    /\ x.body.wire = wire[x.body.src]
                    /\ x.body.gen = state[x.body.src].gen
      PROVE  PushInv'
    BY <1>2, PushQuiet
<1>3. ASSUME NEW n \in Node
      PROVE  /\ RequestSnapshot(n).type \notin SyncTypes
             /\ \A gen : Feed(n, gen).type \notin SyncTypes
             /\ OwnSnapshot(n).src = n /\ OwnSnapshot(n).wire = wire[n]
             /\ OwnSnapshot(n).gen = state[n].gen
    BY DEF RequestSnapshot, Feed, OwnSnapshot, FullSnapshot, SyncTypes
<1>4. ASSUME UNCHANGED vars PROVE PushInv'
    BY <1>1, <1>2, <1>4 DEF vars, Undisturbed
<1>5. ASSUME NEW x \in msgs, Lose(x) PROVE PushInv'
    BY <1>5 DEF Lose, EveryChangePushed
<1>6. ASSUME NEW n \in Node, Crash(n) PROVE PushInv'
    BY <1>6 DEF Crash, EveryChangePushed
<1>7. ASSUME NEW n \in Node, FireDelayed(n) PROVE PushInv'
    BY <1>1, <1>7 DEF FireDelayed, Undisturbed
<1>8. ASSUME NEW n \in Node, FlushChangeFeed(n) PROVE PushInv'
    <2>1. /\ msgs' = msgs \cup Broadcast(n, Feed(n, feed[n]))
          /\ UNCHANGED <<state, wire, views>>
          /\ UNCHANGED <<up, scheduled, departed, peers, events>>
        BY <1>8 DEF FlushChangeFeed, shardVars, hostVars
    <2>2. Undisturbed'
        BY <2>1, <1>1 DEF Undisturbed
    <2>3. \A x \in msgs' : x.body.type \in SyncTypes => x \in msgs
        BY <2>1, <1>3, SendBody DEF Broadcast
    <2> QED BY <2>1, <2>2, <2>3, <1>2
<1>9. ASSUME NEW n \in Node, PeriodicSync(n) PROVE PushInv'
    <2>1. /\ msgs' = msgs \cup Broadcast(n, OwnSnapshot(n))
          /\ UNCHANGED <<state, wire, views>>
          /\ UNCHANGED <<up, scheduled, departed, peers, events>>
        BY <1>9 DEF PeriodicSync, engineVars, shardVars, hostVars
    <2>2. Undisturbed'
        BY <2>1, <1>1 DEF Undisturbed
    <2>3. \A x \in msgs' : x \in msgs \/ x.body = OwnSnapshot(n)
        BY <2>1, SendBody DEF Broadcast
    <2> QED BY <2>1, <2>2, <2>3, <1>2, <1>3
<1>10. ASSUME NEW n \in Node, NEW aged \in SUBSET Node, Query(n, aged) PROVE PushInv'
    <2>1. /\ \E T : msgs' = msgs \cup Send(n, T, RequestSnapshot(n))
          /\ UNCHANGED <<state, wire, views>>
          /\ UNCHANGED <<up, scheduled, departed, peers, events>>
        BY <1>10 DEF Query, engineVars, shardVars, hostVars
    <2>2. Undisturbed'
        BY <2>1, <1>1 DEF Undisturbed
    <2>3. \A x \in msgs' : x.body.type \in SyncTypes => x \in msgs
        BY <2>1, <1>3, SendBody
    <2> QED BY <2>1, <2>2, <2>3, <1>2
<1>11. ASSUME NEW n \in Node, NEW p \in Node, RegisterPeer(n, p) PROVE PushInv'
    BY <1>1, <1>11 DEF RegisterPeer, Undisturbed
<1>12. ASSUME NEW n \in Node, Restart(n) PROVE PushInv'
    BY <1>1, <1>12 DEF Restart, Undisturbed
<1>13. ASSUME NEW n \in Node, NEW c \in Change, NEW u \in Urgency,
              Mutate(n, c, u) \/ MutateWithDelta(n, c, u)
       PROVE  PushInv'
    BY <1>13, MutationPushed
<1>14. ASSUME NEW n \in Node, NEW p \in Node, NodeJoined(n, p) PROVE PushInv'
    <2>1. \A m, q \in Node :
             \/ views'[m][q] = views[m][q]
             \/ views'[m][q] = Placeholder(DefaultView)
        BY <1>14, JoinStep
    <2>2. Placeholder(DefaultView).gen = Zero
        BY DEF Placeholder
    <2>3. /\ msgs' = msgs \cup Send(n, {p}, OwnSnapshot(n))
          /\ UNCHANGED <<state, wire, up, scheduled, peers>>
          /\ departed' = [departed EXCEPT ![n] = departed[n] \ {p}]
          /\ events' = [events EXCEPT ![n] = @ \ {Joined(p)}]
        BY <1>14 DEF NodeJoined, Readmitted
    <2>4. Undisturbed'
        <3>1. departed \in [Node -> SUBSET Node] /\ events \in [Node -> SUBSET MembershipEvent]
            BY DEF Inv, TypeInv, TypeOK
        <3>2. \A m \in Node : departed'[m] = {} /\ events'[m] \subseteq events[m]
            BY <2>3, <3>1, <1>1 DEF Undisturbed
        <3> QED BY <2>3, <3>2, <1>1 DEF Undisturbed
    <2>5. \A x \in msgs' : x \in msgs \/ x.body = OwnSnapshot(n)
        BY <2>3, SendBody
    <2>6. \A m, q \in Node : m # q =>
              views'[m][q] = views[m][q] \/ views'[m][q] = NoView
                  \/ views'[m][q].gen = Zero
        BY <2>1, <2>2
    <2>7. \A x \in msgs' : x.body.type \in SyncTypes =>
              \/ x \in msgs
              \/ /\ x.body.src \in Node
                 /\ x.body.wire = wire[x.body.src]
                 /\ x.body.gen = state[x.body.src].gen
        BY <2>5, <1>3
    <2> QED BY <2>3, <2>4, <2>6, <2>7, PushQuiet
<1>15. ASSUME NEW n \in Node, NEW p \in Node, NodeLeft(n, p) PROVE PushInv'
    BY <1>1, <1>15 DEF NodeLeft, Undisturbed
<1>16. ASSUME NEW n \in Node, NEW x \in msgs, Receive(n, x) PROVE PushInv'
    BY <1>16, ReceivePushed
<1>17. ASSUME NEW n \in Node,
              \/ Crash(n)
              \/ Restart(n)
              \/ \E c \in Change, u \in Urgency :
                    Mutate(n, c, u) \/ MutateWithDelta(n, c, u)
              \/ FireDelayed(n)
              \/ FlushChangeFeed(n)
              \/ PeriodicSync(n)
              \/ \E aged \in SUBSET Node : Query(n, aged)
              \/ \E p \in Node :
                    NodeJoined(n, p) \/ NodeLeft(n, p) \/ RegisterPeer(n, p)
              \/ \E x \in msgs : Receive(n, x)
       PROVE  PushInv'
    BY <1>6, <1>7, <1>8, <1>9, <1>10, <1>11, <1>12, <1>13, <1>14, <1>15, <1>16, <1>17
<1>18. ASSUME Next PROVE PushInv'
    <2>1. CASE \E x \in msgs : Lose(x)
        BY <2>1, <1>5
    <2> QED BY <2>1, <1>17, <1>18 DEF Next
<1> QED BY <1>4, <1>18

\* Where every change is pushed as it is made and the network neither loses nor
\* reorders, the delta that arrives next continues the view of its sender's
\* lifetime: only what SyncUrgency::Suppress withholds, what is delayed or only
\* announced, and what the network does make the check of handle_delta_update
\* find a gap.
THEOREM NoGapWithoutCause ==
    ASSUME EveryChangePushed
    PROVE  Spec => []SuppressedJoinNextDelta
<1>1. Init => PushInv
    <2> SUFFICES ASSUME Init PROVE PushInv
        OBVIOUS
    <2>1. Undisturbed
        <3>1. \A n \in Node : state[n].gen.inc = 1
            BY DEF Init, FirstGen, NewGeneration
        <3>2. \A n, p \in Node : Left(p) \notin events[n]
            BY DEF Init, Left, Joined
        <3> QED BY <3>1, <3>2 DEF Init, Undisturbed
    <2>2. TransitClosed
        BY DEF Init, TransitClosed
    <2>3. ViewsFollowed
        BY DEF Init, ViewsFollowed, FirstViews
    <2> QED BY <2>1, <2>2, <2>3 DEF PushInv
<1>2. Inv /\ Inv' /\ PushInv /\ [Next]_vars => PushInv'
    BY PushStep
<1>3. Inv /\ PushInv => SuppressedJoinNextDelta
    <2> SUFFICES ASSUME Inv, PushInv, NEW x \in msgs, Deliverable(x),
                        ReadableDelta(x.dst, x, "Gap"),
                        x.body.gen.inc = views[x.dst][x.body.src].gen.inc
                 PROVE  FALSE
        BY DEF SuppressedJoinNextDelta
    <2> DEFINE n == x.dst
               p == x.body.src
               g == views[n][p].gen
    <2>1. /\ x.body.type \in SyncTypes /\ x.body.wire = wire[n] /\ SupportsDelta
          /\ views[n][p] # NoView /\ PreCheck(g, x.body.gen) = "Gap"
        BY DEF ReadableDelta, Takes, SyncTypes
    <2>2. /\ p \in Node /\ n \in Node /\ n # p
          /\ x.body.gen \in Generation /\ x.body.gen.inc = 1
          /\ x.body.gen.age <= state[p].gen.age
        BY <2>1, SyncFacts DEF PushInv
    <2>3. g \in Generation /\ g # Zero
        <3>1. views[n][p] \in Entry
            BY <2>1, <2>2 DEF Inv, TypeInv, TypeOK, OptEntry
        <3>2. g \in Generation
            BY <3>1 DEF Entry
        <3>3. g.inc = 1
            BY <2>2
        <3>4. Zero.inc = 0
            BY DEF Zero, NewGeneration
        <3> HIDE DEF g
        <3> QED BY <3>2, <3>3, <3>4
    <2>4. x.body.gen.age > g.age + 1
        <3>1. x.body.gen # NextAge(g) /\ ~Le(x.body.gen, g)
            BY <2>1 DEF PreCheck
        <3>2. g.inc = x.body.gen.inc
            OBVIOUS
        <3> HIDE DEF g
        <3>3. /\ ~(x.body.gen.age = g.age + 1) /\ ~(x.body.gen.age <= g.age)
              /\ x.body.gen.age \in Nat /\ g.age \in Nat
            BY <2>2, <2>3, <3>1, <3>2, AgesOrder
        <3> QED BY <3>3
    <2>5. wire[n] = wire[p]
        BY <2>1 DEF PushInv, TransitClosed
    <2>6. PushedSince(n, p, g.age)
        BY <2>1, <2>2, <2>3, <2>5 DEF PushInv, ViewsFollowed
    <2>7. g.age \in Nat /\ state[p].gen.age \in Nat /\ x.body.gen.age \in Nat
        BY <2>2, <2>3 DEF Inv, TypeInv, TypeOK, Generation
    <2>8. InTransit(p, n, g.age + 1)
        BY <2>2, <2>4, <2>6, <2>7 DEF PushedSince
    <2>9. PICK y \in msgs : /\ y.dst = n /\ y.body.src = p
                            /\ y.body.type \in SyncTypes
                            /\ y.body.gen.age = g.age + 1
        BY <2>8 DEF InTransit
    <2>10. Le(x.body.gen, y.body.gen)
        BY <2>1, <2>9 DEF Deliverable, EveryChangePushed, SyncTypes
    <2>11. y.body.gen \in Generation /\ y.body.gen.inc = 1
        BY <2>9, SyncFacts DEF PushInv
    <2>12. x.body.gen.age <= y.body.gen.age
        BY <2>2, <2>10, <2>11, AgesOrder
    <2> QED BY <2>4, <2>7, <2>9, <2>12
<1> QED BY <1>1, <1>2, <1>3, SafetyInvariant, PTL DEF Spec

-----------------------------------------------------------------------------
(* Refinement.                                                             *)

Copy == [gen : Generation, value : View] \cup {NoView}

\* The copies are copies.
LEMMA CopiesType == TypeOK => Copies \in [Node -> [Node -> Copy]]
<1> SUFFICES ASSUME TypeOK PROVE Copies \in [Node -> [Node -> Copy]]
    OBVIOUS
<1>1. \A n, p \in Node : views[n][p] \in OptEntry
    BY DEF TypeOK
<1>2. \A n, p \in Node :
        (IF p = n \/ views[n][p] = NoView THEN NoView
         ELSE [gen |-> views[n][p].gen, value |-> views[n][p].value]) \in Copy
    BY <1>1 DEF OptEntry, Entry, Copy
<1> QED BY <1>2 DEF Copies

\* So are those of the next state.
LEMMA CopiesTypeNext == TypeOK' => Copies' \in [Node -> [Node -> Copy]]
<1> SUFFICES ASSUME TypeOK' PROVE Copies' \in [Node -> [Node -> Copy]]
    OBVIOUS
<1>1. \A n, p \in Node : views'[n][p] \in OptEntry
    BY DEF TypeOK
<1>2. \A n, p \in Node :
        (IF p = n \/ views'[n][p] = NoView THEN NoView
         ELSE [gen |-> views'[n][p].gen, value |-> views'[n][p].value]) \in Copy
    BY <1>1 DEF OptEntry, Entry, Copy
<1> QED BY <1>2 DEF Copies

\* Two-level functions that differ at one place at most.
LEMMA OnePlace ==
    ASSUME NEW S, NEW T, NEW f \in [S -> [S -> T]], NEW g \in [S -> [S -> T]],
           NEW n \in S, NEW p \in S,
           \A m, q \in S : ~(m = n /\ q = p) => g[m][q] = f[m][q]
    PROVE  g = [f EXCEPT ![n][p] = g[n][p]]
<1>1. \A m \in S : m # n => g[m] = f[m]
    OBVIOUS
<1>2. g[n] = [f[n] EXCEPT ![p] = g[n][p]]
    OBVIOUS
<1> QED BY <1>1, <1>2

\* A step that changes one copy: nothing, the copy of a newer published version,
\* a placeholder, or none.
LEMMA OneCopy ==
    ASSUME Inv, Inv', NEW n \in Node, NEW p \in Node, n # p, UNCHANGED hist,
           \A m, q \in Node : ~(m = n /\ q = p) => views'[m][q] = views[m][q],
           \/ EntryStep(n, p)
           \/ views[n][p] = NoView /\ views'[n][p] = Placeholder(DefaultView)
           \/ views'[n][p] = views[n][p]
    PROVE  [Abstract!Next]_(Abstract!vars)
<1>1. Copies \in [Node -> [Node -> Copy]] /\ Copies' \in [Node -> [Node -> Copy]]
    BY CopiesType, CopiesTypeNext DEF Inv, TypeInv
<1>2. \A m, q \in Node : ~(m = n /\ q = p) => Copies'[m][q] = Copies[m][q]
    BY DEF Copies
<1>3. Copies' = [Copies EXCEPT ![n][p] = Copies'[n][p]]
    BY <1>1, <1>2, OnePlace
<1>4. /\ Copies[n][p] = IF views[n][p] = NoView THEN NoView
                        ELSE [gen |-> views[n][p].gen, value |-> views[n][p].value]
      /\ Copies'[n][p] = IF views'[n][p] = NoView THEN NoView
                         ELSE [gen |-> views'[n][p].gen, value |-> views'[n][p].value]
    BY DEF Copies
<1>5. CASE views'[n][p] = NoView
    <2>1. Abstract!Forget(n, p)
        BY <1>3, <1>4, <1>5 DEF Abstract!Forget
    <2> QED BY <2>1 DEF Abstract!Next
<1>6. CASE Copies'[n][p] = Copies[n][p]
    <2>1. Copies' = Copies
        BY <1>1, <1>3, <1>6
    <2> QED BY <2>1 DEF Abstract!vars
<1>7. CASE views[n][p] = NoView /\ views'[n][p] = Placeholder(DefaultView)
    <2>1. Placeholder(DefaultView) # NoView
        BY NoViewAssumption, DataAssumption, NoGenAssumption
           DEF Placeholder, Entry, OptGeneration, Generation, Zero,
               PlaceholderPending, NewGeneration, DataAssumption
    <2>2. Copies'[n][p] = Abstract!Blank
        BY <1>4, <1>7, <2>1 DEF Placeholder, Abstract!Blank, Abstract!Zero, Zero,
               Abstract!NewGeneration, NewGeneration
    <2>3. Abstract!Introduce(n, p)
        BY <1>3, <1>4, <1>7, <2>2 DEF Abstract!Introduce
    <2> QED BY <2>3 DEF Abstract!Next
<1>8. CASE /\ views'[n][p] # NoView
           /\ views'[n][p].gen # Zero
           /\ views[n][p] # NoView => Lt(views[n][p].gen, views'[n][p].gen)
    <2>1. PICK w : Published(p, views'[n][p].gen, w, views'[n][p].value) \in hist'
        BY <1>8 DEF Inv, Entries, EntrySafe
    <2> DEFINE h == Published(p, views'[n][p].gen, w, views'[n][p].value)
    <2>2. /\ h \in hist
          /\ h.node = p
          /\ h.gen = views'[n][p].gen
          /\ h.view = views'[n][p].value
        BY <2>1 DEF Published
    <2> HIDE DEF h
    <2>3. Copies'[n][p] = Abstract!CopyOf(h)
        BY <1>4, <1>8, <2>2 DEF Abstract!CopyOf
    <2>4. Copies[n][p] # NoView => Abstract!Lt(Copies[n][p].gen, h.gen)
        BY <1>4, <1>8, <2>2 DEF Abstract!Lt, Lt
    <2>5. Abstract!Learn(n, p)
        BY <1>3, <2>2, <2>3, <2>4 DEF Abstract!Learn
    <2> QED BY <2>5 DEF Abstract!Next
<1>9. CASE /\ views[n][p] # NoView /\ views'[n][p] # NoView
           /\ views'[n][p].gen = views[n][p].gen
           /\ views'[n][p].value = views[n][p].value
    BY <1>4, <1>6, <1>9
<1>10. CASE views'[n][p] = views[n][p]
    BY <1>4, <1>6, <1>10
<1> QED BY <1>5, <1>7, <1>8, <1>9, <1>10 DEF EntryStep

\* The first states map to first states.
LEMMA RefinesInit == Init => Abstract!Init
<1> SUFFICES ASSUME Init PROVE Abstract!Init
    OBVIOUS
<1>1. \A h, k \in hist : h.node = k.node => h = k
    BY DEF Init, Published
<1>2. Copies = [n \in Node |-> [p \in Node |-> NoView]]
    BY DEF Init, FirstViews, Copies
<1> QED BY <1>1, <1>2 DEF Abstract!Init

\* Every step maps to a step of ReplicatedViews, or to none.
LEMMA RefinesNext ==
    Inv /\ Inv' /\ [Next]_vars => [Abstract!Next]_(Abstract!vars)
<1> SUFFICES ASSUME Inv, Inv', [Next]_vars
             PROVE  [Abstract!Next]_(Abstract!vars)
    OBVIOUS
<1>1. Copies \in [Node -> [Node -> Copy]] /\ Copies' \in [Node -> [Node -> Copy]]
    BY CopiesType, CopiesTypeNext DEF Inv, TypeInv
<1>2. ASSUME \A m, q \in Node : m # q => views'[m][q] = views[m][q]
      PROVE  Copies' = Copies
    <2>1. \A m, q \in Node : Copies'[m][q] = Copies[m][q]
        BY <1>2 DEF Copies
    <2> QED BY <1>1, <2>1
<1>3. CASE Calm
    BY <1>2, <1>3 DEF Calm, Abstract!vars
<1>4. ASSUME NEW n \in Node, Restart(n) PROVE [Abstract!Next]_(Abstract!vars)
    <2>1. /\ Abstract!Publishes(n)
          /\ \A q \in Node : q # n => views'[n][q] = NoView
          /\ \A m, q \in Node : m # n => views'[m][q] = views[m][q]
        BY <1>4, RestartStep
    <2>2. /\ \A q \in Node : Copies'[n][q] = NoView
          /\ \A m, q \in Node : m # n => Copies'[m][q] = Copies[m][q]
        BY <2>1 DEF Copies
    <2>3. Copies'[n] = [q \in Node |-> NoView]
        BY <1>1, <2>2
    <2>4. \A m \in Node : m # n => Copies'[m] = Copies[m]
        BY <1>1, <2>2
    <2>5. Copies' = [Copies EXCEPT ![n] = [q \in Node |-> NoView]]
        BY <1>1, <2>3, <2>4
    <2> QED BY <2>1, <2>5 DEF Abstract!StartAnew, Abstract!Next
<1>5. ASSUME NEW n \in Node, NEW c \in Change, NEW u \in Urgency,
             Mutate(n, c, u) \/ MutateWithDelta(n, c, u)
      PROVE  [Abstract!Next]_(Abstract!vars)
    <2>1. /\ Abstract!Publishes(n)
          /\ \A m, q \in Node : m # q => views'[m][q] = views[m][q]
        BY <1>5, MutationStep
    <2>2. Copies' = Copies
        BY <1>2, <2>1
    <2> QED BY <2>1, <2>2 DEF Abstract!Publish, Abstract!Next
<1>6. ASSUME NEW n \in Node, NEW p \in Node, NodeJoined(n, p)
      PROVE  [Abstract!Next]_(Abstract!vars)
    <2>1. /\ UNCHANGED hist
          /\ \A m, q \in Node :
                 \/ views'[m][q] = views[m][q]
                 \/ /\ m = n /\ q = p /\ n # p
                    /\ views[m][q] = NoView
                    /\ views'[m][q] = Placeholder(DefaultView)
        BY <1>6, JoinStep
    <2>2. CASE n = p
        BY <1>2, <2>1, <2>2 DEF Abstract!vars
    <2>3. CASE n # p
        BY <2>1, <2>3, OneCopy
    <2> QED BY <2>2, <2>3
<1>7. ASSUME NEW n \in Node, NEW p \in Node, NodeLeft(n, p)
      PROVE  [Abstract!Next]_(Abstract!vars)
    <2>1. /\ UNCHANGED hist
          /\ n # p => views'[n][p] = NoView
          /\ n = p => views' = views
          /\ \A m, q \in Node : ~(m = n /\ q = p) => views'[m][q] = views[m][q]
        BY <1>7, LeaveStep
    <2>2. CASE n = p
        BY <1>2, <2>1, <2>2 DEF Abstract!vars
    <2>3. CASE n # p
        <3>1. EntryStep(n, p)
            BY <2>1, <2>3 DEF EntryStep
        <3> QED BY <2>1, <2>3, <3>1, OneCopy
    <2> QED BY <2>2, <2>3
<1>8. ASSUME NEW n \in Node, NEW x \in msgs, Receive(n, x)
      PROVE  [Abstract!Next]_(Abstract!vars)
    <2> DEFINE p == x.body.src
    <2>1. /\ p \in Node /\ p # n
          /\ UNCHANGED hist
          /\ \A m, q \in Node : ~(m = n /\ q = p) => views'[m][q] = views[m][q]
          /\ EntryStep(n, p)
        BY <1>8, ReceiveStep
    <2> HIDE DEF p
    <2> QED BY <2>1, OneCopy
<1> QED BY <1>3, <1>4, <1>5, <1>6, <1>7, <1>8, StepKinds

\* The whole protocol, engines, network and membership together, implements
\* ReplicatedViews: what DistributedState promises a reader of the view map.
THEOREM Refinement == Spec => ImplementsReplicatedViews
<1>1. Spec => Abstract!Init /\ [][Abstract!Next]_(Abstract!vars)
    BY RefinesInit, RefinesNext, SafetyInvariant, PTL DEF Spec
<1> QED BY <1>1 DEF ImplementsReplicatedViews, Abstract!Spec

-----------------------------------------------------------------------------
(* The two models of the engine.                                           *)

CONSTANTS Malformed, Wire

Eng == INSTANCE Engine

\* The engine of node n as a value; its counters are more than the status of a
\* peer that StateCluster keeps, so they are given.
EngineOf(n, records) ==
    [id |-> n, gen |-> state[n].gen, value |-> state[n].value,
     views |-> views[n], departed |-> departed[n], feed |-> feed[n],
     diag |-> records]

\* The counters a status abstracts.
Counts(records, n) ==
    /\ DOMAIN records = {p \in Node : diag[n][p] # "none"}
    /\ \A p \in DOMAIN records :
          /\ records[p] \in Eng!PeerDiagnostics
          /\ diag[n][p] = "failing" <=> records[p].failures > 0

\* What may have become of a body under way.
Arrived(b) ==
    IF Damages /\ b.type \in {"FullSnapshot", "DeltaUpdate"}
    THEN {b, [b EXCEPT !.data = Malformed]} ELSE {b}

Pushes(action) == action \in {"BroadcastSnapshot", "BroadcastDelta"}

\* One method of the engine e, called by n's actor, and what the actor does with
\* the actions it returns; f is the engine after it.
MutateCall(n, e, f) ==
    \E c \in Change, u \in Urgency :
        LET action == ResolveAction(u) IN
        \E body \in {Eng!SnapshotBody(e, c), Eng!DeltaBody(e, c, action)} :
            /\ f = Eng!AfterMutation(e, c, action)
            /\ msgs' = IF Pushes(action) THEN msgs \cup Broadcast(n, body) ELSE msgs
            /\ scheduled'[n] = IF action = "ScheduleDelayed"
                               THEN scheduled[n] \cup {body} ELSE scheduled[n]

\* What n's actor sends to p, one after the other.
Answers(n, p, bodies) == UNION {Send(n, {p}, bodies[k]) : k \in DOMAIN bodies}

InboundCall(n, e, f) ==
    \E x \in msgs : \E b \in Arrived(x.body) :
        /\ f = Eng!HandleInbound(e, b)
        /\ msgs' = Remaining(x) \cup Answers(n, b.src, Eng!Replies(e, b))

FlushCall(n, e, f) ==
    /\ f = Eng!Flushed(e)
    /\ msgs' = msgs \cup Broadcast(n, Eng!FeedBatch(e))

JoinedCall(n, e, f) ==
    \E p \in Node :
        /\ f = Eng!OnNodeJoined(e, p)
        /\ msgs' = msgs \cup Send(n, {p}, Eng!OwnSnapshot(e))

LeftCall(n, e, f) ==
    \E p \in Node :
        /\ f = Eng!OnNodeLeft(e, p)
        /\ msgs' = msgs

\* The methods that leave the engine alone.
ReadCall(n, e, f) ==
    /\ f = e
    /\ \/ msgs' = msgs \cup Broadcast(n, Eng!OwnSnapshot(e))
       \/ \E aged \in SUBSET Node :
             msgs' = msgs \cup Send(n, Eng!Pulled(e, aged), Eng!Request(e))

EngineCall(n, e, f) ==
    \/ MutateCall(n, e, f)
    \/ InboundCall(n, e, f)
    \/ FlushCall(n, e, f)
    \/ JoinedCall(n, e, f)
    \/ LeftCall(n, e, f)
    \/ ReadCall(n, e, f)

\* The steps of n's actor in which its engine is called.
Drives(n) ==
    \/ \E c \in Change, u \in Urgency : Mutate(n, c, u) \/ MutateWithDelta(n, c, u)
    \/ FlushChangeFeed(n)
    \/ PeriodicSync(n)
    \/ \E aged \in SUBSET Node : Query(n, aged)
    \/ \E p \in Node : NodeJoined(n, p) \/ NodeLeft(n, p)
    \/ \E x \in msgs : Receive(n, x)

\* The checks of handle_delta_update before it runs the applier and those of
\* accept_inbound_delta after it say the same: once the applier has run, the
\* result is Applied, and the code for the other results is never reached.
THEOREM ChecksAgree ==
    ASSUME NEW e \in Entry, NEW g \in Generation
    PROVE  /\ PreCheck(e.gen, g) = "Follows" <=> DeltaVerdict(e, g) = "Applied"
           /\ PreCheck(e.gen, g) = "Stale" <=> DeltaVerdict(e, g) = "Discarded"
           /\ PreCheck(e.gen, g) = "Gap" <=> DeltaVerdict(e, g) = "GapDetected"
<1> DEFINE h == e.gen
<1>0. e # NoView /\ h \in Generation
    BY NoViewAssumption DEF Entry
<1>1. /\ g.inc \in Nat /\ g.age \in Nat /\ h.inc \in Nat /\ h.age \in Nat
      /\ h = [inc |-> h.inc, age |-> h.age] /\ g = [inc |-> g.inc, age |-> g.age]
    BY <1>0 DEF Generation
<1>2. g = NextAge(h) <=> g.inc = h.inc /\ g.age = h.age + 1
    BY <1>1 DEF NextAge, NewGeneration
<1>3. Le(g, h) <=> g.inc < h.inc \/ (g.inc = h.inc /\ g.age <= h.age)
    BY <1>1 DEF Le, Lt
<1> HIDE DEF h
<1>4. CASE g.inc < h.inc
    BY <1>0, <1>1, <1>2, <1>3, <1>4 DEF PreCheck, DeltaVerdict, h
<1>5. CASE g.inc > h.inc
    BY <1>0, <1>1, <1>2, <1>3, <1>5 DEF PreCheck, DeltaVerdict, h
<1>6. CASE g.inc = h.inc /\ g.age <= h.age
    BY <1>0, <1>1, <1>2, <1>3, <1>6 DEF PreCheck, DeltaVerdict, h
<1>7. CASE g.inc = h.inc /\ g.age = h.age + 1
    BY <1>0, <1>1, <1>2, <1>3, <1>7 DEF PreCheck, DeltaVerdict, h
<1>8. CASE g.inc = h.inc /\ g.age > h.age + 1
    BY <1>0, <1>1, <1>2, <1>3, <1>8 DEF PreCheck, DeltaVerdict, h
<1> QED BY <1>1, <1>4, <1>5, <1>6, <1>7, <1>8

\* Both models use the same rules.
LEMMA SameRules ==
    /\ \A e, g : Eng!SnapshotAccepted(e, g) = SnapshotAccepted(e, g)
    /\ \A e, g, v : Eng!AcceptSnapshot(e, g, v) = AcceptSnapshot(e, g, v)
    /\ \A e, g, v : Eng!AcceptDelta(e, g, v) = AcceptDelta(e, g, v)
    /\ \A e, g : Eng!MarkStale(e, g) = MarkStale(e, g)
    /\ \A e, v : Eng!InsertPlaceholder(e, v) = InsertPlaceholder(e, v)
    /\ \A g, v : Eng!OwnEntry(g, v) = OwnEntry(g, v)
    /\ \A g : Eng!NextAge(g) = NextAge(g)
    /\ \A g, h : Eng!Lt(g, h) = Lt(g, h)
    /\ \A g, h : Eng!Le(g, h) = Le(g, h)
    /\ \A own, w, intact : Eng!OnInbound(own, w, intact) = OnInbound(own, w, intact)
    /\ Eng!OnDeserializeError = OnDeserializeError
<1>1. \A g, h : Eng!Lt(g, h) = Lt(g, h)
    BY DEF Lt, Eng!Lt
<1>2. \A g, h : Eng!Le(g, h) = Le(g, h)
    BY <1>1 DEF Le, Eng!Le
<1>3. \A e, g : Eng!SnapshotAccepted(e, g) = SnapshotAccepted(e, g)
    BY <1>1 DEF SnapshotAccepted, ShouldAccept, Eng!SnapshotAccepted, Eng!ShouldAccept
<1>4. \A e, g, v : Eng!Updated(e, g, v) = Updated(e, g, v)
    BY <1>1 DEF Updated, KeptPending, Eng!Updated, Eng!KeptPending
<1>5. \A e, g, v : Eng!AcceptSnapshot(e, g, v) = AcceptSnapshot(e, g, v)
    BY <1>3, <1>4 DEF AcceptSnapshot, Eng!AcceptSnapshot
<1>6. \A e, g : Eng!DeltaVerdict(e, g) = DeltaVerdict(e, g)
    BY Zenon DEF DeltaVerdict, Eng!DeltaVerdict
<1>7. \A e, g, v : Eng!AcceptDelta(e, g, v) = AcceptDelta(e, g, v)
    BY <1>4, <1>6 DEF AcceptDelta, Eng!AcceptDelta
<1>8. \A e, g : Eng!MarkStale(e, g) = MarkStale(e, g)
    BY <1>2 DEF MarkStale, Eng!MarkStale
<1>9. \A e, v : Eng!InsertPlaceholder(e, v) = InsertPlaceholder(e, v)
    BY DEF InsertPlaceholder, Placeholder, PlaceholderPending, Zero, NewGeneration,
           Eng!InsertPlaceholder, Eng!Placeholder, Eng!PlaceholderPending, Eng!Zero,
           Eng!NewGeneration
<1>10. \A g, v : Eng!OwnEntry(g, v) = OwnEntry(g, v)
    BY DEF OwnEntry, Eng!OwnEntry
<1>11. \A g : Eng!NextAge(g) = NextAge(g)
    BY DEF NextAge, NewGeneration, Eng!NextAge, Eng!NewGeneration
<1>12. Eng!OnDeserializeError = OnDeserializeError
    BY DEF OnDeserializeError, Eng!OnDeserializeError
<1>13. \A own, w, intact : Eng!OnInbound(own, w, intact) = OnInbound(own, w, intact)
    BY <1>12, Zenon DEF OnInbound, Eng!OnInbound
<1> QED BY <1>1, <1>2, <1>3, <1>5, <1>7, <1>8, <1>9, <1>10, <1>11, <1>12, <1>13

\* The situation of an actor that runs the engine of the given build, and of
\* which every counter is known.
Situation(n, d) ==
    /\ TypeInv
    /\ n \in Node
    /\ wire[n] = Wire
    /\ Malformed \notin View \cup Delta
    /\ Counts(d, n)

\* mutate and mutate_with_delta.
LEMMA MutateAgrees ==
    ASSUME NEW n, NEW d, Situation(n, d), NEW c \in Change, NEW u \in Urgency,
           Mutate(n, c, u) \/ MutateWithDelta(n, c, u)
    PROVE  MutateCall(n, EngineOf(n, d), EngineOf(n, d)') /\ Counts(d, n)'
<1> DEFINE e == EngineOf(n, d)
           action == ResolveAction(u)
           gen == NextAge(state[n].gen)
           value == ApplyChange(state[n].value, c)
           view == OwnEntry(gen, Project(value))
<1>1. TypeOK /\ n \in Node /\ wire[n] = Wire
    BY DEF Situation, TypeInv
<1>2. /\ state'[n] = [gen |-> gen, value |-> value]
      /\ views'[n] = [views[n] EXCEPT ![n] = view]
      /\ departed' = departed /\ diag' = diag
    BY <1>1 DEF Mutate, MutateWithDelta, ApplyMutation, TypeOK
<1>3. Counts(d, n)'
    BY <1>2 DEF Situation, Counts
<1>4. Eng!Mutated(e, c) = [id |-> n, gen |-> gen, value |-> value,
        views |-> [views[n] EXCEPT ![n] = view], departed |-> departed[n],
        feed |-> feed[n], diag |-> d]
    <2>1. /\ e.id = n /\ e.gen = state[n].gen /\ e.value = state[n].value
          /\ e.views = views[n]
        BY DEF EngineOf
    <2>2. Eng!Mutated(e, c) =
              [e EXCEPT !.gen = gen, !.value = value,
                        !.views = [views[n] EXCEPT ![n] = view]]
        BY <2>1, SameRules DEF Eng!Mutated
    <2> HIDE DEF gen, value, view
    <2> QED BY <2>2 DEF EngineOf
<1>5. feed'[n] = IF action = "NotifyChangeFeed" THEN NotifyChange(feed[n], gen) ELSE feed[n]
    BY <1>1 DEF Mutate, MutateWithDelta, Perform, TypeOK
<1>6. EngineOf(n, d)' = Eng!AfterMutation(e, c, action)
    <2> HIDE DEF action, gen, value, view
    <2>1. EngineOf(n, d)' = [id |-> n, gen |-> gen, value |-> value,
             views |-> [views[n] EXCEPT ![n] = view], departed |-> departed[n],
             feed |-> feed'[n], diag |-> d]
        BY <1>2 DEF EngineOf
    <2>2. Eng!Notified(Eng!Mutated(e, c)) = [id |-> n, gen |-> gen, value |-> value,
             views |-> [views[n] EXCEPT ![n] = view], departed |-> departed[n],
             feed |-> NotifyChange(feed[n], gen), diag |-> d]
        BY <1>4, SameRules DEF Eng!Notified, NotifyChange
    <2> QED BY <1>4, <1>5, <2>1, <2>2 DEF Eng!AfterMutation
<1>7. /\ Eng!SnapshotBody(e, c) = MutateBody(n, gen, value)
      /\ Eng!DeltaBody(e, c, action) = MutateWithDeltaBody(n, gen, c, action)
    <2>1. Eng!SnapshotBody(e, c) = MutateBody(n, gen, value)
        BY <1>1, <1>4 DEF Eng!SnapshotBody, Eng!Sync, MutateBody, FullSnapshot, EngineOf
    <2> HIDE DEF action
    <2>2. Eng!DeltaBody(e, c, action) = MutateWithDeltaBody(n, gen, c, action)
        BY <1>1, <1>4, <2>1 DEF Eng!DeltaBody, Eng!Sync, MutateWithDeltaBody,
            MutateBody, FullSnapshot, DeltaUpdate, EngineOf
    <2> QED BY <2>1, <2>2
<1>8. PICK body \in {Eng!SnapshotBody(e, c), Eng!DeltaBody(e, c, action)} :
          Perform(n, action, gen, body)
    BY <1>7 DEF Mutate, MutateWithDelta
<1>9. /\ msgs' = IF Pushes(action) THEN msgs \cup Broadcast(n, body) ELSE msgs
      /\ scheduled'[n] = IF action = "ScheduleDelayed"
                         THEN scheduled[n] \cup {body} ELSE scheduled[n]
    <2> HIDE DEF action, gen
    <2> QED BY <1>1, <1>8 DEF Perform, TypeOK, Pushes
<1>10. MutateCall(n, e, EngineOf(n, d)')
    <2> HIDE DEF e
    <2> QED BY <1>6, <1>9 DEF MutateCall
<1> QED BY <1>3, <1>10

\* flush_change_feed.
LEMMA FlushAgrees ==
    ASSUME NEW n, NEW d, Situation(n, d), FlushChangeFeed(n)
    PROVE  FlushCall(n, EngineOf(n, d), EngineOf(n, d)') /\ Counts(d, n)'
<1>1. TypeOK /\ n \in Node
    BY DEF Situation, TypeInv
<1>2. Counts(d, n)'
    BY DEF Situation, Counts, FlushChangeFeed
<1>3. EngineOf(n, d)' = Eng!Flushed(EngineOf(n, d))
    <2>1. /\ feed'[n] = NoGen
          /\ state' = state /\ views' = views /\ departed' = departed
        BY <1>1 DEF FlushChangeFeed, TypeOK, shardVars
    <2>2. EngineOf(n, d)' = [EngineOf(n, d) EXCEPT !.feed = NoGen]
        BY <2>1 DEF EngineOf
    <2> QED BY <2>2 DEF Eng!Flushed
<1>4. Eng!FeedBatch(EngineOf(n, d)) = Feed(n, feed[n])
    BY DEF EngineOf, Eng!FeedBatch, Feed
<1> QED BY <1>2, <1>3, <1>4 DEF FlushCall, FlushChangeFeed

\* The own snapshot of both.
LEMMA OwnSnapshotAgrees ==
    ASSUME NEW n, NEW d, Situation(n, d)
    PROVE  Eng!OwnSnapshot(EngineOf(n, d)) = OwnSnapshot(n)
BY DEF Situation, EngineOf, Eng!OwnSnapshot, Eng!Sync, OwnSnapshot, FullSnapshot

\* An unchanged engine.
LEMMA EngineKept ==
    ASSUME NEW n, NEW d, Situation(n, d), UNCHANGED <<state, views, departed, feed, diag>>
    PROVE  EngineOf(n, d)' = EngineOf(n, d) /\ Counts(d, n)'
BY DEF Situation, Counts, EngineOf

\* periodic_sync and query.
LEMMA ReadAgrees ==
    ASSUME NEW n, NEW d, Situation(n, d),
           PeriodicSync(n) \/ \E aged \in SUBSET Node : Query(n, aged)
    PROVE  ReadCall(n, EngineOf(n, d), EngineOf(n, d)') /\ Counts(d, n)'
<1> DEFINE e == EngineOf(n, d)
<1>1. TypeOK /\ n \in Node
    BY DEF Situation, TypeInv
<1>2. EngineOf(n, d)' = e /\ Counts(d, n)'
    BY EngineKept DEF PeriodicSync, Query, engineVars, shardVars
<1>3. CASE PeriodicSync(n)
    BY <1>2, <1>3, OwnSnapshotAgrees DEF PeriodicSync, ReadCall
<1>4. ASSUME NEW aged \in SUBSET Node, Query(n, aged)
      PROVE  ReadCall(n, e, EngineOf(n, d)')
    <2>1. Eng!Request(e) = RequestSnapshot(n)
        BY DEF Eng!Request, RequestSnapshot, EngineOf
    <2>2. Eng!KnownPeers(n, views[n]) = {p \in Node \ {n} : views[n][p] # NoView}
        BY <1>1 DEF Eng!KnownPeers, TypeOK
    <2>3. Eng!Pulled(e, aged) = IF PullOnQuery THEN StalePeers(n, aged) \ departed[n] ELSE {}
        BY <2>2 DEF Eng!Pulled, StalePeers, EngineOf
    <2> QED BY <1>2, <1>4, <2>1, <2>3 DEF ReadCall, Query
<1> QED BY <1>2, <1>3, <1>4

\* An engine of n that has its state and feed, and these views, departed nodes
\* and counters.
Holding(n, vs, gone, records) ==
    [id |-> n, gen |-> state[n].gen, value |-> state[n].value,
     views |-> vs, departed |-> gone, feed |-> feed[n], diag |-> records]

\* n's engine, before and after a step that mutates nothing.
LEMMA HoldingStep ==
    ASSUME NEW n, NEW d, NEW d2, UNCHANGED <<state, feed>>
    PROVE  /\ EngineOf(n, d) = Holding(n, views[n], departed[n], d)
           /\ EngineOf(n, d2)' = Holding(n, views'[n], departed'[n], d2)
BY DEF EngineOf, Holding

\* What the engine's helpers change.
LEMMA HoldingParts ==
    \A n, vs, gone, records, p :
        LET e == Holding(n, vs, gone, records) IN
        /\ Eng!Failed(e, p) = Holding(n, vs, gone, Eng!RecordSyncFailure(records, p))
        /\ Eng!Succeeded(e, p) = Holding(n, vs, gone, Eng!RecordSyncSuccess(records, p))
        /\ p # n => Eng!ViewRemoved(e, p) =
                       Holding(n, [vs EXCEPT ![p] = NoView], gone, records)
<1> TAKE n, vs, gone, records, p
<1> DEFINE e == Holding(n, vs, gone, records)
<1>1. /\ e.id = n /\ e.views = vs /\ e.departed = gone /\ e.diag = records
      /\ \A w : [e EXCEPT !.views = w] = Holding(n, w, gone, records)
      /\ \A r : [e EXCEPT !.diag = r] = Holding(n, vs, gone, r)
    BY DEF Holding
<1> HIDE DEF e
<1>2. /\ Eng!Failed(e, p) = [e EXCEPT !.diag = Eng!RecordSyncFailure(records, p)]
      /\ Eng!Succeeded(e, p) = [e EXCEPT !.diag = Eng!RecordSyncSuccess(records, p)]
    BY <1>1 DEF Eng!Failed, Eng!Succeeded
<1>3. p # n => Eng!ViewRemoved(e, p) = [e EXCEPT !.views = [vs EXCEPT ![p] = NoView]]
    BY <1>1 DEF Eng!ViewRemoved
<1> QED BY <1>1, <1>2, <1>3 DEF e

\* The records of DiagnosticsLogic follow the status, and it them.
LEMMA StoreCounts ==
    ASSUME NEW n \in Node, NEW p \in Node, NEW d, TypeOK, Counts(d, n),
           NEW r \in Eng!PeerDiagnostics, NEW status \in {"ok", "failing"},
           status = "failing" <=> r.failures > 0,
           diag' = [diag EXCEPT ![n][p] = status]
    PROVE  Counts(Eng!Store(d, p, r), n)'
<1> DEFINE s == Eng!Store(d, p, r)
<1>1. diag'[n] = [diag[n] EXCEPT ![p] = status] /\ diag[n] \in [Node -> DiagStatus]
    BY DEF TypeOK
<1>2. DOMAIN s = DOMAIN d \cup {p}
    BY DEF Eng!Store
<1>3. \A q \in DOMAIN s : s[q] = IF q = p THEN r ELSE d[q]
    BY DEF Eng!Store
<1>4. DOMAIN s = {q \in Node : diag'[n][q] # "none"}
    BY <1>1, <1>2 DEF Counts
<1> HIDE DEF s
<1>5. \A q \in DOMAIN s :
          /\ s[q] \in Eng!PeerDiagnostics
          /\ diag'[n][q] = "failing" <=> s[q].failures > 0
    <2> SUFFICES ASSUME NEW q \in DOMAIN s
                 PROVE  /\ s[q] \in Eng!PeerDiagnostics
                        /\ diag'[n][q] = "failing" <=> s[q].failures > 0
        OBVIOUS
    <2>1. CASE q = p
        BY <1>1, <1>3, <2>1
    <2>2. CASE q # p
        BY <1>1, <1>2, <1>3, <1>4, <2>2 DEF Counts
    <2> QED BY <2>1, <2>2
<1> QED BY <1>4, <1>5 DEF Counts, s

\* record_sync_success, record_sync_failure, record_gap_detected.
LEMMA RecordsCount ==
    ASSUME NEW n \in Node, NEW p \in Node, NEW d, TypeOK, Counts(d, n)
    PROVE  /\ diag' = Recorded(n, p, "ok") => Counts(Eng!RecordSyncSuccess(d, p), n)'
           /\ diag' = Recorded(n, p, "failing") => Counts(Eng!RecordSyncFailure(d, p), n)'
           /\ diag' = GapRecorded(n, p) => Counts(Eng!RecordGapDetected(d, p), n)'
           /\ diag' = Recorded(n, p, "none") => Counts(Eng!RemovePeer(d, p), n)'
<1> DEFINE r == Eng!DiagnosticsOf(d, p)
<1>1. r \in Eng!PeerDiagnostics
    BY DEF Counts, Eng!DiagnosticsOf, Eng!DefaultDiagnostics, Eng!PeerDiagnostics
<1>2. diag[n][p] \in DiagStatus /\ diag[n] \in [Node -> DiagStatus]
    BY DEF TypeOK
<1>3. diag[n][p] = "failing" <=> r.failures > 0
    BY <1>2 DEF Counts, Eng!DiagnosticsOf, Eng!DefaultDiagnostics
<1> HIDE DEF r
<1>4. /\ [r EXCEPT !.failures = 0] \in Eng!PeerDiagnostics
      /\ [r EXCEPT !.failures = 0].failures = 0
      /\ [r EXCEPT !.failures = r.failures + 1] \in Eng!PeerDiagnostics
      /\ [r EXCEPT !.failures = r.failures + 1].failures > 0
      /\ [r EXCEPT !.gaps = r.gaps + 1] \in Eng!PeerDiagnostics
      /\ [r EXCEPT !.gaps = r.gaps + 1].failures = r.failures
    BY <1>1 DEF Eng!PeerDiagnostics
<1>5. ASSUME diag' = Recorded(n, p, "ok")
      PROVE  Counts(Eng!RecordSyncSuccess(d, p), n)'
    <2>1. Eng!RecordSyncSuccess(d, p) = Eng!Store(d, p, [r EXCEPT !.failures = 0])
        BY DEF Eng!RecordSyncSuccess, r
    <2>2. diag' = [diag EXCEPT ![n][p] = "ok"]
        BY <1>5 DEF Recorded
    <2>3. ~([r EXCEPT !.failures = 0].failures > 0)
        BY <1>4
    <2>4. Counts(Eng!Store(d, p, [r EXCEPT !.failures = 0]), n)'
        BY <1>4, <2>2, <2>3, StoreCounts
    <2> QED BY <2>1, <2>4
<1>6. ASSUME diag' = Recorded(n, p, "failing")
      PROVE  Counts(Eng!RecordSyncFailure(d, p), n)'
    <2>1. Eng!RecordSyncFailure(d, p)
              = Eng!Store(d, p, [r EXCEPT !.failures = r.failures + 1])
        BY DEF Eng!RecordSyncFailure, r
    <2>2. diag' = [diag EXCEPT ![n][p] = "failing"]
        BY <1>6 DEF Recorded
    <2>3. Counts(Eng!Store(d, p, [r EXCEPT !.failures = r.failures + 1]), n)'
        BY <1>4, <2>2, StoreCounts
    <2> QED BY <2>1, <2>3
<1>7. ASSUME diag' = GapRecorded(n, p)
      PROVE  Counts(Eng!RecordGapDetected(d, p), n)'
    <2> DEFINE status == IF diag[n][p] = "none" THEN "ok" ELSE diag[n][p]
    <2>1. Eng!RecordGapDetected(d, p)
              = Eng!Store(d, p, [r EXCEPT !.gaps = r.gaps + 1])
        BY DEF Eng!RecordGapDetected, r
    <2>2. diag' = [diag EXCEPT ![n][p] = status]
        BY <1>7 DEF GapRecorded
    <2>3. status \in {"ok", "failing"} /\ (status = "failing" <=> diag[n][p] = "failing")
        BY <1>2 DEF DiagStatus
    <2>4. status = "failing" <=> [r EXCEPT !.gaps = r.gaps + 1].failures > 0
        BY <1>3, <1>4, <2>3
    <2> HIDE DEF status
    <2>5. \A st \in {"ok", "failing"} :
             /\ st = "failing" <=> [r EXCEPT !.gaps = r.gaps + 1].failures > 0
             /\ diag' = [diag EXCEPT ![n][p] = st]
             => Counts(Eng!Store(d, p, [r EXCEPT !.gaps = r.gaps + 1]), n)'
        BY <1>4, StoreCounts
    <2>6. Counts(Eng!Store(d, p, [r EXCEPT !.gaps = r.gaps + 1]), n)'
        BY <2>2, <2>3, <2>4, <2>5
    <2> QED BY <2>1, <2>6
<1>8. ASSUME diag' = Recorded(n, p, "none")
      PROVE  Counts(Eng!RemovePeer(d, p), n)'
    <2> DEFINE s == Eng!RemovePeer(d, p)
    <2>1. diag'[n] = [diag[n] EXCEPT ![p] = "none"]
        BY <1>8 DEF Recorded, TypeOK
    <2>2. DOMAIN s = DOMAIN d \ {p} /\ \A q \in DOMAIN s : s[q] = d[q]
        BY DEF Eng!RemovePeer
    <2> HIDE DEF s
    <2> QED BY <1>2, <2>1, <2>2 DEF Counts, s
<1> QED BY <1>5, <1>6, <1>7, <1>8

\* on_node_joined.
LEMMA JoinedAgrees ==
    ASSUME NEW n, NEW d, Situation(n, d), NEW p \in Node, NodeJoined(n, p)
    PROVE  JoinedCall(n, EngineOf(n, d), EngineOf(n, d)') /\ Counts(d, n)'
<1> DEFINE entry == IF p = n THEN views[n][p]
                    ELSE InsertPlaceholder(views[n][p], DefaultView)
<1>1. TypeOK /\ n \in Node
    BY DEF Situation, TypeInv
<1>2. /\ views'[n] = [views[n] EXCEPT ![p] = entry]
      /\ departed'[n] = departed[n] \ {p}
      /\ UNCHANGED <<state, feed, diag>>
    BY <1>1 DEF NodeJoined, Readmitted, TypeOK
<1>3. Counts(d, n)'
    BY <1>2 DEF Situation, Counts
<1> HIDE DEF entry
<1>4. EngineOf(n, d)' = Eng!OnNodeJoined(EngineOf(n, d), p)
    <2>1. Eng!OnNodeJoined(EngineOf(n, d), p) =
              [EngineOf(n, d) EXCEPT !.departed = departed[n] \ {p},
                                     !.views = [views[n] EXCEPT ![p] = entry]]
        BY SameRules DEF Eng!OnNodeJoined, EngineOf, entry
    <2> QED BY <1>2, <2>1 DEF EngineOf
<1>5. msgs' = msgs \cup Send(n, {p}, Eng!OwnSnapshot(EngineOf(n, d)))
    BY OwnSnapshotAgrees DEF NodeJoined
<1> QED BY <1>3, <1>4, <1>5 DEF JoinedCall

\* on_node_left.
LEMMA LeftAgrees ==
    ASSUME NEW n, NEW d, Situation(n, d), NEW p \in Node, NodeLeft(n, p)
    PROVE  \E d2 : LeftCall(n, EngineOf(n, d), EngineOf(n, d2)') /\ Counts(d2, n)'
<1> DEFINE d2 == Eng!RemovePeer(d, p)
           kept == IF p = n THEN views[n] ELSE [views[n] EXCEPT ![p] = NoView]
<1>1. TypeOK /\ n \in Node /\ Counts(d, n)
    BY DEF Situation, TypeInv
<1>2. /\ views'[n] = kept
      /\ departed'[n] = departed[n] \cup {p}
      /\ UNCHANGED <<state, feed, msgs>>
    <2>1. views'[n] = [views[n] EXCEPT ![p] = IF p = n THEN views[n][p] ELSE NoView]
        BY <1>1 DEF NodeLeft, EngineNodeLeft, Depart, ViewRemoved, TypeOK
    <2>2. views'[n] = kept
        BY <1>1, <2>1 DEF TypeOK
    <2> QED BY <1>1, <2>2 DEF NodeLeft, EngineNodeLeft, Depart, TypeOK
<1>3. diag' = Recorded(n, p, "none")
    BY DEF NodeLeft, EngineNodeLeft
<1>4. Counts(d2, n)'
    BY <1>1, <1>3, RecordsCount
<1>5. EngineOf(n, d2)' = Eng!OnNodeLeft(EngineOf(n, d), p)
    <2>1. Eng!ViewRemoved(EngineOf(n, d), p) = [EngineOf(n, d) EXCEPT !.views = kept]
        BY DEF Eng!ViewRemoved, EngineOf
    <2> HIDE DEF kept
    <2>2. Eng!OnNodeLeft(EngineOf(n, d), p) =
              [EngineOf(n, d) EXCEPT !.views = kept,
                                     !.departed = departed[n] \cup {p},
                                     !.diag = d2]
        BY <2>1 DEF Eng!OnNodeLeft, EngineOf
    <2> HIDE DEF d2
    <2> QED BY <1>2, <2>2 DEF EngineOf
<1> HIDE DEF d2
<1> QED BY <1>2, <1>4, <1>5 DEF LeftCall

\* No answer, or one.
LEMMA AnswersOf ==
    ASSUME NEW n, NEW p, NEW m
    PROVE  Answers(n, p, <<>>) = {} /\ Answers(n, p, <<m>>) = Send(n, {p}, m)
<1>1. DOMAIN <<>> = {} /\ DOMAIN <<m>> = {1} /\ <<m>>[1] = m
    OBVIOUS
<1> QED BY <1>1 DEF Answers

\* handle_inbound by the kind of message.
LEMMA InboundKinds ==
    ASSUME NEW e, NEW b
    PROVE  /\ b.src \in e.departed =>
                 Eng!HandleInbound(e, b) = e /\ Eng!Replies(e, b) = <<>>
           /\ b.src \notin e.departed =>
                 /\ b.type = "FullSnapshot" =>
                       /\ Eng!HandleInbound(e, b) = Eng!AfterFullSnapshot(e, b)
                       /\ Eng!Replies(e, b) = <<>>
                 /\ b.type = "DeltaUpdate" =>
                       /\ Eng!HandleInbound(e, b) = Eng!AfterDelta(e, b)
                       /\ Eng!Replies(e, b) = IF Eng!AsksForSnapshot(e, b)
                                              THEN <<Eng!Request(e)>> ELSE <<>>
                 /\ b.type = "RequestSnapshot" =>
                       /\ Eng!HandleInbound(e, b) = e
                       /\ Eng!Replies(e, b) = <<Eng!OwnSnapshot(e)>>
                 /\ b.type = "Feed" =>
                       /\ Eng!HandleInbound(e, b) =
                             [e EXCEPT !.views[b.src] = Eng!MarkStale(@, b.gen)]
                       /\ Eng!Replies(e, b) = <<>>
BY DEF Eng!HandleInbound, Eng!Replies

\* The verdict of VersioningLogic::on_inbound on an arrived body.
VerdictOn(b) == Eng!OnInbound(Wire, b.wire, b.data # Malformed)

\* handle_full_snapshot by the verdict.
LEMMA SnapshotKinds ==
    ASSUME NEW e, NEW b
    PROVE  /\ VerdictOn(b) = "Ok" =>
                 IF Eng!SnapshotAccepted(e.views[b.src], b.gen)
                 THEN Eng!AfterFullSnapshot(e, b) =
                        Eng!Succeeded([e EXCEPT !.views[b.src] =
                                          Eng!AcceptSnapshot(@, b.gen, b.data)], b.src)
                 ELSE Eng!AfterFullSnapshot(e, b) = e
           /\ VerdictOn(b) = "DropView" =>
                 Eng!AfterFullSnapshot(e, b) = Eng!Failed(Eng!ViewRemoved(e, b.src), b.src)
           /\ VerdictOn(b) \in {"KeepStale", "MalformedData"} =>
                 Eng!AfterFullSnapshot(e, b) = Eng!Failed(e, b.src)
BY DEF Eng!AfterFullSnapshot, VerdictOn

\* handle_delta_update by what it finds.
LEMMA DeltaKinds ==
    ASSUME NEW e, NEW b
    PROVE  /\ Eng!DeltaOutcome(e, b) = "OtherVersion" =>
                 Eng!AfterDelta(e, b) =
                    Eng!Failed(IF Eng!OnDeserializeError = "DropView"
                               THEN Eng!ViewRemoved(e, b.src) ELSE e, b.src)
           /\ Eng!DeltaOutcome(e, b) \in {"NoBase", "Stale"} => Eng!AfterDelta(e, b) = e
           /\ Eng!DeltaOutcome(e, b) = "Gap" => Eng!AfterDelta(e, b) =
                    [e EXCEPT !.diag = Eng!RecordGapDetected(@, b.src)]
           /\ Eng!DeltaOutcome(e, b) = "Malformed" =>
                 Eng!AfterDelta(e, b) = Eng!Failed(e, b.src)
           /\ Eng!DeltaOutcome(e, b) = "Applied" => Eng!AfterDelta(e, b) =
                    Eng!Succeeded([e EXCEPT !.views[b.src] =
                        Eng!AcceptDelta(@, b.gen, ApplyDelta(@.value, b.data))], b.src)
           /\ Eng!AsksForSnapshot(e, b) <=>
                 Eng!DeltaOutcome(e, b) \in {"NoBase", "Gap", "Malformed"}
BY DEF Eng!AfterDelta, Eng!AsksForSnapshot

\* A message that is taken, and the engine that takes it.
LEMMA TakenMessage ==
    ASSUME NEW n, NEW d, Situation(n, d), NEW x \in msgs, Receive(n, x)
    PROVE  /\ TypeOK /\ n \in Node /\ Counts(d, n) /\ wire[n] = Wire
           /\ x.body \in Body /\ x.body.src \in Node /\ x.body.src # n
           /\ UNCHANGED <<state, feed, departed>>
           /\ x.body \in Arrived(x.body)
           /\ x.body.type = "FullSnapshot" =>
                 /\ x.body.data \in View /\ x.body.data # Malformed
                 /\ x.body.gen \in Generation
           /\ x.body.type = "DeltaUpdate" =>
                 /\ x.body.data \in Delta /\ x.body.data # Malformed
                 /\ x.body.gen \in Generation
<1>1. TypeOK /\ Addressed /\ n \in Node /\ Counts(d, n) /\ wire[n] = Wire
      /\ Malformed \notin View \cup Delta
    BY DEF Situation, TypeInv
<1>2. x \in Message /\ x.body \in Body /\ x.body.src # x.dst
    BY <1>1 DEF TypeOK, Addressed, Message, Body
<1>3. /\ x.dst = n
      /\ UNCHANGED <<state, feed, departed>>
    BY DEF Receive, IgnoreDeparted, HandleFullSnapshot, RejectFullSnapshot,
           RejectDeltaVersion, RequestInsteadOfDelta, DiscardStaleDelta,
           RequestAfterGap, RequestAfterDamage, ApplyDeltaUpdate,
           HandleRequestSnapshot, HandleChangeFeed, ReadableDelta, Takes,
           engineVars, shardVars
<1>4. x.body.src \in Node
    BY <1>2 DEF Body, SyncBody, FullSnapshotBody, DeltaUpdateBody,
            RequestSnapshotBody, FeedBody
<1>5. x.body \in Arrived(x.body)
    BY DEF Arrived
<1>6. x.body.type = "FullSnapshot" =>
         x.body.data \in View /\ x.body.gen \in Generation
    BY <1>2 DEF Body, SyncBody, FullSnapshotBody, DeltaUpdateBody,
            RequestSnapshotBody, FeedBody
<1>7. x.body.type = "DeltaUpdate" =>
         x.body.data \in Delta /\ x.body.gen \in Generation
    BY <1>2 DEF Body, SyncBody, FullSnapshotBody, DeltaUpdateBody,
            RequestSnapshotBody, FeedBody
<1> QED BY <1>1, <1>2, <1>3, <1>4, <1>5, <1>6, <1>7

\* A payload hit by damage.
Damaged(b) == [b EXCEPT !.data = Malformed]

\* Damage changes nothing but the payload.
LEMMA DamagedParts ==
    ASSUME NEW b \in SyncBody
    PROVE  /\ Damaged(b).data = Malformed
           /\ Damaged(b).src = b.src /\ Damaged(b).type = b.type
           /\ Damaged(b).gen = b.gen /\ Damaged(b).wire = b.wire
           /\ Damages => Damaged(b) \in Arrived(b)
BY DEF Damaged, Arrived, SyncBody, FullSnapshotBody, DeltaUpdateBody

\* The common end of the cases: a call explains the step.
LEMMA InboundBy ==
    ASSUME NEW n, NEW d, NEW d2, NEW x \in msgs, NEW b \in Arrived(x.body),
           EngineOf(n, d2)' = Eng!HandleInbound(EngineOf(n, d), b),
           msgs' = Remaining(x) \cup Answers(n, b.src, Eng!Replies(EngineOf(n, d), b)),
           Counts(d2, n)'
    PROVE  \E r : InboundCall(n, EngineOf(n, d), EngineOf(n, r)') /\ Counts(r, n)'
BY DEF InboundCall

\* on_inbound gives "Ok" to what is intact and of a version the build reads.
LEMMA OkVerdict ==
    ASSUME NEW own, NEW w, NEW intact \in BOOLEAN
    PROVE  /\ OnInbound(own, w, intact) \in {"Ok", "KeepStale", "DropView", "MalformedData"}
           /\ OnInbound(own, w, intact) = "Ok" => intact
BY DEF OnInbound, OnDeserializeError

\* handle_full_snapshot.
LEMMA SnapshotAgrees ==
    ASSUME NEW n, NEW d, Situation(n, d), NEW x \in msgs, Receive(n, x),
           HandleFullSnapshot(n, x) \/ RejectFullSnapshot(n, x)
    PROVE  \E r : InboundCall(n, EngineOf(n, d), EngineOf(n, r)') /\ Counts(r, n)'
<1> DEFINE e == EngineOf(n, d)
           b == x.body
           p == x.body.src
           gone == departed[n]
<1>1. /\ TypeOK /\ n \in Node /\ Counts(d, n) /\ wire[n] = Wire
      /\ p \in Node /\ p # n
      /\ UNCHANGED <<state, feed, departed>>
      /\ b \in Arrived(b)
      /\ b.type = "FullSnapshot" /\ b.data \in View /\ b.data # Malformed
      /\ b.gen \in Generation /\ p \notin departed[n]
    BY TakenMessage DEF HandleFullSnapshot, RejectFullSnapshot, Takes
<1>2. /\ msgs' = Remaining(x)
      /\ b \in SyncBody
    BY <1>1, TakenMessage DEF HandleFullSnapshot, RejectFullSnapshot, Body, SyncBody,
        RequestSnapshotBody, FeedBody
<1>3. /\ e = Holding(n, views[n], gone, d)
      /\ \A d2 : EngineOf(n, d2)' = Holding(n, views'[n], gone, d2)
    BY <1>1, HoldingStep
<1>4. e.views = views[n] /\ e.departed = gone
    BY DEF EngineOf
<1>5. ASSUME NEW y \in Arrived(b), y.type = "FullSnapshot", y.src = p
      PROVE  /\ Eng!HandleInbound(e, y) = Eng!AfterFullSnapshot(e, y)
             /\ Answers(n, y.src, Eng!Replies(e, y)) = {}
    BY <1>1, <1>4, <1>5, InboundKinds, AnswersOf
<1> HIDE DEF e
<1>6. CASE HandleFullSnapshot(n, x)
    <2>1. views'[n] = [views[n] EXCEPT ![p] = AcceptSnapshot(views[n][p], b.gen, b.data)]
        BY <1>1, <1>6 DEF HandleFullSnapshot, TypeOK
    <2>2. VerdictOn(b) = "Ok"
        <3>1. PICK intact \in BOOLEAN : OnInbound(wire[n], b.wire, intact) = "Ok"
            BY <1>6 DEF HandleFullSnapshot, Verdicts
        <3>2. intact = (b.data # Malformed)
            BY <1>1, <3>1, OkVerdict
        <3> QED BY <1>1, <3>1, <3>2, SameRules DEF VerdictOn
    <2>3. CASE SnapshotAccepted(views[n][p], b.gen)
        <3> DEFINE w == [views[n] EXCEPT ![p] = AcceptSnapshot(views[n][p], b.gen, b.data)]
                   d2 == Eng!RecordSyncSuccess(d, p)
        <3>1. Eng!AfterFullSnapshot(e, b) = Eng!Succeeded([e EXCEPT !.views = w], p)
            BY <1>4, <2>2, <2>3, SnapshotKinds, SameRules
        <3>2. Eng!Succeeded([e EXCEPT !.views = w], p) = Holding(n, w, gone, d2)
            <4> HIDE DEF w
            <4>1. [e EXCEPT !.views = w] = Holding(n, w, gone, d)
                BY <1>3 DEF Holding
            <4> QED BY <4>1, HoldingParts
        <3>3. Counts(d2, n)'
            BY <1>1, <1>6, <2>3, RecordsCount DEF HandleFullSnapshot
        <3>4. EngineOf(n, d2)' = Eng!HandleInbound(e, b)
            BY <1>1, <1>3, <1>5, <2>1, <3>1, <3>2
        <3> HIDE DEF d2, w
        <3> QED BY <1>1, <1>2, <1>5, <3>3, <3>4, InboundBy DEF e
    <2>4. CASE ~SnapshotAccepted(views[n][p], b.gen)
        <3>1. Eng!AfterFullSnapshot(e, b) = e
            BY <1>4, <2>2, <2>4, SnapshotKinds, SameRules
        <3>2. views'[n] = views[n] /\ diag' = diag
            BY <1>1, <1>6, <2>1, <2>4 DEF HandleFullSnapshot, AcceptSnapshot, TypeOK
        <3>3. Counts(d, n)'
            BY <1>1, <3>2 DEF Counts
        <3>4. EngineOf(n, d)' = Eng!HandleInbound(e, b)
            BY <1>1, <1>3, <1>5, <3>1, <3>2
        <3> QED BY <1>1, <1>2, <1>5, <3>3, <3>4, InboundBy DEF e
    <2> QED BY <2>3, <2>4
<1>7. CASE RejectFullSnapshot(n, x)
    <2> DEFINE d2 == Eng!RecordSyncFailure(d, p)
    <2>1. PICK intact \in BOOLEAN :
             LET verdict == OnInbound(Wire, b.wire, intact) IN
             /\ verdict # "Ok"
             /\ ~intact => Damages
             /\ views' = IF verdict = "DropView" THEN ViewRemoved(n, p) ELSE views
        BY <1>1, <1>7 DEF RejectFullSnapshot, Verdicts
    <2> DEFINE verdict == OnInbound(Wire, b.wire, intact)
    <2>2. PICK y \in Arrived(b) : /\ y.type = "FullSnapshot" /\ y.src = p
                                  /\ y.wire = b.wire
                                  /\ (y.data # Malformed) = intact
        <3>1. CASE intact
            BY <1>1, <3>1
        <3>2. CASE ~intact
            BY <1>1, <1>2, <2>1, <3>2, DamagedParts
        <3> QED BY <3>1, <3>2
    <2>3. verdict = VerdictOn(y)
        BY <2>1, <2>2, SameRules DEF VerdictOn
    <2>6. y.src = p
        BY <2>2
    <2>4. Counts(d2, n)'
        BY <1>1, <1>7, RecordsCount DEF RejectFullSnapshot
    <2>5. EngineOf(n, d2)' = Eng!HandleInbound(e, y)
        <3>1. CASE verdict = "DropView"
            <4>1. views'[n] = [views[n] EXCEPT ![p] = NoView]
                BY <1>1, <2>1, <3>1 DEF ViewRemoved, TypeOK
            <4>2. Eng!AfterFullSnapshot(e, y) = Eng!Failed(Eng!ViewRemoved(e, p), p)
                <5>1. VerdictOn(y) = "DropView"
                    BY <2>3, <3>1
                <5>2. Eng!AfterFullSnapshot(e, y)
                          = Eng!Failed(Eng!ViewRemoved(e, y.src), y.src)
                    BY <5>1, SnapshotKinds
                <5> QED BY <2>6, <5>2
            <4>3. Eng!ViewRemoved(e, p) = Holding(n, views'[n], gone, d)
                BY <1>1, <1>3, <4>1, HoldingParts
            <4>4. Eng!Failed(Holding(n, views'[n], gone, d), p) = Holding(n, views'[n], gone, d2)
                BY HoldingParts
            <4> QED BY <1>3, <1>5, <2>2, <4>2, <4>3, <4>4
        <3>2. CASE verdict # "DropView"
            <4>1. views'[n] = views[n]
                BY <2>1, <3>2
            <4>2. verdict \in {"KeepStale", "MalformedData"}
                BY <2>1, <3>2, OkVerdict
            <4>3. Eng!AfterFullSnapshot(e, y) = Eng!Failed(e, p)
                <5>1. VerdictOn(y) \in {"KeepStale", "MalformedData"}
                    BY <2>3, <4>2
                <5>2. Eng!AfterFullSnapshot(e, y) = Eng!Failed(e, y.src)
                    BY <5>1, SnapshotKinds
                <5> QED BY <2>6, <5>2
            <4>4. Eng!Failed(e, p) = Holding(n, views[n], gone, d2)
                BY <1>3, HoldingParts
            <4> QED BY <1>3, <1>5, <2>2, <4>1, <4>3, <4>4
        <3> QED BY <3>1, <3>2
    <2> HIDE DEF d2
    <2> QED BY <1>2, <1>5, <2>2, <2>4, <2>5, InboundBy DEF e
<1> QED BY <1>6, <1>7

\* What handle_delta_update finds, in both models.
LEMMA OutcomeAgrees ==
    ASSUME NEW n, NEW e, NEW b, NEW entry,
           e.views[b.src] = entry, entry \in OptEntry, b.gen \in Generation
    PROVE  /\ b.wire # Wire => Eng!DeltaOutcome(e, b) = "OtherVersion"
           /\ b.wire = Wire =>
                /\ ~SupportsDelta \/ entry = NoView => Eng!DeltaOutcome(e, b) = "NoBase"
                /\ SupportsDelta /\ entry # NoView =>
                     /\ PreCheck(entry.gen, b.gen) = "Stale" => Eng!DeltaOutcome(e, b) = "Stale"
                     /\ PreCheck(entry.gen, b.gen) = "Gap" => Eng!DeltaOutcome(e, b) = "Gap"
                     /\ PreCheck(entry.gen, b.gen) = "Follows" =>
                          Eng!DeltaOutcome(e, b) =
                             IF b.data = Malformed THEN "Malformed" ELSE "Applied"
<1>1. b.wire # Wire => Eng!DeltaOutcome(e, b) = "OtherVersion"
    BY DEF Eng!DeltaOutcome
<1>2. b.wire = Wire /\ (~SupportsDelta \/ entry = NoView)
        => Eng!DeltaOutcome(e, b) = "NoBase"
    BY DEF Eng!DeltaOutcome
<1>3. ASSUME b.wire = Wire, SupportsDelta, entry # NoView
      PROVE  Eng!DeltaOutcome(e, b) =
                IF b.gen # NextAge(entry.gen)
                THEN IF Le(b.gen, entry.gen) THEN "Stale" ELSE "Gap"
                ELSE IF b.data = Malformed THEN "Malformed" ELSE "Applied"
    BY <1>3, SameRules DEF Eng!DeltaOutcome
<1>4. /\ PreCheck(entry.gen, b.gen) = "Follows" => b.gen = NextAge(entry.gen)
      /\ PreCheck(entry.gen, b.gen) = "Stale" =>
            b.gen # NextAge(entry.gen) /\ Le(b.gen, entry.gen)
      /\ PreCheck(entry.gen, b.gen) = "Gap" =>
            b.gen # NextAge(entry.gen) /\ ~Le(b.gen, entry.gen)
    BY DEF PreCheck
<1> QED BY <1>1, <1>2, <1>3, <1>4

\* handle_delta_update.
LEMMA DeltaAgrees ==
    ASSUME NEW n, NEW d, Situation(n, d), NEW x \in msgs, Receive(n, x),
           \/ RejectDeltaVersion(n, x) \/ RequestInsteadOfDelta(n, x)
           \/ DiscardStaleDelta(n, x) \/ RequestAfterGap(n, x)
           \/ RequestAfterDamage(n, x) \/ ApplyDeltaUpdate(n, x)
    PROVE  \E r : InboundCall(n, EngineOf(n, d), EngineOf(n, r)') /\ Counts(r, n)'
<1> DEFINE e == EngineOf(n, d)
           b == x.body
           p == x.body.src
           gone == departed[n]
           failed == Eng!RecordSyncFailure(d, p)
           entry == views[n][p]
           Goal == \E r : InboundCall(n, EngineOf(n, d), EngineOf(n, r)') /\ Counts(r, n)'
<1>1. /\ TypeOK /\ n \in Node /\ Counts(d, n) /\ wire[n] = Wire
      /\ p \in Node /\ p # n
      /\ UNCHANGED <<state, feed, departed>>
      /\ b \in Arrived(b)
      /\ b.type = "DeltaUpdate" /\ b.data \in Delta /\ b.data # Malformed
      /\ b.gen \in Generation /\ p \notin departed[n]
    BY TakenMessage DEF RejectDeltaVersion, RequestInsteadOfDelta, DiscardStaleDelta,
        RequestAfterGap, RequestAfterDamage, ApplyDeltaUpdate, ReadableDelta, Takes
<1>2. b \in SyncBody /\ entry \in OptEntry
    <2>1. b \in Body
        BY TakenMessage
    <2>2. b \in SyncBody
        BY <1>1, <2>1 DEF Body, RequestSnapshotBody, FeedBody
    <2>3. entry \in OptEntry
        BY <1>1 DEF TypeOK
    <2> QED BY <2>2, <2>3
<1>3. /\ e = Holding(n, views[n], gone, d)
      /\ \A d2 : EngineOf(n, d2)' = Holding(n, views'[n], gone, d2)
    BY <1>1, HoldingStep
<1>4. /\ e.views = views[n] /\ e.departed = gone /\ e.diag = d
      /\ Eng!Request(e) = RequestSnapshot(n)
    BY DEF EngineOf, Eng!Request, RequestSnapshot
<1>5. ASSUME NEW y \in Arrived(b), y.type = "DeltaUpdate", y.src = p
      PROVE  /\ Eng!HandleInbound(e, y) = Eng!AfterDelta(e, y)
             /\ Eng!AsksForSnapshot(e, y) =>
                   Answers(n, y.src, Eng!Replies(e, y)) = Send(n, {p}, RequestSnapshot(n))
             /\ ~Eng!AsksForSnapshot(e, y) => Answers(n, y.src, Eng!Replies(e, y)) = {}
    <2>1. y.src \notin e.departed
        BY <1>1, <1>4, <1>5
    <2>2. Eng!HandleInbound(e, y) = Eng!AfterDelta(e, y)
        BY <1>5, <2>1, InboundKinds
    <2>3. Eng!Replies(e, y) = IF Eng!AsksForSnapshot(e, y) THEN <<Eng!Request(e)>> ELSE <<>>
        BY <1>5, <2>1, InboundKinds
    <2> HIDE DEF e, p
    <2>4. Eng!AsksForSnapshot(e, y) =>
              Answers(n, y.src, Eng!Replies(e, y)) = Send(n, {y.src}, Eng!Request(e))
        BY <2>3, AnswersOf
    <2>5. ~Eng!AsksForSnapshot(e, y) => Answers(n, y.src, Eng!Replies(e, y)) = {}
        BY <2>3, AnswersOf
    <2> QED BY <1>4, <1>5, <2>2, <2>4, <2>5
<1> HIDE DEF e
<1>6. ASSUME NEW d2, NEW y \in Arrived(b), y.src = p, y.type = "DeltaUpdate",
             Holding(n, views'[n], gone, d2) = Eng!AfterDelta(e, y), Counts(d2, n)',
             \/ Eng!AsksForSnapshot(e, y)
                /\ msgs' = Remaining(x) \cup Send(n, {p}, RequestSnapshot(n))
             \/ ~Eng!AsksForSnapshot(e, y) /\ msgs' = Remaining(x)
      PROVE  Goal
    <2>1. EngineOf(n, d2)' = Eng!HandleInbound(e, y)
        BY <1>3, <1>5, <1>6
    <2>2. msgs' = Remaining(x) \cup Answers(n, y.src, Eng!Replies(e, y))
        BY <1>5, <1>6
    <2> QED BY <1>6, <2>1, <2>2, InboundBy DEF e
<1>7. CASE RejectDeltaVersion(n, x)
    <2>1. Eng!DeltaOutcome(e, b) = "OtherVersion"
        BY <1>1, <1>2, <1>4, <1>7, OutcomeAgrees DEF RejectDeltaVersion
    <2>2. ~Eng!AsksForSnapshot(e, b) /\ msgs' = Remaining(x)
        BY <1>7, <2>1, DeltaKinds DEF RejectDeltaVersion
    <2>3. Counts(failed, n)'
        BY <1>1, <1>7, RecordsCount DEF RejectDeltaVersion
    <2>4. Eng!AfterDelta(e, b) = Holding(n, views'[n], gone, failed)
        <3>1. CASE OnDeserializeError = "DropView"
            <4>1. views'[n] = [views[n] EXCEPT ![p] = NoView]
                BY <1>1, <1>7, <3>1 DEF RejectDeltaVersion, ViewRemoved, TypeOK
            <4>2. Eng!AfterDelta(e, b) = Eng!Failed(Eng!ViewRemoved(e, p), p)
                BY <2>1, <3>1, DeltaKinds, SameRules
            <4>3. Eng!ViewRemoved(e, p) = Holding(n, views'[n], gone, d)
                BY <1>1, <1>3, <4>1, HoldingParts
            <4> QED BY <4>2, <4>3, HoldingParts
        <3>2. CASE OnDeserializeError # "DropView"
            <4>1. views'[n] = views[n]
                BY <1>7, <3>2 DEF RejectDeltaVersion
            <4>2. Eng!AfterDelta(e, b) = Eng!Failed(e, p)
                BY <2>1, <3>2, DeltaKinds, SameRules
            <4> QED BY <1>3, <4>1, <4>2, HoldingParts
        <3> QED BY <3>1, <3>2
    <2> HIDE DEF failed, Goal
    <2>5. Goal
        BY <1>1, <1>6, <2>2, <2>3, <2>4
    <2> QED BY <2>5 DEF Goal
<1>8. CASE RequestInsteadOfDelta(n, x) \/ DiscardStaleDelta(n, x)
    <2>1. views' = views /\ diag' = diag
        BY <1>8 DEF RequestInsteadOfDelta, DiscardStaleDelta, engineVars, shardVars
    <2>2. Counts(d, n)'
        BY <1>1, <2>1 DEF Counts
    <2>3. \/ /\ Eng!DeltaOutcome(e, b) = "NoBase"
             /\ msgs' = Remaining(x) \cup Send(n, {p}, RequestSnapshot(n))
          \/ Eng!DeltaOutcome(e, b) = "Stale" /\ msgs' = Remaining(x)
        BY <1>1, <1>2, <1>4, <1>8, OutcomeAgrees
           DEF RequestInsteadOfDelta, DiscardStaleDelta, ReadableDelta
    <2>4. Eng!AfterDelta(e, b) = Holding(n, views'[n], gone, d)
        BY <1>3, <2>1, <2>3, DeltaKinds
    <2>5. Eng!AsksForSnapshot(e, b) <=> Eng!DeltaOutcome(e, b) = "NoBase"
        BY <2>3, DeltaKinds
    <2> HIDE DEF Goal
    <2>6. Goal
        BY <1>1, <1>6, <2>2, <2>3, <2>4, <2>5
    <2> QED BY <2>6 DEF Goal
<1>9. CASE RequestAfterGap(n, x)
    <2> DEFINE d2 == Eng!RecordGapDetected(d, p)
    <2>1. views' = views /\ diag' = GapRecorded(n, p)
          /\ msgs' = Remaining(x) \cup Send(n, {p}, RequestSnapshot(n))
        BY <1>9 DEF RequestAfterGap, shardVars
    <2>2. Counts(d2, n)'
        BY <1>1, <2>1, RecordsCount
    <2>3. Eng!DeltaOutcome(e, b) = "Gap"
        BY <1>1, <1>2, <1>4, <1>9, OutcomeAgrees DEF RequestAfterGap, ReadableDelta
    <2>4. Eng!AfterDelta(e, b) = [e EXCEPT !.diag = d2]
        BY <1>4, <2>3, DeltaKinds
    <2>5. Eng!AsksForSnapshot(e, b)
        BY <2>3, DeltaKinds
    <2> HIDE DEF d2
    <2>6. [e EXCEPT !.diag = d2] = Holding(n, views'[n], gone, d2)
        BY <1>3, <2>1 DEF Holding
    <2> HIDE DEF Goal
    <2>7. Goal
        BY <1>1, <1>6, <2>1, <2>2, <2>4, <2>5, <2>6
    <2> QED BY <2>7 DEF Goal
<1>10. CASE RequestAfterDamage(n, x)
    <2> DEFINE y == Damaged(b)
    <2>1. views' = views /\ diag' = Recorded(n, p, "failing")
          /\ msgs' = Remaining(x) \cup Send(n, {p}, RequestSnapshot(n))
        BY <1>10 DEF RequestAfterDamage, shardVars
    <2>2. Counts(failed, n)'
        BY <1>1, <2>1, RecordsCount
    <2>3. /\ y \in Arrived(b) /\ y.data = Malformed /\ y.src = p
          /\ y.type = "DeltaUpdate" /\ y.gen = b.gen /\ y.wire = b.wire
        BY <1>1, <1>2, <1>10, DamagedParts DEF RequestAfterDamage
    <2> HIDE DEF y
    <2>4. Eng!DeltaOutcome(e, y) = "Malformed"
        BY <1>1, <1>2, <1>4, <1>10, <2>3, OutcomeAgrees
           DEF RequestAfterDamage, ReadableDelta
    <2>5. Eng!AfterDelta(e, y) = Eng!Failed(e, p)
        <3>1. Eng!AfterDelta(e, y) = Eng!Failed(e, y.src)
            BY <2>4, DeltaKinds
        <3> QED BY <2>3, <3>1
    <2>6. Eng!Failed(e, p) = Holding(n, views'[n], gone, failed)
        BY <1>3, <2>1, HoldingParts
    <2>7. Eng!AsksForSnapshot(e, y)
        BY <2>4, DeltaKinds
    <2> HIDE DEF failed, Goal
    <2>8. Goal
        BY <1>6, <2>1, <2>2, <2>3, <2>5, <2>6, <2>7
    <2> QED BY <2>8 DEF Goal
<1>11. CASE ApplyDeltaUpdate(n, x)
    <2> DEFINE d2 == Eng!RecordSyncSuccess(d, p)
               w == [views[n] EXCEPT ![p] =
                        AcceptDelta(entry, b.gen, ApplyDelta(entry.value, b.data))]
    <2>1. views'[n] = w /\ diag' = Recorded(n, p, "ok") /\ msgs' = Remaining(x)
        BY <1>1, <1>11 DEF ApplyDeltaUpdate, TypeOK
    <2>2. Counts(d2, n)'
        BY <1>1, <2>1, RecordsCount
    <2>3. Eng!DeltaOutcome(e, b) = "Applied"
        BY <1>1, <1>2, <1>4, <1>11, OutcomeAgrees DEF ApplyDeltaUpdate, ReadableDelta
    <2>4. Eng!AfterDelta(e, b) = Eng!Succeeded([e EXCEPT !.views = w], p)
        BY <1>4, <2>3, DeltaKinds, SameRules
    <2> HIDE DEF w
    <2>5. [e EXCEPT !.views = w] = Holding(n, w, gone, d)
        BY <1>3 DEF Holding
    <2>6. Eng!Succeeded(Holding(n, w, gone, d), p) = Holding(n, w, gone, d2)
        BY HoldingParts
    <2>7. ~Eng!AsksForSnapshot(e, b)
        BY <2>3, DeltaKinds
    <2> HIDE DEF d2, Goal
    <2>8. Goal
        BY <1>1, <1>6, <2>1, <2>2, <2>4, <2>5, <2>6, <2>7
    <2> QED BY <2>8 DEF Goal
<1> QED BY <1>7, <1>8, <1>9, <1>10, <1>11

\* handle_inbound, of every kind of message.
LEMMA InboundAgrees ==
    ASSUME NEW n, NEW d, Situation(n, d), NEW x \in msgs, Receive(n, x)
    PROVE  \E r : InboundCall(n, EngineOf(n, d), EngineOf(n, r)') /\ Counts(r, n)'
<1> DEFINE e == EngineOf(n, d)
           b == x.body
           p == x.body.src
<1>1. /\ TypeOK /\ n \in Node /\ Counts(d, n) /\ p \in Node
      /\ UNCHANGED <<state, feed, departed>> /\ b \in Arrived(b)
    BY TakenMessage
<1>2. e.views = views[n] /\ e.departed = departed[n]
    BY DEF EngineOf
<1>3. CASE IgnoreDeparted(n, x) \/ HandleRequestSnapshot(n, x)
    <2>1. EngineOf(n, d)' = e /\ Counts(d, n)'
        BY <1>3, EngineKept DEF IgnoreDeparted, HandleRequestSnapshot, engineVars, shardVars
    <2>2. Eng!OwnSnapshot(e) = OwnSnapshot(n)
        BY OwnSnapshotAgrees
    <2> HIDE DEF e
    <2>3. Eng!HandleInbound(e, b) = e
        BY <1>2, <1>3, InboundKinds DEF IgnoreDeparted, HandleRequestSnapshot, Takes
    <2>4. msgs' = Remaining(x) \cup Answers(n, p, Eng!Replies(e, b))
        <3>1. CASE IgnoreDeparted(n, x)
            <4>1. Eng!Replies(e, b) = <<>>
                BY <1>2, <3>1, InboundKinds DEF IgnoreDeparted
            <4> QED BY <3>1, <4>1, AnswersOf DEF IgnoreDeparted
        <3>2. CASE HandleRequestSnapshot(n, x)
            <4>1. Eng!Replies(e, b) = <<OwnSnapshot(n)>>
                BY <1>2, <2>2, <3>2, InboundKinds DEF HandleRequestSnapshot, Takes
            <4> QED BY <3>2, <4>1, AnswersOf DEF HandleRequestSnapshot
        <3> QED BY <1>3, <3>1, <3>2
    <2> QED BY <1>1, <2>1, <2>3, <2>4, InboundBy DEF e
<1>4. CASE HandleChangeFeed(n, x)
    <2> DEFINE w == [views[n] EXCEPT ![p] = MarkStale(views[n][p], b.gen)]
    <2>1. views'[n] = w /\ diag' = diag /\ msgs' = Remaining(x)
        BY <1>1, <1>4 DEF HandleChangeFeed, TypeOK, engineVars
    <2>2. Counts(d, n)'
        BY <1>1, <2>1 DEF Counts
    <2>3. /\ Eng!HandleInbound(e, b) = [e EXCEPT !.views[p] = Eng!MarkStale(@, b.gen)]
          /\ Eng!Replies(e, b) = <<>>
        <3> HIDE DEF e
        <3> QED BY <1>2, <1>4, InboundKinds DEF HandleChangeFeed, Takes
    <2>4. Eng!HandleInbound(e, b) = [e EXCEPT !.views = w]
        <3> HIDE DEF e
        <3> QED BY <1>2, <2>3, SameRules
    <2> HIDE DEF w
    <2>5. EngineOf(n, d)' = [e EXCEPT !.views = w]
        BY <1>1, <2>1 DEF EngineOf
    <2> HIDE DEF e
    <2>6. msgs' = Remaining(x) \cup Answers(n, p, Eng!Replies(e, b))
        BY <2>1, <2>3, AnswersOf
    <2> QED BY <1>1, <2>2, <2>4, <2>5, <2>6, InboundBy DEF e
<1>5. CASE HandleFullSnapshot(n, x) \/ RejectFullSnapshot(n, x)
    BY <1>5, SnapshotAgrees
<1>6. CASE \/ RejectDeltaVersion(n, x) \/ RequestInsteadOfDelta(n, x)
           \/ DiscardStaleDelta(n, x) \/ RequestAfterGap(n, x)
           \/ RequestAfterDamage(n, x) \/ ApplyDeltaUpdate(n, x)
    BY <1>6, DeltaAgrees
<1> HIDE DEF e, b, p
<1> QED BY <1>3, <1>4, <1>5, <1>6 DEF Receive

\* The steps of n's actor that call its engine are calls of its methods.
LEMMA DrivesCalls ==
    ASSUME NEW n, NEW d, Situation(n, d), Drives(n)
    PROVE  \E r : EngineCall(n, EngineOf(n, d), EngineOf(n, r)') /\ Counts(r, n)'
<1>1. CASE \E c \in Change, u \in Urgency : Mutate(n, c, u) \/ MutateWithDelta(n, c, u)
    BY <1>1, MutateAgrees DEF EngineCall
<1>2. CASE FlushChangeFeed(n)
    BY <1>2, FlushAgrees DEF EngineCall
<1>3. CASE PeriodicSync(n) \/ \E aged \in SUBSET Node : Query(n, aged)
    BY <1>3, ReadAgrees DEF EngineCall
<1>4. CASE \E p \in Node : NodeJoined(n, p)
    BY <1>4, JoinedAgrees DEF EngineCall
<1>5. CASE \E p \in Node : NodeLeft(n, p)
    <2>1. \E r : LeftCall(n, EngineOf(n, d), EngineOf(n, r)') /\ Counts(r, n)'
        BY <1>5, LeftAgrees
    <2> QED BY <2>1 DEF EngineCall
<1>6. CASE \E x \in msgs : Receive(n, x)
    <2>1. \E r : InboundCall(n, EngineOf(n, d), EngineOf(n, r)') /\ Counts(r, n)'
        BY <1>6, InboundAgrees
    <2> QED BY <2>1 DEF EngineCall
<1> QED BY <1>1, <1>2, <1>3, <1>4, <1>5, <1>6 DEF Drives

NoRecords == [p \in {} |-> Eng!DefaultDiagnostics]

\* The node starts with a new engine.
StartsAnew(n) ==
    EngineOf(n, NoRecords) = Eng!NewEngine(n, state[n].gen.inc) /\ Counts(NoRecords, n)

\* DistributedStateEngine::new in both models.
LEMMA NewLifetime ==
    ASSUME NEW n \in Node, NEW inc
    PROVE  /\ Eng!NewEngine(n, inc) =
                 [id |-> n, gen |-> NewGeneration(inc, 0), value |-> InitState,
                  views |-> FirstViews(n, NewGeneration(inc, 0)),
                  departed |-> {}, feed |-> NoGen, diag |-> NoRecords]
           /\ NewGeneration(inc, 0).inc = inc
           /\ DOMAIN NoRecords = {}
<1>1. Eng!NewGeneration(inc, 0) = NewGeneration(inc, 0) /\ NewGeneration(inc, 0).inc = inc
    BY DEF Eng!NewGeneration, NewGeneration
<1> QED BY <1>1, SameRules DEF Eng!NewEngine, FirstViews, NoRecords

\* Everything else leaves n's engine alone or replaces it by a new one.
LEMMA OthersRest ==
    ASSUME TypeInv, NEW n \in Node, [Next]_vars, ~Drives(n)
    PROVE  \/ /\ state'[n] = state[n] /\ views'[n] = views[n]
              /\ departed'[n] = departed[n] /\ feed'[n] = feed[n] /\ diag'[n] = diag[n]
           \/ StartsAnew(n)'
<1> DEFINE Rest == /\ state'[n] = state[n] /\ views'[n] = views[n]
                   /\ departed'[n] = departed[n] /\ feed'[n] = feed[n]
                   /\ diag'[n] = diag[n]
<1>1. TypeOK
    BY DEF TypeInv
<1>2. ASSUME NEW m \in Node, Restart(m)
      PROVE  Rest \/ StartsAnew(n)'
    <2>1. PICK inc \in (state[m].gen.inc + 1) .. MaxInc, w \in WireVersion :
            LET gen == NewGeneration(Lifetime(m, inc), 0) IN
            /\ state' = [state EXCEPT ![m] = [gen |-> gen, value |-> InitState]]
            /\ views' = [views EXCEPT ![m] = FirstViews(m, gen)]
        BY <1>2 DEF Restart
    <2>2. CASE m # n
        BY <1>1, <1>2, <2>1, <2>2 DEF Restart, TypeOK
    <2>3. CASE m = n
        <3>1. /\ state'[n] = [gen |-> NewGeneration(inc, 0), value |-> InitState]
              /\ views'[n] = FirstViews(n, NewGeneration(inc, 0))
              /\ departed'[n] = {} /\ feed'[n] = NoGen
              /\ diag'[n] = [p \in Node |-> "none"]
            BY <1>1, <1>2, <2>1, <2>3 DEF Restart, Lifetime, TypeOK
        <3>2. state'[n].gen.inc = inc
            BY <3>1, NewLifetime
        <3>3. EngineOf(n, NoRecords)' = Eng!NewEngine(n, inc)
            BY <3>1, NewLifetime DEF EngineOf
        <3>4. Counts(NoRecords, n)'
            BY <3>1, NewLifetime DEF Counts
        <3> QED BY <3>2, <3>3, <3>4 DEF StartsAnew
    <2> QED BY <2>2, <2>3
<1>3. ASSUME NEW m \in Node, m # n, Drives(m)
      PROVE  Rest
    <2>1. ASSUME NEW c \in Change, NEW u \in Urgency,
                 Mutate(m, c, u) \/ MutateWithDelta(m, c, u)
          PROVE  Rest
        BY <1>1, <1>3, <2>1 DEF Mutate, MutateWithDelta, ApplyMutation, Perform, TypeOK
    <2>2. CASE FlushChangeFeed(m) \/ PeriodicSync(m) \/ \E aged \in SUBSET Node : Query(m, aged)
        BY <1>1, <1>3, <2>2 DEF FlushChangeFeed, PeriodicSync, Query, shardVars,
            engineVars, TypeOK
    <2>3. ASSUME NEW p \in Node, NodeJoined(m, p) \/ NodeLeft(m, p)
          PROVE  Rest
        BY <1>1, <1>3, <2>3 DEF NodeJoined, NodeLeft, EngineNodeLeft, Depart,
            ViewRemoved, Recorded, TypeOK
    <2>4. ASSUME NEW x \in msgs, Receive(m, x)
          PROVE  Rest
        <3>1. UNCHANGED <<state, feed, departed>>
            BY <2>4 DEF Receive, IgnoreDeparted, HandleFullSnapshot, RejectFullSnapshot,
                RejectDeltaVersion, RequestInsteadOfDelta, DiscardStaleDelta,
                RequestAfterGap, RequestAfterDamage, ApplyDeltaUpdate,
                HandleRequestSnapshot, HandleChangeFeed, engineVars, shardVars
        <3>2. views'[n] = views[n]
            BY <1>1, <1>3, <2>4 DEF Receive, IgnoreDeparted, HandleFullSnapshot,
                RejectFullSnapshot, RejectDeltaVersion, RequestInsteadOfDelta,
                DiscardStaleDelta, RequestAfterGap, RequestAfterDamage,
                ApplyDeltaUpdate, HandleRequestSnapshot, HandleChangeFeed,
                engineVars, shardVars, ViewRemoved, TypeOK
        <3>3. diag'[n] = diag[n]
            BY <1>1, <1>3, <2>4 DEF Receive, IgnoreDeparted, HandleFullSnapshot,
                RejectFullSnapshot, RejectDeltaVersion, RequestInsteadOfDelta,
                DiscardStaleDelta, RequestAfterGap, RequestAfterDamage,
                ApplyDeltaUpdate, HandleRequestSnapshot, HandleChangeFeed,
                engineVars, shardVars, Recorded, GapRecorded, TypeOK
        <3> QED BY <3>1, <3>2, <3>3
    <2> HIDE DEF Rest
    <2> QED BY <1>3, <2>1, <2>2, <2>3, <2>4 DEF Drives
<1>4. ASSUME NEW m \in Node,
             Crash(m) \/ FireDelayed(m) \/ \E p \in Node : RegisterPeer(m, p)
      PROVE  Rest
    BY <1>4 DEF Crash, FireDelayed, RegisterPeer, engineVars, shardVars
<1>5. ASSUME NEW x \in msgs, Lose(x)
      PROVE  Rest
    BY <1>5 DEF Lose, engineVars, shardVars
<1> HIDE DEF Rest
<1>6. Rest \/ StartsAnew(n)'
    <2>1. CASE UNCHANGED vars
        BY <2>1 DEF vars, Rest
    <2>2. CASE Next
        <3>1. CASE \E x \in msgs : Lose(x)
            BY <1>5, <3>1
        <3>2. ASSUME NEW m \in Node,
                     \/ Crash(m) \/ Restart(m) \/ FireDelayed(m)
                     \/ \E p \in Node : RegisterPeer(m, p)
                     \/ Drives(m)
              PROVE  Rest \/ StartsAnew(n)'
            BY <1>2, <1>3, <1>4, <3>2
        <3> QED BY <2>2, <3>1, <3>2 DEF Next, Drives
    <2> QED BY <2>1, <2>2
<1> QED BY <1>6 DEF Rest

\* Along a step, the engine n runs moves by a call of one of its methods, with the
\* answers the actor routes, or stays, or is replaced by a new one.
MovesByCalls(n) ==
    \A records :
        wire[n] = Wire /\ Counts(records, n) =>
            IF Drives(n)
            THEN \E r : /\ EngineCall(n, EngineOf(n, records), EngineOf(n, r)')
                        /\ Counts(r, n)'
            ELSE \/ EngineOf(n, records)' = EngineOf(n, records) /\ Counts(records, n)'
                 \/ StartsAnew(n)'

\* The actors of StateCluster run the engine of module Engine, which the harness
\* runs too: the two models of engine.rs agree in every state they reach, on every
\* method, outcome and message.
THEOREM EnginesAgree ==
    ASSUME Malformed \notin View \cup Delta
    PROVE  Spec => /\ \A n \in Node : StartsAnew(n)
                   /\ [][\A n \in Node : MovesByCalls(n)]_vars
<1>1. Init => \A n \in Node : StartsAnew(n)
    <2> SUFFICES ASSUME Init, NEW n \in Node PROVE StartsAnew(n)
        OBVIOUS
    <2>1. /\ state[n] = [gen |-> NewGeneration(1, 0), value |-> InitState]
          /\ views[n] = FirstViews(n, NewGeneration(1, 0))
          /\ departed[n] = {} /\ feed[n] = NoGen /\ diag[n] = [p \in Node |-> "none"]
        BY DEF Init, FirstGen
    <2>2. state[n].gen.inc = 1
        BY <2>1, NewLifetime
    <2>3. EngineOf(n, NoRecords) = Eng!NewEngine(n, 1)
        BY <2>1, NewLifetime DEF EngineOf
    <2>4. Counts(NoRecords, n)
        BY <2>1, NewLifetime DEF Counts
    <2> QED BY <2>2, <2>3, <2>4 DEF StartsAnew
<1>2. TypeInv /\ [Next]_vars => \A n \in Node : MovesByCalls(n)
    <2> SUFFICES ASSUME TypeInv, [Next]_vars, NEW n \in Node, NEW d,
                        wire[n] = Wire, Counts(d, n)
                 PROVE
            IF Drives(n)
            THEN \E r : EngineCall(n, EngineOf(n, d), EngineOf(n, r)') /\ Counts(r, n)'
            ELSE \/ EngineOf(n, d)' = EngineOf(n, d) /\ Counts(d, n)'
                 \/ StartsAnew(n)'
        BY DEF MovesByCalls
    <2>1. CASE Drives(n)
        <3>1. Situation(n, d)
            BY DEF Situation
        <3> QED BY <2>1, <3>1, DrivesCalls
    <2>2. CASE ~Drives(n)
        <3>1. CASE StartsAnew(n)'
            BY <2>2, <3>1
        <3>2. CASE /\ state'[n] = state[n] /\ views'[n] = views[n]
                   /\ departed'[n] = departed[n] /\ feed'[n] = feed[n]
                   /\ diag'[n] = diag[n]
            <4>1. EngineOf(n, d)' = EngineOf(n, d)
                BY <3>2 DEF EngineOf
            <4>2. Counts(d, n)'
                BY <3>2 DEF Counts
            <4> QED BY <2>2, <4>1, <4>2
        <3> QED BY <2>2, <3>1, <3>2, OthersRest
    <2> QED BY <2>1, <2>2
<1> QED BY <1>1, <1>2, TypeInvariant, PTL DEF Spec

-----------------------------------------------------------------------------
(* The ranks of health_status (dstate/src/core/diagnostics.rs).            *)

\* Integer halves: more than half of a total, rounded down, is a strict
\* majority.
LEMMA StrictMajority ==
    \A h, t \in Nat : h > t \div 2 <=> 2 * h > t
OBVIOUS

\* Exactly one rank applies: Healthy when nothing is wrong, Unhealthy when
\* half or more of the peers are stale or failing, Degraded in between.  A
\* peer that is both counts once.
THEOREM RanksMeanMajorities ==
    ASSUME NEW known, IsFiniteSet(known),
           NEW stale \in SUBSET known, NEW failing \in SUBSET known
    PROVE  LET rank == Classify(known, stale, failing)
               bad == Cardinality(stale \cup failing)
               all == Cardinality(known)
           IN  /\ rank = "Healthy" <=> bad = 0
               /\ rank = "Degraded" <=> bad > 0 /\ 2 * bad < all
               /\ rank = "Unhealthy" <=> bad > 0 /\ 2 * bad >= all
<1> DEFINE wrong == stale \cup failing
           good == known \ wrong
           bad == Cardinality(wrong)
           all == Cardinality(known)
           healthy == Cardinality(good)
<1>1. /\ IsFiniteSet(wrong) /\ IsFiniteSet(good)
      /\ bad \in Nat /\ all \in Nat /\ healthy \in Nat
    BY FS_Subset, FS_CardinalityType
<1>2. healthy = all - bad
    <2>1. known \cap wrong = wrong
        OBVIOUS
    <2> QED BY <2>1, FS_Difference
<1>3. bad = 0 <=> stale = {} /\ failing = {}
    BY <1>1, FS_EmptySet
<1>4. all = 0 <=> known = {}
    BY FS_EmptySet
<1>5. bad <= all
    BY FS_Subset
<1>6. healthy > all \div 2 <=> 2 * bad < all
    BY <1>1, <1>2, StrictMajority
<1>7. CASE stale = {} /\ failing = {}
    <2>1. Classify(known, stale, failing) = "Healthy"
        BY <1>7 DEF Classify
    <2> QED BY <2>1, <1>3, <1>7
<1>8. CASE ~(stale = {} /\ failing = {})
    <2>1. bad > 0
        BY <1>8, <1>3, <1>1
    <2>2. CASE 2 * bad < all
        <3>1. known # {} /\ healthy > all \div 2
            BY <2>2, <1>8, <1>6
        <3>2. Classify(known, stale, failing) = "Degraded"
            BY <3>1, <1>8 DEF Classify
        <3> QED BY <3>2, <2>1, <2>2, <1>1
    <2>3. CASE ~(2 * bad < all)
        <3>1. ~(healthy > all \div 2)
            BY <2>3, <1>6
        <3>2. Classify(known, stale, failing) = "Unhealthy"
            BY <3>1, <1>8 DEF Classify
        <3> QED BY <3>2, <2>1, <2>3, <1>1
    <2> QED BY <2>2, <2>3
<1> QED BY <1>7, <1>8

=============================================================================
