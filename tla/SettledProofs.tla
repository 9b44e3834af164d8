--------------------------- MODULE SettledProofs ----------------------------
(****************************************************************************)
(* What a test may rely on once settle() has returned, for every set of     *)
(* nodes, every application data type, every pipeline of interceptors,      *)
(* every timing and every sequence of calls: a node that missed nothing     *)
(* of its peers reports itself healthy, and whoever missed nothing of a     *)
(* peer has the latest of it or knows that it has not.  With the example    *)
(* application, such a node also places work where memory is least used.    *)
(*                                                                          *)
(* A run of any length stands between a message and what it was for, so     *)
(* none of these is inductive. HealthInv and CurrentInv, which rest on      *)
(* BaseInv, follow each pair of nodes: while something is missing,          *)
(* something under way will bring it, or the pair is excused.               *)
(****************************************************************************)
EXTENDS MockClusterProofs, Placement

-----------------------------------------------------------------------------
(* HealthInv: a node that counts failures of a peer is about to hear       *)
(* something newer of it.                                                  *)

\* Bytes d are under way from p to n, in a frame or in a message to be sent.
OnWay(F, M, p, n, d) ==
    \/ \E f \in F : f.from = p /\ f.to = n /\ f.data = d
    \/ \E m \in M : m.from = p /\ m.to = n /\ m.body = d

IsRequest(d) == d # Garbage /\ d.type = "RequestSnapshot"

\* n knows that its view of p is behind, is about to be sent something newer, or
\* to have asked for it.
Catching(ns, F, M, n, p) ==
    LET v == ns[n].engine.views[p] IN
    /\ ns[p] # Absent
    /\ \/ v.pending # NoGen
       \/ \E d : OnWay(F, M, p, n, d) /\ Whole(d) /\ Lt(v.gen, d.gen)
       \/ \E d : OnWay(F, M, n, p, d) /\ IsRequest(d) /\ Lt(v.gen, ns[p].engine.gen)

FailingAt(ns, n, p) ==
    /\ n # p /\ ns[n] # Absent /\ ns[n].engine.views[p] # NoView
    /\ Fails(ns[n].engine, p) > 0

HealthHolds(ns, F, M, X) ==
    \A n, p \in Node : FailingAt(ns, n, p) /\ <<n, p>> \notin X => Catching(ns, F, M, n, p)

\* A delivery leaves all other frames on their way.
LEMMA OthersOnWay ==
    ASSUME NEW F, NEW F2, NEW M, NEW M2, NEW f, F \subseteq F2 \cup {f}, M \subseteq M2,
           NEW p, NEW n, NEW d, OnWay(F, M, p, n, d)
    PROVE  OnWay(F2, M2, p, n, d) \/ (f.from = p /\ f.to = n /\ f.data = d)
BY DEF OnWay

\* What the sender of a delivered frame, and the receiver, make of a failure.
LEMMA DeliveryToHealth ==
    ASSUME Typed, NEW h, NEW ns \in NodeMaps, NEW lv, Truthful(h, ns, lv),
           NEW f \in Arrivals, DataHolds(h, ns, lv, f.from, f.data),
           NEW e, NEW x, NEW ns2, Delivery(ns, f, e, x, ns2),
           NEW out, NEW out2, Replied(e, f, out, out2),
           NEW F, NEW F2, F \subseteq F2 \cup {f}, NEW X,
           IsSync(f.data) /\ IsHurt(f.data) => <<f.to, f.from>> \in X,
           NEW n, NEW p, n = f.to, p = f.from, FailingAt(ns2, n, p), <<n, p>> \notin X,
           FailingAt(ns, n, p) => Catching(ns, F, ToSet(out), n, p)
    PROVE  Catching(ns2, F2, ToSet(out2), n, p)
<1> DEFINE b == f.data
           M == ToSet(out)
           M2 == ToSet(out2)
<1>0. f.from \in Node /\ f.to \in Node /\ f.from # f.to /\ b \in Bodies /\ b.src = p BY ArrivalTyped
<1>1. /\ ns[n] # Absent /\ e = ns[n].engine /\ e \in Engines /\ e.id = n
      /\ ns2[n].engine = x /\ ns2[p] = ns[p]
  BY <1>0 DEF Delivery
<1>2. M \subseteq M2 /\ \A r \in ToSet(Replies(e, b)) : Message(n, p, r) \in M2 BY DEF Replied
<1>3. Readable(b) BY DEF DataHolds, Readable, Arrivals
<1>4. Effect(e, b, x) BY <1>3 DEF Delivery
<1>5. IsSync(b) => Reached(ns, lv, p, b.gen) BY DEF DataHolds, Arrivals
<1>t. e.views \in [Node -> OptEntry] BY <1>1 DEF Engines, EngineRecords
<1> HIDE DEF M, M2
<1>6. ASSUME x.views[p] = e.views[p], Fails(x, p) = Fails(e, p)
      PROVE  Catching(ns, F, M, n, p)
  <2>1. FailingAt(ns, n, p) BY <1>0, <1>1, <1>6 DEF FailingAt
  <2> QED BY <2>1 DEF M
<1> DEFINE v == e.views[p]
\* The entry is as before, and the frame is not what it was waiting for.
<1>7. ASSUME x.views[p] = v, Fails(x, p) = Fails(e, p),
             Whole(b) => ~Lt(v.gen, b.gen)
      PROVE  Catching(ns2, F2, M2, n, p)
  <2>1. Catching(ns, F, M, n, p) BY <1>6, <1>7
  <2>2. ns2[p] # Absent /\ ns2[n].engine.views[p] = ns[n].engine.views[p] /\ ns2[p].engine.gen = ns[p].engine.gen
    BY <1>1, <1>7, <2>1 DEF Catching
  <2>3. \A d : OnWay(F, M, p, n, d) /\ Whole(d) /\ Lt(v.gen, d.gen) => OnWay(F2, M2, p, n, d)
    BY <1>2, <1>7, OthersOnWay
  <2>4. \A d : OnWay(F, M, n, p, d) => OnWay(F2, M2, n, p, d) BY <1>0, <1>2, OthersOnWay
  <2> QED BY <1>1, <2>1, <2>2, <2>3, <2>4 DEF Catching
<1>8. CASE b.src \in e.departed /\ x = e
  <2>1. ns[p] = Absent BY <1>0, <1>1, <1>8 DEF Truthful, NodeHolds
  <2>2. Catching(ns, F, M, n, p) BY <1>6, <1>8
  <2> QED BY <2>1, <2>2 DEF Catching
<1>9. CASE Spoiled(e, b, x) BY <1>9 DEF Spoiled
<1>10. CASE Taken(e, b, x)
  <2>1. Fails(x, p) = 0 BY <1>0, <1>10 DEF Taken
  <2> QED BY <1>1, <2>1 DEF FailingAt
<1>11. CASE Ignored(e, b, x)
  <2>1. x = e /\ e.views[p] # NoView /\ Le(b.gen, v.gen) /\ Whole(b) BY <1>0, <1>11 DEF Ignored
  <2>2. b.gen \in Generation BY <1>5, <2>1 DEF Reached, Whole
  <2>3. v.gen \in Generation BY <1>0, <1>t, <2>1 DEF OptEntry, Entry
  <2>4. ~Lt(v.gen, b.gen) BY <2>1, <2>2, <2>3, LtTotal
  <2> QED BY <1>7, <2>1, <2>4 DEF M2
<1>12. CASE Asked(e, b, x)
  <2>1. /\ Whole(b) /\ Replies(e, b) = <<Request(e)>>
        /\ x.views[p] = v /\ Fails(x, p) = Fails(e, p)
    BY <1>0, <1>12 DEF Asked
  <2>2. CASE ~Lt(v.gen, b.gen) BY <1>7, <2>1, <2>2 DEF M2
  <2>3. CASE Lt(v.gen, b.gen)
    <3>1. Catching(ns, F, M, n, p) BY <1>6, <2>1
    <3>2. ns[p] # Absent /\ v # NoView BY <1>1, <2>1, <3>1 DEF Catching, FailingAt
    <3>3. Le(b.gen, ns[p].engine.gen) /\ b.gen \in Generation BY <1>5, <2>1, <3>2 DEF Reached, Whole
    <3>4. v.gen \in Generation BY <1>0, <1>t, <3>2 DEF OptEntry, Entry
    <3>5. ns[p].engine.gen \in Generation BY <1>0, <3>2, NodeTyped DEF Engines, EngineRecords
    <3>6. Lt(v.gen, ns[p].engine.gen) BY <2>3, <3>3, <3>4, <3>5, LtTransitive DEF Le
    <3>7. Request(e) \in ToSet(Replies(e, b)) BY <2>1 DEF ToSet
    <3>8. Message(n, p, Request(e)) \in M2 BY <1>2, <3>7
    <3>9. OnWay(F2, M2, n, p, Request(e)) BY <3>8 DEF OnWay, Message
    <3>10. IsRequest(Request(e))
      <4>1. Request(e) \in Bodies /\ Request(e).type = "RequestSnapshot" BY <1>1, BodiesMade DEF Typed
      <4> QED BY <4>1 DEF IsRequest, Typed, GarbageIsNoBody
    <3> QED BY <1>1, <2>1, <3>2, <3>6, <3>9, <3>10 DEF Catching, M2
  <2> QED BY <2>2, <2>3
<1>13. CASE Marked(e, b, x)
  <2>1. x.views[p] = MarkStale(v, b.gen) /\ Fails(x, p) = Fails(e, p) /\ b.type = "Feed" BY <1>0, <1>13 DEF Marked
  <2>2. ~Whole(b) BY <2>1 DEF Whole, IsSync
  <2>3. CASE v # NoView /\ ~Le(b.gen, v.gen)
    <3>1. v \in Entry /\ b.gen \in Generation BY <1>0, <1>t, <2>1, <2>3, BodyKinds DEF OptEntry, FeedBatches
    <3>2. x.views[p].pending = b.gen /\ x.views[p].gen = v.gen BY <2>1, <2>3, <3>1 DEF MarkStale, Entry
    <3>3. x.views[p].pending # NoGen BY <3>1, <3>2, NoGenAssumption
    <3>4. v # NoView /\ FailingAt(ns, n, p) BY <1>0, <1>1, <2>1, <2>3 DEF FailingAt
    <3>5. ns[p] # Absent BY <3>4 DEF Catching
    <3> QED BY <1>1, <3>3, <3>5 DEF Catching
  <2>4. CASE ~(v # NoView /\ ~Le(b.gen, v.gen))
    <3>1. x.views[p] = v BY <2>1, <2>4 DEF MarkStale
    <3> QED BY <1>7, <2>1, <2>2, <3>1 DEF M2
  <2> QED BY <2>3, <2>4
<1>14. CASE Served(e, b, x)
  <2>1. x = e /\ b.type = "RequestSnapshot" BY <1>14 DEF Served
  <2>2. ~Whole(b) BY <2>1 DEF Whole, IsSync
  <2> QED BY <1>7, <2>1, <2>2 DEF M2
<1> QED BY <1>4, <1>8, <1>9, <1>10, <1>11, <1>12, <1>13, <1>14 DEF Effect

\* A request that is served is answered by a snapshot, which is newer.
LEMMA DeliveryElsewhere ==
    ASSUME Typed, NEW h, NEW ns \in NodeMaps, NEW lv, Truthful(h, ns, lv),
           NEW f \in Arrivals, DataHolds(h, ns, lv, f.from, f.data),
           NEW e, NEW x, NEW ns2, Delivery(ns, f, e, x, ns2),
           NEW out, NEW out2, Replied(e, f, out, out2),
           NEW F, NEW F2, F \subseteq F2 \cup {f},
           NEW n \in Node, NEW p \in Node, n # f.to \/ p # f.from, FailingAt(ns2, n, p),
           FailingAt(ns, n, p) => Catching(ns, F, ToSet(out), n, p)
    PROVE  Catching(ns2, F2, ToSet(out2), n, p)
<1> DEFINE b == f.data
           M == ToSet(out)
           M2 == ToSet(out2)
           t == f.to
<1>0. f.from \in Node /\ t \in Node /\ f.from # t /\ b \in Bodies /\ b.src = f.from BY ArrivalTyped
<1>1. /\ ns[t] # Absent /\ e = ns[t].engine /\ e \in Engines /\ e.id = t
      /\ ns2[t] # Absent /\ ns2[t].engine = x /\ \A q \in Node \ {t} : ns2[q] = ns[q]
      /\ Undisturbed(e, x, f.from)
  BY DEF Delivery
<1>2. M \subseteq M2 /\ \A r \in ToSet(Replies(e, b)) : Message(t, f.from, r) \in M2 BY DEF Replied
<1>3. Readable(b) BY DEF DataHolds, Readable, Arrivals
<1>4. Effect(e, b, x) BY <1>3 DEF Delivery
<1>5. ns2[n].engine.views[p] = ns[n].engine.views[p] /\ Fails(ns2[n].engine, p) = Fails(ns[n].engine, p)
  <2>1. CASE n = t BY <1>1, <2>1 DEF Undisturbed, Fails
  <2>2. CASE n # t BY <1>1, <2>2
  <2> QED BY <2>1, <2>2
<1>6. (ns2[n] # Absent <=> ns[n] # Absent) /\ (ns2[p] # Absent <=> ns[p] # Absent) BY <1>1
<1>7. ns2[p].engine.gen = ns[p].engine.gen
  <2>1. CASE p = t BY <1>1, <2>1 DEF Undisturbed
  <2>2. CASE p # t BY <1>1, <2>2
  <2> QED BY <2>1, <2>2
<1> HIDE DEF M, M2
<1>8. Catching(ns, F, M, n, p)
  <2>1. FailingAt(ns, n, p) BY <1>5, <1>6 DEF FailingAt
  <2> QED BY <2>1 DEF M
<1> DEFINE v == ns[n].engine.views[p]
<1>9. ns[p] # Absent /\ n # p /\ ns[n] # Absent BY <1>6, <1>8 DEF Catching, FailingAt
<1>10. CASE v.pending # NoGen BY <1>5, <1>6, <1>9, <1>10 DEF Catching, M2
<1>11. CASE \E d : OnWay(F, M, p, n, d) /\ Whole(d) /\ Lt(v.gen, d.gen)
  <2>1. PICK d : OnWay(F, M, p, n, d) /\ Whole(d) /\ Lt(v.gen, d.gen) BY <1>11
  <2>2. OnWay(F2, M2, p, n, d) BY <1>2, <2>1, OthersOnWay
  <2> QED BY <1>5, <1>6, <1>9, <2>1, <2>2 DEF Catching, M2
<1>12. CASE \E d : OnWay(F, M, n, p, d) /\ IsRequest(d) /\ Lt(v.gen, ns[p].engine.gen)
  <2>1. PICK d : OnWay(F, M, n, p, d) /\ IsRequest(d) /\ Lt(v.gen, ns[p].engine.gen) BY <1>12
  <2>2. CASE OnWay(F2, M2, n, p, d) BY <1>5, <1>6, <1>7, <1>9, <2>1, <2>2 DEF Catching, M2
  <2>3. CASE ~OnWay(F2, M2, n, p, d)
    <3>1. f.from = n /\ t = p /\ b = d BY <1>2, <2>1, <2>3, OthersOnWay
    <3>2. b.type = "RequestSnapshot" BY <2>1, <3>1 DEF IsRequest
    <3>3. n \notin e.departed BY <1>1, <1>9, <3>1 DEF Truthful, NodeHolds
    <3>4. Served(e, b, x)
      BY <1>0, <1>4, <3>1, <3>2, <3>3 DEF Effect, Spoiled, Taken, Ignored, Asked, Marked, Whole, IsSync
    <3>5. OwnSnapshot(e) \in ToSet(Replies(e, b)) BY <3>4 DEF Served, ToSet
    <3>6. Message(p, n, OwnSnapshot(e)) \in M2 BY <1>2, <3>1, <3>5
    <3>7. OnWay(F2, M2, p, n, OwnSnapshot(e)) BY <3>6 DEF OnWay, Message
    <3>8. Whole(OwnSnapshot(e)) /\ OwnSnapshot(e).gen = ns[p].engine.gen
      <4>1. OwnSnapshot(e).gen = e.gen /\ OwnSnapshot(e).wire = Wire /\ OwnSnapshot(e).type = "FullSnapshot"
        BY DEF OwnSnapshot, Sync
      <4>2. OwnSnapshot(e) \in Bodies BY <1>1, BodiesMade DEF Typed
      <4>3. ~IsHurt(OwnSnapshot(e)) BY <1>0, <1>1, OwnBodiesHold
      <4> QED BY <1>1, <3>1, <4>1, <4>2, <4>3 DEF Whole, IsSync, IsHurt, Typed, GarbageIsNoBody
    <3> QED BY <1>5, <1>6, <1>9, <2>1, <3>7, <3>8 DEF Catching, M2
  <2> QED BY <2>2, <2>3
<1> QED BY <1>8, <1>10, <1>11, <1>12 DEF Catching

\* One delivery of a tick, for all pairs of nodes.
LEMMA HandledHealth ==
    ASSUME Typed, NEW h, NEW lv, NEW acc, acc.nodes \in NodeMaps, acc.out \in Seq(Messages),
           Truthful(h, acc.nodes, lv),
           NEW f \in Arrivals, DataHolds(h, acc.nodes, lv, f.from, f.data), NEW y, y = Handle(acc, f),
           NEW F, NEW F2, F \subseteq F2 \cup {f}, NEW X,
           IsSync(f.data) /\ IsHurt(f.data) => <<f.to, f.from>> \in X,
           HealthHolds(acc.nodes, F, ToSet(acc.out), X)
    PROVE  HealthHolds(y.nodes, F2, ToSet(y.out), X)
<1>1. /\ acc.nodes[f.to] = Absent => y = acc
      /\ acc.nodes[f.to] # Absent =>
            \E e, x : Delivery(acc.nodes, f, e, x, y.nodes) /\ Replied(e, f, acc.out, y.out)
  BY OneDelivered
<1>2. PICK ns, ns2, out, out2 : ns = acc.nodes /\ ns2 = y.nodes /\ out = acc.out /\ out2 = y.out OBVIOUS
<1>3. ns \in NodeMaps /\ Truthful(h, ns, lv) /\ DataHolds(h, ns, lv, f.from, f.data) BY <1>2
<1>4. f.from \in Node /\ f.to \in Node /\ f.from # f.to BY ArrivalTyped
<1> SUFFICES ASSUME NEW n \in Node, NEW p \in Node, FailingAt(ns2, n, p), <<n, p>> \notin X
             PROVE  Catching(ns2, F2, ToSet(out2), n, p)
  BY <1>2 DEF HealthHolds
<1>5. FailingAt(ns, n, p) => Catching(ns, F, ToSet(out), n, p) BY <1>2 DEF HealthHolds
<1>6. CASE ns[f.to] = Absent
  <2>1. ns2 = ns /\ out2 = out BY <1>1, <1>2, <1>6
  <2>2. Catching(ns, F, ToSet(out), n, p) BY <1>5, <2>1
  <2>3. ns[p] # Absent /\ ns[n] # Absent BY <2>1, <2>2 DEF Catching, FailingAt
  <2>4. \A d : OnWay(F, ToSet(out), p, n, d) => OnWay(F2, ToSet(out), p, n, d) BY <1>6, <2>3, OthersOnWay
  <2>5. \A d : OnWay(F, ToSet(out), n, p, d) => OnWay(F2, ToSet(out), n, p, d) BY <1>6, <2>3, OthersOnWay
  <2> QED BY <2>1, <2>2, <2>4, <2>5 DEF Catching
<1>7. CASE ns[f.to] # Absent
  <2>1. PICK e, x : Delivery(ns, f, e, x, ns2) /\ Replied(e, f, out, out2) BY <1>1, <1>2, <1>7
  <2>2. CASE n = f.to /\ p = f.from BY <1>3, <1>5, <2>1, <2>2, DeliveryToHealth
  <2>3. CASE n # f.to \/ p # f.from BY <1>3, <1>5, <2>1, <2>3, DeliveryElsewhere
  <2> QED BY <2>2, <2>3
<1> QED BY <1>6, <1>7

\* Nothing that n waits for, from p, is lost.
StillWaits(ns, F, M, ns2, F2, M2, n, p) ==
    /\ ns[p] # Absent => ns2[p] # Absent
    /\ ns2[n].engine.views[p] = ns[n].engine.views[p]
    /\ Lt(ns[n].engine.views[p].gen, ns[p].engine.gen) => Lt(ns[n].engine.views[p].gen, ns2[p].engine.gen)
    /\ \A d : d # Garbage =>
          /\ OnWay(F, M, p, n, d) => OnWay(F2, M2, p, n, d)
          /\ OnWay(F, M, n, p, d) => OnWay(F2, M2, n, p, d)

\* A node that catches up goes on to.
LEMMA CatchingStill ==
    ASSUME NEW ns, NEW F, NEW M, NEW ns2, NEW F2, NEW M2, NEW n, NEW p,
           StillWaits(ns, F, M, ns2, F2, M2, n, p), Catching(ns, F, M, n, p)
    PROVE  Catching(ns2, F2, M2, n, p)
BY DEF StillWaits, Catching, Whole, IsSync, IsRequest

\* The frames a tick has still to hand over, and those that wait on.
FramesLeft(frames, k, W) == {frames[j] : j \in {i \in 1 .. Len(frames) : i > k}} \cup W

\* One delivery takes one frame.
LEMMA OneLess ==
    ASSUME NEW T, NEW frames \in Seq(T), NEW k \in Nat, k + 1 <= Len(frames), NEW W
    PROVE  FramesLeft(frames, k, W) \subseteq FramesLeft(frames, k + 1, W) \cup {frames[k + 1]}
BY DEF FramesLeft

\* Before the first delivery all are there, after the last none.
LEMMA NoneLeft ==
    ASSUME NEW T, NEW frames \in Seq(T), NEW W
    PROVE  /\ FramesLeft(frames, Len(frames), W) = W
           /\ FramesLeft(frames, 0, W) = ToSet(frames) \cup W
BY DEF FramesLeft, ToSet

\* The deliveries of a tick keep the promise.
LEMMA RunHealth ==
    ASSUME Typed, NEW h, NEW ns \in NodeMaps, NEW lv, NEW frames \in Seq(Arrivals),
           FramesHold(h, ns, lv, ToSet(frames)),
           NEW base, base = [nodes |-> ns, out |-> <<>>], NEW run, HandleRun(base, frames, run),
           \A k \in 0 .. Len(frames) : Running(h, ns, lv, frames, run[k]),
           NEW W, NEW X, HealthHolds(ns, ToSet(frames) \cup W, {}, X),
           \A f \in ToSet(frames) : IsSync(f.data) /\ IsHurt(f.data) => <<f.to, f.from>> \in X
    PROVE  HealthHolds(run[Len(frames)].nodes, W, ToSet(run[Len(frames)].out), X)
<1>b. base.nodes = ns /\ base.out = <<>> OBVIOUS
<1>0. /\ Len(frames) \in Nat /\ \A k \in 1 .. Len(frames) : frames[k] \in ToSet(frames) /\ frames[k] \in Arrivals
  BY DEF ToSet
<1>1. /\ run[0] = base
      /\ \A k \in 1 .. Len(frames) : run[k] = Handle(run[k - 1], frames[k])
  BY DEF HandleRun
<1> DEFINE P(k) == HealthHolds(run[k].nodes, FramesLeft(frames, k, W), ToSet(run[k].out), X)
           S == {k \in Nat : k <= Len(frames) => P(k)}
<1>2. 0 \in S
  <2>1. P(0) BY <1>1, <1>b, EmptyList, NoneLeft
  <2> QED BY <2>1
<1>3. ASSUME NEW k \in S PROVE k + 1 \in S
  <2> SUFFICES ASSUME k + 1 <= Len(frames) PROVE P(k + 1) OBVIOUS
  <2>1. k \in Nat /\ k + 1 \in 1 .. Len(frames) /\ (k + 1) - 1 = k /\ k \in 0 .. Len(frames) /\ P(k) BY <1>0
  <2>2. PICK f, acc, y : f = frames[k + 1] /\ acc = run[k] /\ y = run[k + 1] OBVIOUS
  <2>3. y = Handle(acc, f) /\ f \in ToSet(frames) /\ f \in Arrivals BY <1>0, <1>1, <2>1, <2>2
  <2>4. Running(h, ns, lv, frames, acc) BY <2>1, <2>2
  <2>5. /\ acc.nodes \in NodeMaps /\ acc.out \in Seq(Messages) /\ Truthful(h, acc.nodes, lv)
        /\ SameReach(ns, lv, acc.nodes)
    BY <2>4 DEF Running, Handled
  <2>6. DataHolds(h, acc.nodes, lv, f.from, f.data)
    <3>1. f.from \in Node BY <2>3, ArrivalTyped
    <3>2. DataHolds(h, ns, lv, f.from, f.data) BY <2>3 DEF FramesHold
    <3> QED BY <2>5, <3>1, <3>2, FramesReached
  <2>7. PICK F, F2 : F = FramesLeft(frames, k, W) /\ F2 = FramesLeft(frames, k + 1, W) OBVIOUS
  <2>8. F \subseteq F2 \cup {f} BY <2>1, <2>2, <2>7, OneLess
  <2>9. HealthHolds(acc.nodes, F, ToSet(acc.out), X) BY <2>1, <2>2, <2>7
  <2>10. IsSync(f.data) /\ IsHurt(f.data) => <<f.to, f.from>> \in X BY <2>3
  <2>11. HealthHolds(y.nodes, F2, ToSet(y.out), X)
    BY <2>3, <2>5, <2>6, <2>8, <2>9, <2>10, HandledHealth
  <2> QED BY <2>2, <2>7, <2>11
<1>4. S \in SUBSET Nat OBVIOUS
<1>5. \A k \in Nat : k \in S
  <2> HIDE DEF S
  <2> QED BY <1>2, <1>3, <1>4, SetInduction
<1>6. P(Len(frames)) BY <1>0, <1>5
<1> QED BY <1>6, NoneLeft

HealthInv == HealthHolds(nodes, ToSet(in_flight), {}, excused)

\* A message to be sent gets on its way, unless what it was for is excused.
LEMMA ToldOnWay ==
    ASSUME NEW net \in Networks, NEW messages \in Seq(Messages), NEW x \in Networks,
           Added(net, messages, x), Told(net, messages, Len(messages), x),
           NEW M, M \subseteq ToSet(messages),
           NEW n \in Node, NEW p \in Node, <<n, p>> \notin x.excused, NEW d
    PROVE  /\ OnWay(ToSet(net.queue), M, p, n, d) /\ d.type # "RequestSnapshot" => OnWay(ToSet(x.queue), {}, p, n, d)
           /\ OnWay(ToSet(net.queue), M, n, p, d) /\ d.type = "RequestSnapshot" => OnWay(ToSet(x.queue), {}, n, p, d)
<1>1. ToSet(net.queue) \subseteq ToSet(x.queue) BY DEF Added, Grown
<1>2. ASSUME NEW m \in M PROVE Concerns(m) \in x.excused \/ Landed(x.queue, m)
  <2>1. PICK j \in 1 .. Len(messages) : m = messages[j] BY <1>2 DEF ToSet
  <2> QED BY <2>1 DEF Told
<1>3. ASSUME NEW m \in M, Landed(x.queue, m) PROVE OnWay(ToSet(x.queue), {}, m.from, m.to, m.body)
  BY <1>3 DEF Landed, OnWay
<1>4. ASSUME NEW m \in M PROVE Concerns(m) = IF m.body.type = "RequestSnapshot" THEN <<m.from, m.to>> ELSE <<m.to, m.from>>
  BY DEF Concerns
<1>5. ASSUME NEW m \in M, m.from = p, m.to = n, m.body = d, d.type # "RequestSnapshot"
      PROVE  OnWay(ToSet(x.queue), {}, p, n, d)
  BY <1>2, <1>3, <1>4, <1>5
<1>6. ASSUME NEW m \in M, m.from = n, m.to = p, m.body = d, d.type = "RequestSnapshot"
      PROVE  OnWay(ToSet(x.queue), {}, n, p, d)
  BY <1>2, <1>3, <1>4, <1>6
<1>7. \A f \in ToSet(net.queue) : OnWay(ToSet(x.queue), {}, f.from, f.to, f.data) BY <1>1 DEF OnWay
<1> QED BY <1>5, <1>6, <1>7 DEF OnWay

\* The clock loses nothing that is under way.
LEMMA AdvancedOnWay ==
    ASSUME NEW q \in Seq(Frames), \A f \in ToSet(q) : f.due >= 1, NEW p, NEW n, NEW d, OnWay(ToSet(q), {}, p, n, d)
    PROVE  OnWay(ToSet(AdvanceTick(q)), {}, p, n, d)
<1>1. PICK f \in ToSet(q) : f.from = p /\ f.to = n /\ f.data = d BY DEF OnWay
<1>2. PICK k \in DOMAIN q : f = q[k] BY <1>1 DEF ToSet
<1>3. /\ k \in DOMAIN AdvanceTick(q) /\ AdvanceTick(q)[k].from = p
      /\ AdvanceTick(q)[k].to = n /\ AdvanceTick(q)[k].data = d
  BY <1>1, <1>2, QueueAdvanced
<1> QED BY <1>3 DEF OnWay, ToSet

\* Where a failure was there before and nothing waited for is lost, the cluster
\* catches up as before.
LEMMA HealthStays ==
    ASSUME NEW ns, NEW F, NEW M, NEW X, HealthHolds(ns, F, M, X),
           NEW ns2, NEW F2, NEW M2, NEW X2,
           \A n, p \in Node : FailingAt(ns2, n, p) /\ <<n, p>> \notin X2 =>
              /\ FailingAt(ns, n, p) /\ <<n, p>> \notin X
              /\ StillWaits(ns, F, M, ns2, F2, M2, n, p)
    PROVE  HealthHolds(ns2, F2, M2, X2)
<1> SUFFICES ASSUME NEW n \in Node, NEW p \in Node, FailingAt(ns2, n, p), <<n, p>> \notin X2
             PROVE  Catching(ns2, F2, M2, n, p)
  BY DEF HealthHolds
<1>1. FailingAt(ns, n, p) /\ <<n, p>> \notin X /\ StillWaits(ns, F, M, ns2, F2, M2, n, p) OBVIOUS
<1>2. Catching(ns, F, M, n, p) BY <1>1 DEF HealthHolds
<1> QED BY <1>1, <1>2, CatchingStill

\* More is under way, and more is excused.
LEMMA MoreUnderWay ==
    ASSUME NEW ns, NEW F, NEW M, NEW X, HealthHolds(ns, F, M, X),
           NEW F2, F \subseteq F2, NEW M2, M \subseteq M2, NEW X2, X \subseteq X2
    PROVE  HealthHolds(ns, F2, M2, X2)
<1>1. \A p, n, d : OnWay(F, M, p, n, d) => OnWay(F2, M2, p, n, d) BY DEF OnWay
<1>2. \A n, p \in Node : StillWaits(ns, F, M, ns, F2, M2, n, p) BY <1>1 DEF StillWaits
<1> QED BY <1>2, HealthStays

\* query and periodic sync keep it.
LEMMA SendHealth ==
    ASSUME Typed, TypeInv, HealthInv, nodes' = nodes,
           NEW list \in Seq(Messages), Into(SendAll(Network, list, FALSE))
    PROVE  HealthInv'
<1>1. PICK x : CallTaken(list, FALSE, x) BY CallTold
<1>2. /\ x.queue = in_flight' /\ x.excused = excused' /\ Added(Network, list, x)
      /\ Told(Network, list, Len(list), x)
  BY <1>1 DEF CallTaken
<1>3. ToSet(in_flight) \subseteq ToSet(in_flight') /\ excused \subseteq excused'
  BY <1>2 DEF Added, Grown, Told, Network
<1>4. PICK ns, F, X, F2, X2 :
        /\ ns = nodes /\ F = ToSet(in_flight) /\ X = excused
        /\ F2 = ToSet(in_flight') /\ X2 = excused'
  OBVIOUS
<1>5. HealthHolds(ns, F, {}, X) BY <1>4 DEF HealthInv
<1>6. HealthHolds(ns, F2, {}, X2) BY <1>3, <1>4, <1>5, MoreUnderWay
<1> QED BY <1>4, <1>6 DEF HealthInv

\* A node leaves: what the others wait for of each other stays.
LEMMA LeaveHealth ==
    ASSUME Typed, TypeInv, HealthInv, NEW n \in Node, RemoveNode(n) \/ RemoveNodeHard(n)
    PROVE  HealthInv'
<1>0. nodes \in NodeMaps /\ in_flight \in Seq(Frames) BY DEF TypeInv, NodesTyped, QueueTyped
<1>1. /\ nodes' = Left(nodes, n) /\ excused' = excused
      /\ in_flight' = in_flight \/ in_flight' = DropInFlightFor(in_flight, n)
  BY DEF RemoveNode, RemoveNodeHard, Without, Left, testVars
<1>2. \A f \in ToSet(in_flight) : f.from # n /\ f.to # n => f \in ToSet(in_flight')
  <2>1. PICK q : q = in_flight OBVIOUS
  <2>2. \A S : ToSet(Only(q, S)) = ToSet(q) \cap S BY <1>0, <2>1, OnlyOf
  <2>3. \A f \in ToSet(q) : f.from # n /\ f.to # n => f \in ToSet(DropInFlightFor(q, n))
    BY <2>2 DEF DropInFlightFor
  <2> QED BY <1>1, <2>1, <2>3
<1>3. PICK ns, F, X, ns2, F2, X2 :
        /\ ns = nodes /\ F = ToSet(in_flight) /\ X = excused
        /\ ns2 = nodes' /\ F2 = ToSet(in_flight') /\ X2 = excused'
  OBVIOUS
<1>4. /\ ns2[n] = Absent
      /\ \A m \in Node \ {n} : IF ns[m] = Absent THEN ns2[m] = Absent ELSE Bereft(ns, n, m, ns2[m])
  BY <1>0, <1>1, <1>3, NodeLeft
<1>5. ASSUME NEW m \in Node, NEW p \in Node, FailingAt(ns2, m, p), <<m, p>> \notin X2
      PROVE  /\ FailingAt(ns, m, p) /\ <<m, p>> \notin X
             /\ StillWaits(ns, F, {}, ns2, F2, {}, m, p)
  <2>1. m # p /\ ns2[m] # Absent /\ ns2[m].engine.views[p] # NoView /\ Fails(ns2[m].engine, p) > 0
    BY <1>5 DEF FailingAt
  <2>2. m # n /\ ns[m] # Absent /\ Bereft(ns, n, m, ns2[m]) BY <1>4, <2>1
  <2>3. ns[m].engine \in Engines /\ ns[m].engine.id = m BY <1>0, <1>3, <2>2, NodeTyped
  <2>4. /\ ns2[m].engine.diag = RemovePeer(ns[m].engine.diag, n)
        /\ ns2[m].engine.views[n] = NoView
        /\ \A q \in Node \ {n} : ns2[m].engine.views[q] = ns[m].engine.views[q]
    BY <2>2, <2>3, LeaveHandled DEF Bereft
  <2>5. p # n /\ ns2[m].engine.views[p] = ns[m].engine.views[p] BY <2>1, <2>4
  <2>6. Fails(ns2[m].engine, p) = Fails(ns[m].engine, p)
    BY <2>4, <2>5 DEF Fails, DiagnosticsOf, RemovePeer
  <2>7. FailingAt(ns, m, p) BY <2>1, <2>2, <2>5, <2>6 DEF FailingAt
  <2>8. \A d : (OnWay(F, {}, p, m, d) => OnWay(F2, {}, p, m, d)) /\ (OnWay(F, {}, m, p, d) => OnWay(F2, {}, m, p, d))
    BY <1>2, <1>3, <2>2, <2>5 DEF OnWay
  <2>9. ns[p] # Absent => ns2[p] # Absent /\ ns2[p].engine.gen = ns[p].engine.gen
    <3> SUFFICES ASSUME ns[p] # Absent PROVE ns2[p] # Absent /\ ns2[p].engine.gen = ns[p].engine.gen OBVIOUS
    <3>1. Bereft(ns, n, p, ns2[p]) BY <1>4, <2>5
    <3>2. ns[p].engine \in Engines /\ ns[p].engine.id = p BY <1>0, <1>3, NodeTyped
    <3>3. ns2[p].engine.gen = ns[p].engine.gen BY <2>5, <3>1, <3>2, LeaveHandled DEF Bereft, SameState
    <3>4. ns2[p] \in AnyNode BY <3>1 DEF Bereft, AnyNode
    <3> QED BY <3>3, <3>4 DEF Typed, AbsentIsNoNode
  <2>10. ns[p] # Absent
    <3>1. <<m, p>> \notin X BY <1>1, <1>3, <1>5
    <3>2. Catching(ns, F, {}, m, p) BY <1>3, <2>7, <3>1 DEF HealthInv, HealthHolds
    <3> QED BY <3>2 DEF Catching
  <2> QED BY <1>1, <1>3, <1>5, <2>5, <2>7, <2>8, <2>9, <2>10 DEF StillWaits
<1>6. HealthHolds(ns, F, {}, X) BY <1>3 DEF HealthInv
<1>7. HealthHolds(ns2, F2, {}, X2) BY <1>5, <1>6, HealthStays
<1> QED BY <1>3, <1>7 DEF HealthInv

\* A generation later than all p has reached is later than any entry of p.
LEMMA EntryIsOlder ==
    ASSUME NEW h, NEW ns, NEW lv, NEW p, NEW v, v # NoView, EntryHolds(h, ns, lv, p, v),
           NEW g \in Generation, g.inc > 0,
           \A k \in Generation : Reached(ns, lv, p, k) => Lt(k, g)
    PROVE  Lt(v.gen, g)
<1>1. CASE v.gen = Zero BY <1>1, ZeroBelow
<1>2. CASE Reached(ns, lv, p, v.gen) BY <1>2 DEF Reached
<1> QED BY <1>1, <1>2 DEF EntryHolds

\* What has landed is under way.
LEMMA LandedOnWay ==
    ASSUME NEW q, NEW from, NEW to, NEW b, Landed(q, Message(from, to, b))
    PROVE  OnWay(ToSet(q), {}, from, to, b)
BY DEF Landed, OnWay, Message

\* What a mutation sends is newer than any entry of the mutating node.
LEMMA MutationHealth ==
    ASSUME Typed, TypeInv, NEW h, BaseHolds(h), HealthInv, NEW n \in Node, NEW c \in Change,
           NEW action, NEW b, NEW y, MutationTaken(n, c, action, b, y)
    PROVE  HealthInv'
<1>0. nodes \in NodeMaps /\ in_flight \in Seq(Frames) /\ DataTyped BY DEF TypeInv, NodesTyped, QueueTyped, Typed
<1>1. PICK ns, lv, F, X, ns2, F2, X2, e :
        /\ ns = nodes /\ lv = lives /\ F = ToSet(in_flight) /\ X = excused /\ e = nodes[n].engine
        /\ ns2 = nodes' /\ F2 = ToSet(in_flight') /\ X2 = excused'
  OBVIOUS
<1>2. /\ ns[n] # Absent /\ y \in MockNodes(n) /\ y.engine = AfterMutation(e, c, action)
      /\ ns2 = [ns EXCEPT ![n] = y]
      /\ b = SnapshotBody(e, c) \/ b = DeltaBody(e, c, action)
  BY <1>1 DEF MutationTaken
<1>3. ns \in NodeMaps /\ e \in Engines /\ e.id = n /\ e = ns[n].engine BY <1>0, <1>1, <1>2, NodeTyped
<1>4. ns2 \in NodeMaps /\ ns2[n] = y /\ \A p \in Node \ {n} : ns2[p] = ns[p]
  <2>1. ns2 \in NodeMaps BY <1>2, <1>3, NodeReplaced
  <2>2. \A p \in Node \ {n} : ns2[p] = ns[p] BY <1>2, <1>3 DEF NodeMaps
  <2>3. ns2[n] = y BY <1>2, <1>3 DEF NodeMaps
  <2> QED BY <2>1, <2>2, <2>3
<1>5. /\ y.engine.diag = e.diag /\ y.engine.gen = NextAge(e.gen)
      /\ \A p \in Node \ {n} : y.engine.views[p] = e.views[p]
  BY <1>0, <1>2, <1>3, MutationMade
<1>6. y # Absent BY <1>2 DEF Typed, AbsentIsNoNode, AnyNode
<1>7. e.gen \in Generation /\ NextAge(e.gen) \in Generation /\ Lt(e.gen, NextAge(e.gen)) /\ NextAge(e.gen).inc = e.gen.inc
  BY <1>3, NextAgeAdvances DEF Engines, EngineRecords, NextAge, NewGeneration
<1>8. NewsOf(n, NextAge(e.gen), b) BY <1>2, <1>3, MutationBodies
<1>t. Truthful(h, ns, lv) BY <1>1 DEF BaseHolds
<1>9. NextAge(e.gen).inc > 0
  <2>1. e.gen.inc = lv[n] /\ lv[n] \in Nat /\ lv[n] >= 1 BY <1>2, <1>3, <1>t DEF Truthful, NodeHolds
  <2> QED BY <1>7, <2>1
<1>10. ASSUME NEW m \in Node, NEW p \in Node, FailingAt(ns2, m, p)
       PROVE  /\ FailingAt(ns, m, p) /\ ns2[m].engine.views[p] = ns[m].engine.views[p]
              /\ ns[m].engine.views[p].gen \in Generation
  <2>1. m # p /\ ns2[m] # Absent /\ ns2[m].engine.views[p] # NoView /\ Fails(ns2[m].engine, p) > 0
    BY <1>10 DEF FailingAt
  <2>2. ns[m] # Absent /\ ns2[m].engine.views[p] = ns[m].engine.views[p] /\ ns2[m].engine.diag = ns[m].engine.diag
    BY <1>2, <1>3, <1>4, <1>5, <2>1
  <2>3. FailingAt(ns, m, p) BY <2>1, <2>2 DEF FailingAt, Fails
  <2>4. ns[m].engine.views[p] \in OptEntry BY <1>3, <2>2, NodeTyped DEF Engines, EngineRecords
  <2> QED BY <2>1, <2>2, <2>3, <2>4 DEF OptEntry, Entry
<1>11. ASSUME NEW m \in Node, NEW p \in Node, FailingAt(ns2, m, p), F \subseteq F2
       PROVE  StillWaits(ns, F, {}, ns2, F2, {}, m, p)
  <2>1. ns2[m].engine.views[p] = ns[m].engine.views[p] /\ ns[m].engine.views[p].gen \in Generation BY <1>10, <1>11
  <2>2. ns[p] # Absent => ns2[p] # Absent BY <1>4, <1>6
  <2>3. Lt(ns[m].engine.views[p].gen, ns[p].engine.gen) => Lt(ns[m].engine.views[p].gen, ns2[p].engine.gen)
    <3>1. CASE p # n BY <1>4, <3>1
    <3>2. CASE p = n BY <1>3, <1>4, <1>5, <1>7, <2>1, <3>2, LtTransitive
    <3> QED BY <3>1, <3>2
  <2>4. \A q, r, d : OnWay(F, {}, q, r, d) => OnWay(F2, {}, q, r, d) BY <1>11 DEF OnWay
  <2> QED BY <2>1, <2>2, <2>3, <2>4 DEF StillWaits
<1>12. HealthHolds(ns, F, {}, X) BY <1>1 DEF HealthInv
<1>13. CASE UNCHANGED <<in_flight, excused>>
  <2>1. F2 = F /\ X2 = X BY <1>1, <1>13
  <2>2. HealthHolds(ns2, F2, {}, X2) BY <1>10, <1>11, <1>12, <2>1, HealthStays
  <2> QED BY <1>1, <2>2 DEF HealthInv
<1>14. CASE Into(SendAll(Network, Broadcast(nodes, n, b), TRUE))
  <2>1. PICK list : list = Broadcast(nodes, n, b) OBVIOUS
  <2>2. list \in Seq(Messages) /\ \A m : m \in ToSet(list) <=> SentTo(ns, n, b, m)
    BY <1>0, <1>1, <2>1, MessagesOfMutation
  <2>3. PICK x : CallTaken(list, TRUE, x) BY <1>14, <2>1, <2>2, CallTold
  <2>4. x.queue = in_flight' /\ x.excused = excused' /\ Added(Network, list, x) /\ ToldNews(Network, list, Len(list), x)
    BY <2>3 DEF CallTaken
  <2>5. F \subseteq F2 BY <1>1, <2>4 DEF Added, Grown, Network
  <2>6. \A j \in 1 .. Len(list) : SentTo(ns, n, b, list[j]) BY <2>2 DEF ToSet
  <2>7. ASSUME NEW m \in Node, NEW p \in Node, FailingAt(ns2, m, p), <<m, p>> \notin X2
        PROVE  Catching(ns2, F2, {}, m, p)
    <3>1. <<m, p>> \in Node \X Node OBVIOUS
    <3>2. \/ <<m, p>> \notin Network.excused
          \/ \E j \in 1 .. Len(list) : Concerns(list[j]) = <<m, p>> /\ Landed(x.queue, list[j])
      BY <1>1, <2>4, <2>7, <3>1 DEF ToldNews
    <3>3. CASE <<m, p>> \notin Network.excused
      <4>1. <<m, p>> \notin X BY <1>1, <3>3 DEF Network
      <4>2. Catching(ns, F, {}, m, p) BY <1>10, <1>12, <2>7, <4>1 DEF HealthHolds
      <4> QED BY <1>11, <2>5, <2>7, <4>2, CatchingStill
    <3>4. CASE \E j \in 1 .. Len(list) : Concerns(list[j]) = <<m, p>> /\ Landed(x.queue, list[j])
      <4>1. PICK j \in 1 .. Len(list) : Concerns(list[j]) = <<m, p>> /\ Landed(x.queue, list[j]) BY <3>4
      <4>2. PICK q \in Node : list[j] = Message(n, q, b) BY <2>6 DEF SentTo
      <4>3. b.type # "RequestSnapshot" /\ Whole(b) /\ b.gen = NextAge(e.gen) BY <1>8 DEF NewsOf, Whole, IsSync
      <4>4. Concerns(list[j]) = <<q, n>> BY <4>2, <4>3 DEF Concerns, Message
      <4>5. q = m /\ p = n BY <4>1, <4>4
      <4>6. OnWay(F2, {}, p, m, b) BY <1>1, <2>4, <4>1, <4>2, <4>5, LandedOnWay
      <4>7. FailingAt(ns, m, p) /\ ns2[m].engine.views[p] = ns[m].engine.views[p] BY <1>10, <2>7
      <4>8. EntryHolds(h, ns, lv, n, ns[m].engine.views[n]) /\ ns[m].engine.views[n] # NoView
        BY <1>t, <4>5, <4>7 DEF FailingAt, Truthful, NodeHolds
      <4>9. \A k \in Generation : Reached(ns, lv, n, k) => Lt(k, NextAge(e.gen))
        BY <1>2, <1>3, <1>7, LeLtTransitive DEF Reached
      <4>10. Lt(ns[m].engine.views[n].gen, b.gen) BY <1>7, <1>9, <4>3, <4>8, <4>9, EntryIsOlder
      <4>11. ns2[p] # Absent BY <1>4, <1>6, <4>5
      <4> QED BY <4>3, <4>5, <4>6, <4>7, <4>10, <4>11 DEF Catching
    <3> QED BY <3>2, <3>3, <3>4
  <2>8. HealthHolds(ns2, F2, {}, X2) BY <2>7 DEF HealthHolds
  <2> QED BY <1>1, <2>8 DEF HealthInv
<1> QED BY <1>13, <1>14 DEF MutationTaken

\* What a newcomer sends is newer than any entry of its former lives.
LEMMA AddHealth ==
    ASSUME Typed, TypeInv, NEW h, BaseHolds(h), HealthInv, NEW n \in Node, AddNode(n)
    PROVE  HealthInv'
<1>0. /\ nodes \in NodeMaps /\ in_flight \in Seq(Frames) /\ DataTyped /\ lives \in [Node -> Nat]
  BY DEF TypeInv, NodesTyped, QueueTyped, TestTyped, Typed
<1>1. PICK ns, lv, inc, F, X, ns2, F2, X2 :
        /\ ns = nodes /\ lv = lives /\ inc = lives[n] + 1 /\ F = ToSet(in_flight) /\ X = excused
        /\ ns2 = nodes' /\ F2 = ToSet(in_flight') /\ X2 = excused'
  OBVIOUS
<1>2. /\ ns[n] = Absent /\ ns2 = Admitted(ns, n, inc)
      /\ Into(SendAll(Network, Greetings(ns, n, inc), TRUE))
  BY <1>1 DEF AddNode
<1>3. inc \in Nat /\ inc > 0 /\ ns \in NodeMaps BY <1>0, <1>1
<1>4. /\ Newcomer(ns, n, inc, ns2[n])
      /\ \A p \in Node \ {n} : IF ns[p] = Absent THEN ns2[p] = Absent ELSE Welcomes(ns, n, p, ns2[p])
  BY <1>0, <1>2, <1>3, NodeAdmitted
<1>5. PICK list : list = Greetings(ns, n, inc) OBVIOUS
<1>6. list \in Seq(Messages) /\ \A m : m \in ToSet(list) <=> Greeting(ns, n, inc, m)
  BY <1>0, <1>2, <1>3, <1>5, GreetingsSent
<1>7. PICK x : CallTaken(list, TRUE, x) BY <1>2, <1>5, <1>6, CallTold
<1>8. x.queue = in_flight' /\ x.excused = excused' /\ Added(Network, list, x) /\ ToldNews(Network, list, Len(list), x)
  BY <1>7 DEF CallTaken
<1>9. F \subseteq F2 BY <1>1, <1>8 DEF Added, Grown, Network
<1>10. PICK b : b = OwnSnapshot(NewEngine(n, inc)) OBVIOUS
<1>11. /\ Whole(b) /\ b.gen = NewGeneration(inc, 0) /\ b.type = "FullSnapshot"
       /\ b.gen \in Generation /\ b.gen.inc = inc
  <2>1. NewEngine(n, inc) \in Engines BY <1>0, <1>3, EngineMade
  <2>2. b \in Bodies /\ b.type = "FullSnapshot" BY <1>0, <1>10, <2>1, BodiesMade
  <2>3. /\ b.gen = NewGeneration(inc, 0) /\ b.wire = Wire /\ b.data = NewEngine(n, inc).views[NewEngine(n, inc).id].value
    BY <1>3, <1>10, NewGenerationTyped DEF OwnSnapshot, Sync
  <2>4. NewEngine(n, inc).views[NewEngine(n, inc).id].value = Project(NewEngine(n, inc).value)
    BY <2>1 DEF Engines, OwnsEntry, OwnEntry
  <2>5. NewEngine(n, inc).value \in State BY <2>1 DEF Engines, EngineRecords
  <2>6. b.data # Malformed BY <1>0, <2>3, <2>4, <2>5, EngineAssumption DEF DataTyped
  <2>7. b # Garbage BY <2>2 DEF Typed, GarbageIsNoBody
  <2> QED BY <1>3, <2>2, <2>3, <2>6, <2>7, NewGenerationTyped DEF Whole, IsSync
<1>12. ASSUME NEW p \in Node, ns[p] # Absent, p # n
       PROVE  /\ ns2[p] # Absent /\ ns2[p].engine.gen = ns[p].engine.gen /\ ns2[p].engine.diag = ns[p].engine.diag
              /\ ns2[p].engine.views[n] = InsertPlaceholder(ns[p].engine.views[n], DefaultView)
              /\ \A q \in Node \ {n} : ns2[p].engine.views[q] = ns[p].engine.views[q]
  <2>1. Welcomes(ns, n, p, ns2[p]) BY <1>4, <1>12
  <2>2. ns[p].engine \in Engines /\ ns[p].engine.id = p BY <1>3, <1>12, NodeTyped
  <2>3. ns2[p] \in AnyNode BY <2>1 DEF Welcomes, AnyNode
  <2>4. ns2[p] # Absent BY <2>3 DEF Typed, AbsentIsNoNode
  <2> QED BY <1>0, <1>12, <2>1, <2>2, <2>4, JoinHandled DEF Welcomes, SameState
<1>13. HealthHolds(ns, F, {}, X) /\ Truthful(h, ns, lv) BY <1>1 DEF HealthInv, BaseHolds
<1>14. ASSUME NEW j \in 1 .. Len(list)
       PROVE  \E q \in Node \ {n} : Concerns(list[j]) = <<n, q>> \/ (Concerns(list[j]) = <<q, n>> /\ list[j] = Message(n, q, b))
  <2>1. Greeting(ns, n, inc, list[j]) BY <1>6 DEF ToSet
  <2>2. PICK q \in Node \ {n} : /\ ns[q] # Absent
                                /\ \/ list[j] = Message(q, n, OwnSnapshot(ns[q].engine))
                                   \/ list[j] = Message(n, q, b)
    BY <1>10, <2>1 DEF Greeting
  <2>3. OwnSnapshot(ns[q].engine).type = "FullSnapshot" BY <1>0, <1>3, <2>2, NodeTyped, BodiesMade
  <2>4. CASE list[j] = Message(q, n, OwnSnapshot(ns[q].engine)) BY <2>3, <2>4 DEF Concerns, Message
  <2>5. CASE list[j] = Message(n, q, b) BY <1>11, <2>5 DEF Concerns, Message
  <2> QED BY <2>2, <2>4, <2>5
<1>15. ASSUME NEW m \in Node, NEW p \in Node, FailingAt(ns2, m, p), <<m, p>> \notin X2
       PROVE  Catching(ns2, F2, {}, m, p)
  <2>1. m # p /\ ns2[m] # Absent /\ ns2[m].engine.views[p] # NoView /\ Fails(ns2[m].engine, p) > 0
    BY <1>15 DEF FailingAt
  <2>2. m # n
    <3>1. Fails(ns2[n].engine, p) = 0
      BY <1>4 DEF Newcomer, NewEngine, Fails, DiagnosticsOf, DefaultDiagnostics
    <3> QED BY <2>1, <3>1
  <2>3. ns[m] # Absent BY <1>4, <2>1, <2>2
  <2>4. Fails(ns[m].engine, p) > 0 BY <1>12, <2>1, <2>2, <2>3 DEF Fails
  <2>5. <<m, p>> \in Node \X Node OBVIOUS
  <2>6. \/ <<m, p>> \notin Network.excused /\ \A j \in 1 .. Len(list) : Concerns(list[j]) # <<m, p>>
        \/ \E j \in 1 .. Len(list) : Concerns(list[j]) = <<m, p>> /\ Landed(x.queue, list[j])
    BY <1>1, <1>8, <1>15, <2>5 DEF ToldNews
  <2>7. CASE p # n
    <3>1. \A j \in 1 .. Len(list) : Concerns(list[j]) # <<m, p>> BY <1>14, <2>2, <2>7
    <3>2. <<m, p>> \notin X BY <1>1, <2>6, <3>1 DEF Network
    <3>3. ns2[m].engine.views[p] = ns[m].engine.views[p] BY <1>12, <2>2, <2>3, <2>7
    <3>4. FailingAt(ns, m, p) BY <2>1, <2>3, <2>4, <3>3 DEF FailingAt
    <3>5. Catching(ns, F, {}, m, p) BY <1>13, <3>2, <3>4 DEF HealthHolds
    <3>6. ns[p] # Absent BY <3>5 DEF Catching
    <3>7. \A q, r, d : OnWay(F, {}, q, r, d) => OnWay(F2, {}, q, r, d) BY <1>9 DEF OnWay
    <3>8. StillWaits(ns, F, {}, ns2, F2, {}, m, p) BY <1>12, <2>7, <3>3, <3>6, <3>7 DEF StillWaits
    <3> QED BY <3>5, <3>8, CatchingStill
  <2>8. CASE p = n
    <3>1. Message(n, m, b) \in ToSet(list) BY <1>6, <1>10, <2>2, <2>3 DEF Greeting
    <3>2. PICK k \in 1 .. Len(list) : list[k] = Message(n, m, b) BY <1>6, <3>1 DEF ToSet
    <3>3. Concerns(list[k]) = <<m, n>> BY <1>11, <3>2 DEF Concerns, Message
    <3>4. PICK j \in 1 .. Len(list) : Concerns(list[j]) = <<m, n>> /\ Landed(x.queue, list[j])
      BY <2>6, <2>8, <3>2, <3>3
    <3>5. list[j] = Message(n, m, b) BY <1>14, <2>2, <3>4
    <3>6. OnWay(F2, {}, n, m, b) BY <1>1, <1>8, <3>4, <3>5, LandedOnWay
    <3>7. Lt(ns2[m].engine.views[n].gen, b.gen)
      <4>1. ns2[m].engine.views[n] = InsertPlaceholder(ns[m].engine.views[n], DefaultView) BY <1>12, <2>2, <2>3
      <4>2. CASE ns[m].engine.views[n] = NoView
        <5>1. ns2[m].engine.views[n].gen = Zero BY <4>1, <4>2 DEF InsertPlaceholder, Placeholder
        <5> QED BY <1>3, <1>11, <5>1, ZeroBelow
      <4>3. CASE ns[m].engine.views[n] # NoView
        <5>1. ns2[m].engine.views[n] = ns[m].engine.views[n] BY <4>1, <4>3 DEF InsertPlaceholder
        <5>2. EntryHolds(h, ns, lv, n, ns[m].engine.views[n]) BY <1>13, <2>2, <2>3 DEF Truthful, NodeHolds
        <5>3. \A k1 \in Generation : Reached(ns, lv, n, k1) => Lt(k1, b.gen)
          BY <1>0, <1>1, <1>11 DEF Reached, Lt, Generation
        <5>4. Lt(ns[m].engine.views[n].gen, b.gen) BY <1>3, <1>11, <4>3, <5>2, <5>3, EntryIsOlder
        <5> QED BY <5>1, <5>4
      <4> QED BY <4>2, <4>3
    <3>8. ns2[n] # Absent
      <4>1. ns2[n] \in AnyNode BY <1>4 DEF Newcomer, AnyNode
      <4> QED BY <4>1 DEF Typed, AbsentIsNoNode
    <3> QED BY <1>11, <2>8, <3>6, <3>7, <3>8 DEF Catching
  <2> QED BY <2>7, <2>8
<1>16. HealthHolds(ns2, F2, {}, X2) BY <1>15 DEF HealthHolds
<1> QED BY <1>1, <1>16 DEF HealthInv

\* What is sent of all that a tick has to send keeps the promise.
LEMMA SentHealth ==
    ASSUME NEW ns, NEW net \in Networks, NEW messages \in Seq(Messages), NEW x \in Networks,
           Added(net, messages, x), Told(net, messages, Len(messages), x),
           NEW M, M \subseteq ToSet(messages), HealthHolds(ns, ToSet(net.queue), M, net.excused)
    PROVE  HealthHolds(ns, ToSet(x.queue), {}, x.excused)
<1> SUFFICES ASSUME NEW n \in Node, NEW p \in Node, FailingAt(ns, n, p), <<n, p>> \notin x.excused
             PROVE  Catching(ns, ToSet(x.queue), {}, n, p)
  BY DEF HealthHolds
<1>1. <<n, p>> \notin net.excused BY DEF Told
<1>2. Catching(ns, ToSet(net.queue), M, n, p) BY <1>1 DEF HealthHolds
<1>3. \A d : /\ OnWay(ToSet(net.queue), M, p, n, d) /\ Whole(d) => OnWay(ToSet(x.queue), {}, p, n, d)
             /\ OnWay(ToSet(net.queue), M, n, p, d) /\ IsRequest(d) => OnWay(ToSet(x.queue), {}, n, p, d)
  BY ToldOnWay DEF Whole, IsSync, IsRequest
<1> QED BY <1>2, <1>3 DEF Catching

\* A tick keeps it.
LEMMA TickHealth ==
    ASSUME Typed, TypeInv, NEW h, BaseHolds(h), Sound(Network), HealthInv, Tick
    PROVE  HealthInv'
<1>0. nodes \in NodeMaps /\ in_flight \in Seq(Frames) BY DEF TypeInv, NodesTyped, QueueTyped
<1>1. PICK acc, net, run : TickRun(h, acc, net, run) BY TickRuns
<1>2. TickTaken(acc, net) BY <1>1 DEF TickRun
<1>3. PICK ns, lv, frames, F, W, ms, ms2, list, X, w :
        /\ ns = nodes /\ lv = lives /\ frames = Delivered(in_flight) /\ F = ToSet(in_flight)
        /\ W = ToSet(StillWaiting(in_flight)) /\ ms = acc.nodes /\ ms2 = nodes' /\ list = TickSends(acc)
        /\ X = excused /\ w = Waiting
  OBVIOUS
<1>4. /\ w \in Networks /\ w.queue = StillWaiting(in_flight) /\ X \subseteq w.excused
      /\ ToSet(w.queue) = W
      /\ list \in Seq(Messages) /\ ToSet(acc.out) \subseteq ToSet(list)
      /\ in_flight' = AdvanceTick(net.queue) /\ excused' = net.excused
      /\ \A f \in ToSet(net.queue) : f.due >= 1
      /\ \A n \in Node : ms2[n] = IF ms[n] = Absent THEN Absent ELSE AfterTimers(ms, n)
      /\ ms \in NodeMaps /\ ms2 \in NodeMaps
  BY <1>2, <1>3 DEF TickTaken, Handled
<1>5. /\ frames \in Seq(Arrivals) /\ ToSet(frames) = {f \in F : f.due = 0 /\ f.data # Garbage}
      /\ W = {f \in F : f.due >= 1}
  BY <1>0, <1>3, QueueParted
<1>6. HealthHolds(ns, F, {}, X) BY <1>3 DEF HealthInv
<1>7. HealthHolds(ns, ToSet(frames) \cup W, {}, w.excused)
  <2>1. \A f \in F : f.due \in Nat BY <1>0, <1>3, FramesOf DEF Frames
  <2>2. \A f \in F : f.data # Garbage => f \in ToSet(frames) \cup W BY <1>5, <2>1
  <2>3. PICK F2 : F2 = ToSet(frames) \cup W OBVIOUS
  <2>4. \A p, n, d : d # Garbage /\ OnWay(F, {}, p, n, d) => OnWay(F2, {}, p, n, d) BY <2>2, <2>3 DEF OnWay
  <2>5. \A n, p \in Node : StillWaits(ns, F, {}, ns, F2, {}, n, p) BY <2>4 DEF StillWaits
  <2> QED BY <1>4, <1>6, <2>3, <2>5, HealthStays
<1>8. HealthHolds(ms, W, ToSet(acc.out), w.excused)
  <2>1. FramesHold(h, ns, lv, ToSet(frames)) BY <1>3, <1>5 DEF BaseHolds, FramesHold
  <2>2. \A f \in ToSet(frames) : IsSync(f.data) /\ IsHurt(f.data) => <<f.to, f.from>> \in w.excused
    BY <1>3, <1>4, <1>5 DEF Sound, Network
  <2>3. PICK base, Y : base = [nodes |-> ns, out |-> <<>>] /\ Y = w.excused OBVIOUS
  <2>4. /\ HandleRun(base, frames, run) /\ acc = run[Len(frames)]
        /\ \A k \in 0 .. Len(frames) : Running(h, ns, lv, frames, run[k])
    BY <1>1, <1>3, <2>3 DEF TickRun
  <2>5. HealthHolds(run[Len(frames)].nodes, W, ToSet(run[Len(frames)].out), Y)
    BY <1>0, <1>3, <1>5, <1>7, <2>1, <2>2, <2>3, <2>4, RunHealth
  <2> QED BY <1>3, <2>3, <2>4, <2>5
<1>9. Added(w, list, net) /\ Told(w, list, Len(list), net) BY <1>2, <1>3, TickTold
<1>10. net \in Networks BY <1>9 DEF Added, Grown
<1>11. HealthHolds(ms, ToSet(net.queue), {}, net.excused)
  BY <1>4, <1>8, <1>9, <1>10, SentHealth
<1>12. PICK q, F2, X2 : q = net.queue /\ F2 = ToSet(AdvanceTick(net.queue)) /\ X2 = net.excused OBVIOUS
<1>13. \A p, n, d : OnWay(ToSet(q), {}, p, n, d) => OnWay(F2, {}, p, n, d)
  BY <1>4, <1>10, <1>12, AdvancedOnWay DEF Networks
<1>14. ASSUME NEW n \in Node, NEW p \in Node, FailingAt(ms2, n, p)
       PROVE  FailingAt(ms, n, p) /\ StillWaits(ms, ToSet(q), {}, ms2, F2, {}, n, p)
  <2>1. ms[n] # Absent /\ ms2[n] = AfterTimers(ms, n) BY <1>4, <1>14 DEF FailingAt
  <2>2. ms2[n].engine.views = ms[n].engine.views /\ ms2[n].engine.diag = ms[n].engine.diag
    BY <1>4, <2>1, TimersRun
  <2>3. FailingAt(ms, n, p) BY <1>14, <2>1, <2>2 DEF FailingAt, Fails
  <2>4. ms[p] # Absent => ms2[p] # Absent /\ ms2[p].engine.gen = ms[p].engine.gen
    <3> SUFFICES ASSUME ms[p] # Absent PROVE ms2[p] # Absent /\ ms2[p].engine.gen = ms[p].engine.gen OBVIOUS
    <3>1. ms2[p] = AfterTimers(ms, p) BY <1>4
    <3>2. ms2[p] \in MockNodes(p) /\ ms2[p].engine.gen = ms[p].engine.gen BY <1>4, <3>1, TimersRun
    <3> QED BY <3>2 DEF Typed, AbsentIsNoNode, AnyNode
  <2>5. ms[p] = Absent => ms2[p] = ms[p] BY <1>4
  <2> QED BY <1>13, <2>2, <2>3, <2>4, <2>5 DEF StillWaits
<1>15. HealthHolds(ms2, F2, {}, X2)
  <2>1. HealthHolds(ms, ToSet(q), {}, X2) BY <1>11, <1>12
  <2> QED BY <1>14, <2>1, HealthStays
<1> QED BY <1>3, <1>4, <1>12, <1>15 DEF HealthInv

\* So does every step.
LEMMA StepHealth ==
    ASSUME Typed, TypeInv, BaseInv, HealthInv, [Next]_vars
    PROVE  HealthInv'
<1>0. PICK h : BaseHolds(h) BY DEF BaseInv
<1>s. Sound(Network) BY DEF BaseInv
<1>k. CASE nodes' = nodes /\ in_flight' = in_flight /\ excused' = excused
  BY <1>k DEF HealthInv
<1>1. ASSUME NEW n \in Node, AddNode(n) PROVE HealthInv' BY <1>0, <1>1, AddHealth
<1>2. ASSUME NEW n \in Node, RemoveNode(n) \/ RemoveNodeHard(n) PROVE HealthInv' BY <1>2, LeaveHealth
<1>3. ASSUME NEW n \in Node, NEW c \in Change, NEW u \in SyncUrgency, Mutate(n, c, u) \/ MutateWithDelta(n, c, u)
      PROVE  HealthInv'
  <2>1. DataTyped BY DEF Typed
  <2>2. PICK b, y : MutationTaken(n, c, ResolveAction(u), b, y) BY <1>3, <2>1, MutateUnfolds
  <2>3. PICK action : action = ResolveAction(u) OBVIOUS
  <2> QED BY <1>0, <2>2, <2>3, MutationHealth
<1>4. ASSUME NEW n \in Node, NEW aged, Query(n, aged) PROVE HealthInv'
  <2> DEFINE out == [k \in DOMAIN Only(NodeOrder, Pulled(nodes[n].engine, aged)) |->
                       Message(n, Only(NodeOrder, Pulled(nodes[n].engine, aged))[k], Request(nodes[n].engine))]
  <2>1. nodes[n] # Absent /\ nodes' = nodes /\ Into(SendAll(Network, out, FALSE))
    BY <1>4 DEF Query
  <2>2. out \in Seq(Messages) BY <2>1, PulledSent DEF Typed
  <2> HIDE DEF out
  <2>3. PICK list : list = out OBVIOUS
  <2> QED BY <2>1, <2>2, <2>3, SendHealth
<1>5. ASSUME NEW n \in Node, PeriodicSync(n) PROVE HealthInv'
  <2>1. PICK ns, b : ns = nodes /\ b = OwnSnapshot(nodes[n].engine) OBVIOUS
  <2>2. nodes[n] # Absent /\ nodes' = nodes /\ Into(SendAll(Network, Broadcast(ns, n, b), FALSE))
    BY <1>5, <2>1 DEF PeriodicSync
  <2>3. nodes[n].engine \in Engines /\ nodes[n].engine.id = n
    BY <2>1, <2>2, NodeTyped DEF TypeInv, NodesTyped
  <2>4. b \in Bodies /\ b.src = n BY <2>1, <2>3, BodiesMade DEF Typed
  <2>5. PICK list : list = Broadcast(ns, n, b) OBVIOUS
  <2>6. list \in Seq(Messages) BY <2>4, <2>5, BroadcastSent
  <2> QED BY <2>2, <2>5, <2>6, SendHealth
<1>6. CASE (\E i \in Interceptor : AddInterceptor(i)) \/ ClearInterceptors
  BY <1>6, <1>k DEF AddInterceptor, ClearInterceptors
<1>7. CASE Tick BY <1>0, <1>s, <1>7, TickHealth
<1>8. CASE UNCHANGED vars BY <1>8, <1>k DEF vars
<1>9. CASE \E n \in Node : AddNode(n) \/ RemoveNode(n) \/ RemoveNodeHard(n) BY <1>1, <1>2, <1>9
<1>10. CASE \E n \in Node, c \in Change, u \in SyncUrgency : Mutate(n, c, u) \/ MutateWithDelta(n, c, u)
  BY <1>3, <1>10
<1>11. CASE \E n \in Node : PeriodicSync(n) \/ \E aged \in {{}, Node} : Query(n, aged)
  BY <1>4, <1>5, <1>11
<1> QED BY <1>6, <1>7, <1>8, <1>9, <1>10, <1>11 DEF Next

\* A new cluster has no failures.
LEMMA InitHealth ==
    ASSUME Typed, Init PROVE HealthInv
<1>1. PICK ns : ns = Built.nodes OBVIOUS
<1>2. nodes = ns BY <1>1, Zenon DEF Init, Built
<1>3. Fresh(Node, Built) BY BuiltFresh DEF Typed
<1>4. \A n \in Node : FreshAt(Node, n, ns[n]) BY <1>1, <1>3 DEF Fresh
<1>5. \A n, p \in Node : Fails(ns[n].engine, p) = 0
  BY <1>4 DEF FreshAt, NewEngine, Fails, DiagnosticsOf, DefaultDiagnostics
<1>6. \A n, p \in Node : ~FailingAt(ns, n, p) BY <1>5 DEF FailingAt
<1> QED BY <1>2, <1>6 DEF HealthInv, HealthHolds

\* Nothing under way: no failure is left to make up for.
LEMMA HealthAtRest ==
    ASSUME Typed, TypeInv, HealthInv PROVE SettledIsHealthy
<1> SUFFICES ASSUME IsSettled, NEW n \in Node, nodes[n] # Absent,
                    \A p \in KnownPeers(n, nodes[n].engine.views) :
                       <<n, p>> \notin excused /\ nodes[n].engine.views[p].pending = NoGen
             PROVE  Health(nodes[n].engine, {}) = "Healthy"
  BY DEF SettledIsHealthy
<1>1. PICK e : e = nodes[n].engine OBVIOUS
<1>2. e \in Engines /\ e.id = n BY <1>1, NodeTyped DEF TypeInv, NodesTyped
<1>3. DOMAIN e.views = Node BY <1>2 DEF Engines, EngineRecords
<1>4. ToSet(in_flight) = {} BY EmptyList DEF IsSettled
<1>5. \A p, m, d : ~OnWay(ToSet(in_flight), {}, p, m, d) BY <1>4 DEF OnWay
<1>6. ASSUME NEW p \in KnownPeers(n, e.views) PROVE ~(Fails(e, p) > 0)
  <2> SUFFICES ASSUME Fails(e, p) > 0 PROVE FALSE OBVIOUS
  <2>1. p \in Node /\ p # n /\ e.views[p] # NoView BY <1>3, <1>6 DEF KnownPeers
  <2>2. FailingAt(nodes, n, p) BY <1>1, <2>1 DEF FailingAt
  <2>3. <<n, p>> \notin excused /\ nodes[n].engine.views[p].pending = NoGen BY <1>1, <1>6
  <2>4. Catching(nodes, ToSet(in_flight), {}, n, p) BY <2>1, <2>2, <2>3 DEF HealthInv, HealthHolds
  <2> QED BY <1>5, <2>3, <2>4 DEF Catching
<1>7. {p \in KnownPeers(n, e.views) : e.views[p].pending # NoGen \/ p \in {}} = {} BY <1>1
<1>8. {p \in KnownPeers(n, e.views) : DiagnosticsOf(e.diag, p).failures > 0} = {} BY <1>6 DEF Fails
<1>9. Classify(KnownPeers(n, e.views), {}, {}) = "Healthy" BY DEF Classify
<1>10. Health(e, {}) = "Healthy" BY <1>2, <1>7, <1>8, <1>9 DEF Health, HealthStatus
<1> QED BY <1>1, <1>10

\* A settled node that missed nothing and has nothing to pull is healthy.
THEOREM SettledHealthy ==
    ASSUME Typed PROVE Spec => []SettledIsHealthy
<1>1. Init => TypeInv /\ BaseInv /\ HealthInv BY InitTyped, InitBase, InitHealth DEF Typed
<1>2. TypeInv /\ BaseInv /\ HealthInv /\ [Next]_vars => (TypeInv /\ BaseInv /\ HealthInv)'
  BY StepTyped, StepBase, StepHealth DEF Typed
<1>3. TypeInv /\ HealthInv => SettledIsHealthy BY HealthAtRest
<1> QED BY <1>1, <1>2, <1>3, PTL DEF Spec

-----------------------------------------------------------------------------
(* CurrentInv: a node has the latest of every peer, is about to hear of    *)
(* it, or has marked its entry. First the order in which announcements     *)
(* arrive.                                                                 *)

\* Where the elements of a part of a list stood in the list.
Places(list, S, part, at) ==
    /\ \A i \in DOMAIN part : at[i] \in DOMAIN list /\ list[at[i]] = part[i]
    /\ \A i, j \in DOMAIN part : i < j => at[i] < at[j]
    /\ \A k \in DOMAIN list : list[k] \in S => \E i \in DOMAIN part : at[i] = k

\* The same, up to place k of the list.
PlacesUpTo(list, S, k, part, at) ==
    /\ part \in Seq(ToSet(list)) /\ at \in [DOMAIN part -> 1 .. k]
    /\ \A i \in DOMAIN part : list[at[i]] = part[i]
    /\ \A i, j \in DOMAIN part : i < j => at[i] < at[j]
    /\ \A m \in 1 .. k : list[m] \in S => \E i \in DOMAIN part : at[i] = m

\* Only keeps the order of a list.
LEMMA OnlyInOrder ==
    ASSUME NEW T, NEW list \in Seq(T), NEW S
    PROVE  \E at : Places(list, S, Only(list, S), at)
<1>1. PICK only : /\ only[0] = <<>>
                  /\ \A k \in 1 .. Len(list) : only[k] = IF list[k] \in S THEN Append(only[k - 1], list[k]) ELSE only[k - 1]
                  /\ Only(list, S) = only[Len(list)]
    BY OnlyRuns
<1>0. Len(list) \in Nat /\ DOMAIN list = 1 .. Len(list) OBVIOUS
<1> DEFINE W == {k \in Nat : k <= Len(list) => \E at : PlacesUpTo(list, S, k, only[k], at)}
<1>2. 0 \in W
  <2>0. 1 .. 0 = {} OBVIOUS
  <2>1. <<>> \in Seq(ToSet(list)) /\ DOMAIN <<>> = {} OBVIOUS
  <2>2. PlacesUpTo(list, S, 0, <<>>, [i \in {} |-> 0]) BY <2>0, <2>1 DEF PlacesUpTo
  <2> QED BY <1>1, <2>2
<1>3. ASSUME NEW k \in W PROVE k + 1 \in W
  <2> SUFFICES ASSUME k + 1 <= Len(list) PROVE \E at : PlacesUpTo(list, S, k + 1, only[k + 1], at) OBVIOUS
  <2>1. k \in Nat /\ k + 1 \in 1 .. Len(list) /\ (k + 1) - 1 = k BY <1>0
  <2>2. PICK at : PlacesUpTo(list, S, k, only[k], at) BY <1>0, <2>1
  <2>3. PICK a, x : a = only[k] /\ x = list[k + 1] OBVIOUS
  <2>4. only[k + 1] = IF x \in S THEN Append(a, x) ELSE a BY <1>1, <2>1, <2>3
  <2>5. /\ a \in Seq(ToSet(list)) /\ at \in [DOMAIN a -> 1 .. k]
        /\ \A i \in DOMAIN a : list[at[i]] = a[i]
        /\ \A i, j \in DOMAIN a : i < j => at[i] < at[j]
        /\ \A m \in 1 .. k : list[m] \in S => \E i \in DOMAIN a : at[i] = m
    BY <2>2, <2>3 DEF PlacesUpTo
  <2>6. \A m \in 1 .. k + 1 : m \in 1 .. k \/ m = k + 1 BY <2>1
  <2>7. CASE x \notin S
    <3>1. at \in [DOMAIN a -> 1 .. k + 1] BY <2>1, <2>5
    <3>2. \A m \in 1 .. k + 1 : list[m] \in S => \E i \in DOMAIN a : at[i] = m BY <2>3, <2>5, <2>6, <2>7
    <3>3. PlacesUpTo(list, S, k + 1, a, at) BY <2>5, <3>1, <3>2 DEF PlacesUpTo
    <3> QED BY <2>4, <2>7, <3>3
  <2>8. CASE x \in S
    <3> DEFINE b == Append(a, x)
               n == Len(a)
               at2 == [i \in 1 .. n + 1 |-> IF i = n + 1 THEN k + 1 ELSE at[i]]
    <3>1. x \in ToSet(list) BY <1>0, <2>1, <2>3 DEF ToSet
    <3>2. /\ n \in Nat /\ DOMAIN a = 1 .. n /\ b \in Seq(ToSet(list)) /\ DOMAIN b = 1 .. n + 1
          /\ b[n + 1] = x /\ \A i \in 1 .. n : b[i] = a[i]
      BY <2>5, <3>1
    <3>3. \A i \in 1 .. n + 1 : i = n + 1 \/ i \in 1 .. n BY <3>2
    <3>4. at2[n + 1] = k + 1 /\ \A i \in 1 .. n : at2[i] = at[i] /\ at[i] \in 1 .. k BY <2>5, <3>2
    <3>5. at2 \in [1 .. n + 1 -> 1 .. k + 1]
      <4>1. \A i \in 1 .. n + 1 : at2[i] \in 1 .. k + 1
        <5> HIDE DEF at2
        <5> QED BY <2>1, <3>3, <3>4
      <4> HIDE DEF n
      <4> QED BY <4>1
    <3> HIDE DEF b, n, at2
    <3>6. \A i \in 1 .. n + 1 : list[at2[i]] = b[i] BY <2>3, <2>5, <3>2, <3>3, <3>4
    <3>7. ASSUME NEW i \in 1 .. n + 1, NEW j \in 1 .. n + 1, i < j PROVE at2[i] < at2[j]
      <4>1. i \in 1 .. n BY <3>2, <3>7
      <4>2. CASE j = n + 1 BY <2>1, <3>4, <4>1, <4>2
      <4>3. CASE j \in 1 .. n BY <2>5, <3>2, <3>4, <3>7, <4>1, <4>3
      <4> QED BY <3>3, <4>2, <4>3
    <3>8. ASSUME NEW m \in 1 .. k + 1, list[m] \in S PROVE \E i \in 1 .. n + 1 : at2[i] = m
      <4>1. CASE m = k + 1
        <5>1. n + 1 \in 1 .. n + 1 BY <3>2
        <5> QED BY <3>4, <4>1, <5>1
      <4>2. CASE m \in 1 .. k
        <5>1. PICK i \in 1 .. n : at[i] = m BY <2>5, <3>2, <3>8, <4>2
        <5>2. i \in 1 .. n + 1 BY <3>2
        <5> QED BY <3>4, <5>1, <5>2
      <4> QED BY <2>6, <4>1, <4>2
    <3>9. PlacesUpTo(list, S, k + 1, b, at2) BY <3>2, <3>5, <3>6, <3>7, <3>8 DEF PlacesUpTo
    <3> QED BY <2>4, <2>8, <3>9 DEF b
  <2> QED BY <2>7, <2>8
<1>4. W \in SUBSET Nat OBVIOUS
<1>5. \A k \in Nat : k \in W
  <2> HIDE DEF W
  <2> QED BY <1>2, <1>3, <1>4, SetInduction
<1>6. PICK at : PlacesUpTo(list, S, Len(list), only[Len(list)], at) BY <1>0, <1>5
<1>7. Places(list, S, Only(list, S), at) BY <1>0, <1>1, <1>6 DEF Places, PlacesUpTo
<1> QED BY <1>7

\* The announcement that arrives last stays the last where it is kept.
LEMMA NewestKept ==
    ASSUME NEW q \in Seq(Frames), NEW S, NEW p, NEW n, NEW g,
           NEW j \in DOMAIN q, Latest(q, j, p, n, g), q[j] \in S
    PROVE  Newest(Only(q, S), p, n, g)
<1>1. PICK at : Places(q, S, Only(q, S), at) BY OnlyInOrder
<1>2. PICK r : r = Only(q, S) OBVIOUS
<1>3. r \in Seq(Frames) BY <1>2, OnlyOf
<1>4. /\ \A i \in DOMAIN r : at[i] \in DOMAIN q /\ q[at[i]] = r[i]
      /\ \A i, m \in DOMAIN r : i < m => at[i] < at[m]
  BY <1>1, <1>2 DEF Places
<1>5. PICK a \in DOMAIN r : at[a] = j BY <1>1, <1>2 DEF Places
<1>6. FeedAt(r, a, p, n) /\ r[a].data.gen = g BY <1>4, <1>5 DEF Latest, FeedAt
<1>7. ASSUME NEW i \in DOMAIN r, FeedAt(r, i, p, n), r[i].data.gen # g PROVE ArrivesBefore(r, i, a)
  <2>1. FeedAt(q, at[i], p, n) /\ q[at[i]].data.gen # g BY <1>4, <1>7 DEF FeedAt
  <2>2. ArrivesBefore(q, at[i], j) BY <1>4, <2>1 DEF Latest
  <2>3. r[i].due < r[a].due \/ (r[i].due = r[a].due /\ at[i] < at[a]) BY <1>4, <1>5, <2>2 DEF ArrivesBefore
  <2>4. at[i] < at[a] => i < a
    <3>1. i \in Nat /\ a \in Nat /\ at[i] \in Nat /\ at[a] \in Nat BY <1>3, <1>4
    <3>2. a < i => at[a] < at[i] BY <1>4
    <3>3. a = i => at[a] = at[i] OBVIOUS
    <3> QED BY <3>1, <3>2, <3>3
  <2> QED BY <2>3, <2>4 DEF ArrivesBefore
<1>8. Latest(r, a, p, n, g) BY <1>6, <1>7 DEF Latest
<1> QED BY <1>2, <1>8 DEF Newest

\* It stays the last when the clock moves on.
LEMMA NewestAdvanced ==
    ASSUME NEW q \in Seq(Frames), \A f \in ToSet(q) : f.due >= 1, NEW p, NEW n, NEW g, Newest(q, p, n, g)
    PROVE  Newest(AdvanceTick(q), p, n, g)
<1>1. PICK j \in DOMAIN q : Latest(q, j, p, n, g) BY DEF Newest
<1>2. PICK r : r = AdvanceTick(q) OBVIOUS
<1>3. /\ DOMAIN r = DOMAIN q
      /\ \A k \in DOMAIN q : r[k].from = q[k].from /\ r[k].to = q[k].to /\ r[k].data = q[k].data /\ r[k].due = q[k].due - 1
  BY <1>2, QueueAdvanced
<1>4. \A k \in DOMAIN q : q[k].due \in Nat BY DEF Frames
<1>5. FeedAt(r, j, p, n) /\ r[j].data.gen = g BY <1>1, <1>3 DEF Latest, FeedAt
<1>6. ASSUME NEW i \in DOMAIN r, FeedAt(r, i, p, n), r[i].data.gen # g PROVE ArrivesBefore(r, i, j)
  <2>1. FeedAt(q, i, p, n) /\ q[i].data.gen # g BY <1>3, <1>6 DEF FeedAt
  <2>2. ArrivesBefore(q, i, j) BY <1>1, <1>3, <2>1 DEF Latest
  <2>3. q[i].due < q[j].due \/ (q[i].due = q[j].due /\ i < j) BY <2>2 DEF ArrivesBefore
  <2>4. r[i].due = q[i].due - 1 /\ r[j].due = q[j].due - 1 /\ q[i].due \in Nat /\ q[j].due \in Nat
    BY <1>3, <1>4
  <2> QED BY <2>3, <2>4 DEF ArrivesBefore
<1>7. Latest(r, j, p, n, g) BY <1>5, <1>6 DEF Latest
<1> QED BY <1>2, <1>3, <1>7 DEF Newest

-----------------------------------------------------------------------------
(* CurrentInv: deliveries.                                                 *)

FeedFrame(f, p, n) == f.from = p /\ f.to = n /\ f.data # Garbage /\ f.data.type = "Feed"

\* All that p has announced to n, and n has still to hear, is generation g.
FeedsAre(F, p, n, g) == \A f \in F : FeedFrame(f, p, n) => f.data.gen = g

\* n has generation g of p or a later one, is about to be sent one, has asked for
\* the latest, or p has one in a timer or is about to announce g.
Informed(ns, F, M, n, p, g) ==
    LET v == ns[n].engine.views[p]
        owner == ns[p].engine
    IN  \/ v # NoView /\ Le(g, v.gen)
        \/ \E d : OnWay(F, M, p, n, d) /\ Whole(d) /\ Le(g, d.gen)
        \/ \E d : OnWay(F, M, n, p, d) /\ IsRequest(d)
        \/ \E s \in ToSet(ns[p].scheduled) : Le(g, s.body.gen)
        \/ owner.feed = g

\* p has nothing to announce but g.
Quiet(ns, p, g) == ns[p].engine.feed \in {NoGen, g}

\* n has marked its entry with g, and no announcement of another generation is to
\* come.
Noted(ns, F, n, p, g) ==
    LET v == ns[n].engine.views[p] IN
    v # NoView /\ v.pending = g /\ FeedsAre(F, p, n, g)

Aware(ns, F, M, n, p, g) == Informed(ns, F, M, n, p, g) \/ (Quiet(ns, p, g) /\ Noted(ns, F, n, p, g))

\* The sender of what n is to hear is as it was.
SameOwner(ns, ns2, p) ==
    /\ ns2[p] # Absent /\ ns2[p].engine.gen = ns[p].engine.gen
    /\ ns2[p].engine.feed = ns[p].engine.feed /\ ns2[p].scheduled = ns[p].scheduled

\* A delivery does not change what a node has to send of its own.
LEMMA OwnerKept ==
    ASSUME NEW ns, NEW f \in Arrivals, NEW e, NEW x, NEW ns2, Delivery(ns, f, e, x, ns2),
           NEW p \in Node, ns[p] # Absent
    PROVE  SameOwner(ns, ns2, p)
<1>1. CASE p = f.to BY <1>1 DEF Delivery, Undisturbed, SameOwner
<1>2. CASE p # f.to BY <1>2 DEF Delivery, SameOwner
<1> QED BY <1>1, <1>2

\* The entry of a node is no later than the node.
LEMMA EntryNoLater ==
    ASSUME NEW h, NEW ns \in NodeMaps, NEW lv, Truthful(h, ns, lv), NEW n \in Node, NEW p \in Node, n # p,
           ns[n] # Absent, ns[p] # Absent, ns[n].engine.views[p] # NoView
    PROVE  /\ ns[p].engine.gen \in Generation /\ ns[p].engine.gen.inc > 0
           /\ ns[n].engine.views[p] \in Entry /\ ns[n].engine.views[p].gen \in Generation
           /\ Le(ns[n].engine.views[p].gen, ns[p].engine.gen)
<1>1. ns[p].engine.gen \in Generation BY NodeTyped DEF Engines, EngineRecords
<1>2. NodeHolds(h, ns, lv, p) /\ NodeHolds(h, ns, lv, n) /\ lv[p] \in Nat /\ lv[p] >= 1 BY DEF Truthful
<1>3. ns[p].engine.gen.inc > 0 BY <1>2 DEF NodeHolds
<1>4. ns[n].engine.views[p] \in OptEntry BY NodeTyped DEF Engines, EngineRecords
<1>5. ns[n].engine.views[p] \in Entry /\ ns[n].engine.views[p].gen \in Generation BY <1>4 DEF OptEntry, Entry
<1>6. EntryHolds(h, ns, lv, p, ns[n].engine.views[p]) BY <1>2 DEF NodeHolds
<1>7. CASE ns[n].engine.views[p].gen = Zero BY <1>1, <1>3, <1>5, <1>7, ZeroBelow DEF Le
<1>8. CASE Reached(ns, lv, p, ns[n].engine.views[p].gen) BY <1>1, <1>3, <1>5, <1>8 DEF Reached
<1> QED BY <1>6, <1>7, <1>8 DEF EntryHolds

\* A delivery elsewhere: a request that is served is answered by the latest.
LEMMA DeliveryElsewhereAware ==
    ASSUME Typed, NEW h, NEW ns \in NodeMaps, NEW lv, Truthful(h, ns, lv),
           NEW f \in Arrivals, DataHolds(h, ns, lv, f.from, f.data),
           NEW e, NEW x, NEW ns2, Delivery(ns, f, e, x, ns2),
           NEW out, NEW out2, Replied(e, f, out, out2),
           NEW F, NEW F2, F \subseteq F2 \cup {f}, F2 \subseteq F,
           NEW n \in Node, NEW p \in Node, n # p, ns[n] # Absent, ns[p] # Absent,
           n # f.to \/ p # f.from,
           NEW g \in Generation, Le(g, ns[p].engine.gen), Aware(ns, F, ToSet(out), n, p, g)
    PROVE  Aware(ns2, F2, ToSet(out2), n, p, g)
<1> DEFINE b == f.data
           M == ToSet(out)
           M2 == ToSet(out2)
           t == f.to
<1>0. f.from \in Node /\ t \in Node /\ f.from # t /\ b \in Bodies /\ b.src = f.from BY ArrivalTyped
<1>1. /\ ns[t] # Absent /\ e = ns[t].engine /\ e \in Engines /\ e.id = t
      /\ ns2[t].engine = x /\ \A q \in Node \ {t} : ns2[q] = ns[q]
      /\ Undisturbed(e, x, f.from)
  BY DEF Delivery
<1>2. M \subseteq M2 /\ \A r \in ToSet(Replies(e, b)) : Message(t, f.from, r) \in M2 BY DEF Replied
<1>3. Readable(b) BY DEF DataHolds, Readable, Arrivals
<1>4. Effect(e, b, x) BY <1>3 DEF Delivery
<1>5. ns2[n].engine.views[p] = ns[n].engine.views[p]
  <2>1. CASE n = t BY <1>1, <2>1 DEF Undisturbed
  <2>2. CASE n # t BY <1>1, <2>2
  <2> QED BY <2>1, <2>2
<1>6. /\ ns2[p].engine.gen = ns[p].engine.gen /\ ns2[p].engine.feed = ns[p].engine.feed
      /\ ns2[p].scheduled = ns[p].scheduled
  BY OwnerKept DEF SameOwner
<1> HIDE DEF M, M2
<1> DEFINE v == ns[n].engine.views[p]
<1>7. ASSUME v # NoView /\ Le(g, v.gen) PROVE Informed(ns2, F2, M2, n, p, g) BY <1>5, <1>6, <1>7 DEF Informed
<1>8. ASSUME NEW d, OnWay(F, M, p, n, d), Whole(d), Le(g, d.gen) PROVE Informed(ns2, F2, M2, n, p, g)
  <2>1. OnWay(F2, M2, p, n, d) BY <1>2, <1>8, OthersOnWay
  <2> QED BY <1>6, <1>8, <2>1 DEF Informed
<1>9. ASSUME NEW d, OnWay(F, M, n, p, d), IsRequest(d) PROVE Informed(ns2, F2, M2, n, p, g)
  <2>2. CASE OnWay(F2, M2, n, p, d) BY <1>9, <2>2 DEF Informed
  <2>3. CASE ~OnWay(F2, M2, n, p, d)
    <3>1. f.from = n /\ t = p /\ b = d BY <1>2, <1>9, <2>3, OthersOnWay
    <3>2. b.type = "RequestSnapshot" BY <1>9, <3>1 DEF IsRequest
    <3>3. n \notin e.departed BY <1>1, <3>1 DEF Truthful, NodeHolds
    <3>4. Served(e, b, x)
      BY <1>0, <1>4, <3>1, <3>2, <3>3 DEF Effect, Spoiled, Taken, Ignored, Asked, Marked, Whole, IsSync
    <3>5. OwnSnapshot(e) \in ToSet(Replies(e, b)) BY <3>4 DEF Served, ToSet
    <3>6. Message(p, n, OwnSnapshot(e)) \in M2 BY <1>2, <3>1, <3>5
    <3>7. OnWay(F2, M2, p, n, OwnSnapshot(e)) BY <3>6 DEF OnWay, Message
    <3>8. Whole(OwnSnapshot(e)) /\ Le(g, OwnSnapshot(e).gen)
      <4>1. OwnSnapshot(e).gen = e.gen /\ OwnSnapshot(e).wire = Wire /\ OwnSnapshot(e).type = "FullSnapshot"
        BY DEF OwnSnapshot, Sync
      <4>2. OwnSnapshot(e) \in Bodies BY <1>1, BodiesMade DEF Typed
      <4>3. ~IsHurt(OwnSnapshot(e)) BY <1>0, <1>1, OwnBodiesHold
      <4> QED BY <1>1, <3>1, <4>1, <4>2, <4>3 DEF Whole, IsSync, IsHurt, Typed, GarbageIsNoBody
    <3> QED BY <1>6, <3>7, <3>8 DEF Informed
  <2> QED BY <2>2, <2>3
<1>10. ASSUME (\E s \in ToSet(ns[p].scheduled) : Le(g, s.body.gen)) \/ ns[p].engine.feed = g
       PROVE  Informed(ns2, F2, M2, n, p, g)
  BY <1>6, <1>10 DEF Informed
<1>11. CASE Informed(ns, F, M, n, p, g)
  <2>1. Informed(ns2, F2, M2, n, p, g) BY <1>7, <1>8, <1>9, <1>10, <1>11 DEF Informed
  <2> QED BY <2>1 DEF Aware, M2
<1>12. CASE Quiet(ns, p, g) /\ Noted(ns, F, n, p, g)
  <2>1. Quiet(ns2, p, g) /\ Noted(ns2, F2, n, p, g) BY <1>5, <1>6, <1>12 DEF Quiet, Noted, FeedsAre
  <2> QED BY <2>1 DEF Aware
<1> QED BY <1>11, <1>12 DEF Aware, M

\* One of two generations, each no later than the other.
LEMMA LeBothWays ==
    ASSUME NEW g \in Generation, NEW k \in Generation, Le(g, k), Le(k, g)
    PROVE  g = k
BY LtTotal DEF Le

\* n hears from p, undamaged: the sender is not departed, and the message does one
\* of five things.
LEMMA HeardFrom ==
    ASSUME Typed, NEW h, NEW ns \in NodeMaps, NEW lv, Truthful(h, ns, lv),
           NEW f \in Arrivals, DataHolds(h, ns, lv, f.from, f.data),
           NEW e, NEW x, NEW ns2, Delivery(ns, f, e, x, ns2),
           NEW n, NEW p, n = f.to, p = f.from, ns[p] # Absent, ~(IsSync(f.data) /\ IsHurt(f.data))
    PROVE  /\ n \in Node /\ p \in Node /\ n # p /\ ns[n] # Absent /\ ns[n].engine = e /\ ns2[n].engine = x
           /\ f.data.src = p /\ e \in Engines /\ SameOwner(ns, ns2, p)
           /\ \/ Taken(e, f.data, x) \/ Ignored(e, f.data, x) \/ Asked(e, f.data, x)
              \/ Marked(e, f.data, x) \/ Served(e, f.data, x)
           /\ IsSync(f.data) \/ f.data.type = "Feed" =>
                f.data.gen \in Generation /\ Le(f.data.gen, ns[p].engine.gen)
<1> DEFINE b == f.data
<1>0. f.from \in Node /\ f.to \in Node /\ f.from # f.to /\ b \in Bodies /\ b.src = f.from BY ArrivalTyped
<1>1. /\ ns[n] # Absent /\ e = ns[n].engine /\ e \in Engines /\ e.id = n /\ ns2[n].engine = x
  BY DEF Delivery
<1>2. Readable(b) BY DEF DataHolds, Readable, Arrivals
<1>3. Effect(e, b, x) BY <1>2 DEF Delivery
<1>4. p \notin e.departed BY <1>0, <1>1 DEF Truthful, NodeHolds
<1>5. SameOwner(ns, ns2, p) BY <1>0, OwnerKept
<1>6. ~Spoiled(e, b, x) BY DEF Spoiled
<1>7. IsSync(b) \/ b.type = "Feed" => Reached(ns, lv, p, b.gen) BY DEF DataHolds, Arrivals
<1> QED BY <1>0, <1>1, <1>3, <1>4, <1>5, <1>6, <1>7 DEF Effect, Reached

\* No undamaged message removes an entry.
LEMMA EntryStays ==
    ASSUME Typed, NEW h, NEW ns \in NodeMaps, NEW lv, Truthful(h, ns, lv),
           NEW f \in Arrivals, DataHolds(h, ns, lv, f.from, f.data),
           NEW e, NEW x, NEW ns2, Delivery(ns, f, e, x, ns2),
           NEW n, NEW p, n = f.to, p = f.from, ns[p] # Absent, ~(IsSync(f.data) /\ IsHurt(f.data)),
           ns[n].engine.views[p] # NoView
    PROVE  ns2[n].engine.views[p] # NoView
<1> DEFINE b == f.data
           v == e.views[p]
<1>1. /\ n \in Node /\ p \in Node /\ ns[n].engine = e /\ ns2[n].engine = x /\ b.src = p /\ e \in Engines
      /\ Taken(e, b, x) \/ Ignored(e, b, x) \/ Asked(e, b, x) \/ Marked(e, b, x) \/ Served(e, b, x)
  BY HeardFrom
<1>2. CASE Taken(e, b, x) BY <1>1, <1>2 DEF Taken
<1>3. CASE Ignored(e, b, x) BY <1>1, <1>3 DEF Ignored
<1>4. CASE Asked(e, b, x) BY <1>1, <1>4 DEF Asked
<1>5. CASE Served(e, b, x) BY <1>1, <1>5 DEF Served
<1>6. CASE Marked(e, b, x)
  <2>1. x.views[p] = MarkStale(v, b.gen) BY <1>1, <1>6 DEF Marked
  <2>2. v \in Entry /\ v # NoView BY <1>1 DEF Engines, EngineRecords, OptEntry
  <2>3. x.views[p] = v \/ x.views[p] = [v EXCEPT !.pending = b.gen] BY <2>1 DEF MarkStale
  <2>4. x \in Engines BY DEF Delivery, Undisturbed
  <2>5. CASE x.views[p] = v BY <1>1, <2>2, <2>5
  <2>6. CASE x.views[p] = [v EXCEPT !.pending = b.gen]
    <3>1. b.type = "Feed" BY <1>6 DEF Marked
    <3>2. b.gen \in Generation BY <1>1, <3>1, HeardFrom
    <3>3. x.views[p] \in Entry BY <2>2, <2>6, <3>2 DEF Entry, OptGeneration
    <3> QED BY <1>1, <3>3, NoViewAssumption
  <2> QED BY <2>3, <2>5, <2>6
<1> QED BY <1>1, <1>2, <1>3, <1>4, <1>5, <1>6

\* Frame f is taken from the frames F.
Taking(F, f, F2) == f \in F /\ F2 \subseteq F /\ F \subseteq F2 \cup {f}

\* A delivery to n of what p has sent: n stays aware of the latest of p.
LEMMA DeliveryToAware ==
    ASSUME Typed, NEW h, NEW ns \in NodeMaps, NEW lv, Truthful(h, ns, lv),
           NEW f \in Arrivals, DataHolds(h, ns, lv, f.from, f.data),
           NEW e, NEW x, NEW ns2, Delivery(ns, f, e, x, ns2),
           NEW out, NEW out2, Replied(e, f, out, out2),
           NEW F, NEW F2, Taking(F, f, F2),
           NEW n \in Node, NEW p \in Node, n = f.to, p = f.from, ns[p] # Absent,
           ~(IsSync(f.data) /\ IsHurt(f.data)),
           NEW g \in Generation, Aware(ns, F, ToSet(out), n, p, g)
    PROVE  Aware(ns2, F2, ToSet(out2), n, p, g)
<1> DEFINE b == f.data
           M == ToSet(out)
           M2 == ToSet(out2)
           v == e.views[p]
           w == x.views[p]
<1>1. /\ n \in Node /\ p \in Node /\ n # p /\ ns[n] # Absent /\ ns[n].engine = e /\ ns2[n].engine = x
      /\ b.src = p /\ e \in Engines /\ SameOwner(ns, ns2, p)
      /\ Taken(e, b, x) \/ Ignored(e, b, x) \/ Asked(e, b, x) \/ Marked(e, b, x) \/ Served(e, b, x)
      /\ IsSync(b) \/ b.type = "Feed" => b.gen \in Generation
  BY HeardFrom
<1>2. M \subseteq M2 /\ \A r \in ToSet(Replies(e, b)) : Message(n, p, r) \in M2 BY DEF Replied
<1>3. /\ ns2[p].engine.feed = ns[p].engine.feed
      /\ ns2[p].scheduled = ns[p].scheduled
  BY <1>1 DEF SameOwner
<1>5. v # NoView => v \in Entry /\ v.gen \in Generation BY <1>1, EntryNoLater
<1>f. f \in F /\ F2 \subseteq F /\ F \subseteq F2 \cup {f} BY DEF Taking
<1> HIDE DEF M, M2
<1>6. ASSUME w # NoView, Le(g, w.gen) PROVE Informed(ns2, F2, M2, n, p, g) BY <1>1, <1>3, <1>6 DEF Informed
\* What is asked for is sent.
<1>7. ASSUME Asked(e, b, x) PROVE Informed(ns2, F2, M2, n, p, g)
  <2>1. Replies(e, b) = <<Request(e)>> BY <1>7 DEF Asked
  <2>2. Request(e) \in ToSet(Replies(e, b)) BY <2>1 DEF ToSet
  <2>3. Message(n, p, Request(e)) \in M2 BY <1>2, <2>2
  <2>4. OnWay(F2, M2, n, p, Request(e)) BY <2>3 DEF OnWay, Message
  <2>5. IsRequest(Request(e))
    <3>1. Request(e) \in Bodies /\ Request(e).type = "RequestSnapshot" BY <1>1, BodiesMade DEF Typed
    <3> QED BY <3>1 DEF IsRequest, Typed, GarbageIsNoBody
  <2> QED BY <2>4, <2>5 DEF Informed
<1>8. Taken(e, b, x) => /\ w # NoView /\ w.gen = b.gen /\ w.pending = KeptPending(v, b.gen) /\ IsSync(b)
                        /\ v = NoView \/ Lt(v.gen, b.gen)
  BY <1>1 DEF Taken, Whole
<1>9. Marked(e, b, x) => w = MarkStale(v, b.gen) /\ b.type = "Feed" BY <1>1 DEF Marked
<1>10. Ignored(e, b, x) => w = v /\ v # NoView /\ Le(b.gen, v.gen) BY <1>1 DEF Ignored
<1>11. Served(e, b, x) => w = v /\ ~Whole(b) BY DEF Served, Whole, IsSync
<1>12. v # NoView => /\ MarkStale(v, b.gen).gen = v.gen
                     /\ MarkStale(v, b.gen).pending \in {v.pending, b.gen}
  BY <1>5 DEF MarkStale, Entry
<1>13. Marked(e, b, x) /\ v # NoView => w # NoView
  <2>1. v # NoView => ns2[n].engine.views[p] # NoView BY <1>1, EntryStays
  <2> QED BY <1>1, <2>1
<1>14. CASE v # NoView /\ Le(g, v.gen)
  <2>1. CASE Taken(e, b, x)
    <3>1. Lt(v.gen, b.gen) /\ b.gen \in Generation /\ v.gen \in Generation BY <1>1, <1>5, <1>8, <1>14, <2>1
    <3>2. Le(g, w.gen) BY <1>8, <1>14, <2>1, <3>1, LeLtTransitive DEF Le
    <3> QED BY <1>6, <1>8, <2>1, <3>2 DEF Aware, M2
  <2>2. CASE Marked(e, b, x) BY <1>6, <1>9, <1>12, <1>13, <1>14, <2>2 DEF Aware, M2
  <2>3. CASE Ignored(e, b, x) \/ Served(e, b, x) BY <1>6, <1>10, <1>11, <1>14, <2>3 DEF Aware, M2
  <2>4. CASE Asked(e, b, x) BY <1>7, <2>4 DEF Aware, M2
  <2> QED BY <1>1, <2>1, <2>2, <2>3, <2>4
<1>15. CASE \E d : OnWay(F, M, p, n, d) /\ Whole(d) /\ Le(g, d.gen)
  <2>1. PICK d : OnWay(F, M, p, n, d) /\ Whole(d) /\ Le(g, d.gen) BY <1>15
  <2>2. CASE OnWay(F2, M2, p, n, d)
    <3>1. Informed(ns2, F2, M2, n, p, g) BY <1>3, <2>1, <2>2 DEF Informed
    <3> QED BY <3>1 DEF Aware, M2
  <2>3. CASE ~OnWay(F2, M2, p, n, d)
    <3>1. b = d BY <1>2, <1>f, <2>1, <2>3, OthersOnWay
    <3>2. Whole(b) /\ Le(g, b.gen) BY <2>1, <3>1
    <3>3. ~Marked(e, b, x) /\ ~Served(e, b, x) BY <3>2 DEF Marked, Served, Whole, IsSync
    <3>4. CASE Taken(e, b, x) BY <1>6, <1>8, <3>2, <3>4 DEF Aware, M2
    <3>5. CASE Asked(e, b, x) BY <1>7, <3>5 DEF Aware, M2
    <3>6. CASE Ignored(e, b, x)
      <4>0. IsSync(b) BY <3>2 DEF Whole
      <4>1. w = v /\ v # NoView /\ Le(b.gen, v.gen) /\ b.gen \in Generation /\ v.gen \in Generation
        BY <1>1, <1>5, <1>10, <3>6, <4>0
      <4>2. Le(g, w.gen) BY <3>2, <4>1, LeTransitive
      <4> QED BY <1>6, <4>1, <4>2 DEF Aware, M2
    <3> QED BY <1>1, <3>3, <3>4, <3>5, <3>6
  <2> QED BY <2>2, <2>3
<1>16. CASE \E d : OnWay(F, M, n, p, d) /\ IsRequest(d)
  <2>1. PICK d : OnWay(F, M, n, p, d) /\ IsRequest(d) BY <1>16
  <2>2. OnWay(F2, M2, n, p, d) BY <1>1, <1>2, <1>f, <2>1, OthersOnWay
  <2>3. Informed(ns2, F2, M2, n, p, g) BY <2>1, <2>2 DEF Informed
  <2> QED BY <2>3 DEF Aware, M2
<1>17. CASE (\E s \in ToSet(ns[p].scheduled) : Le(g, s.body.gen)) \/ ns[p].engine.feed = g
  <2>1. Informed(ns2, F2, M2, n, p, g) BY <1>3, <1>17 DEF Informed
  <2> QED BY <2>1 DEF Aware, M2
<1>18. CASE Quiet(ns, p, g) /\ Noted(ns, F, n, p, g)
  <2>1. v # NoView /\ v.pending = g /\ FeedsAre(F, p, n, g) BY <1>1, <1>18 DEF Noted
  <2>2. Quiet(ns2, p, g) /\ FeedsAre(F2, p, n, g) BY <1>3, <1>f, <1>18, <2>1 DEF Quiet, FeedsAre
  <2>3. ASSUME w # NoView, w.pending = g PROVE Aware(ns2, F2, M2, n, p, g)
    BY <1>1, <1>3, <2>2, <2>3 DEF Aware, Noted
  <2>4. CASE Taken(e, b, x)
    <3>1. b.gen \in Generation BY <1>1, <1>8, <2>4
    <3>2. CASE Le(g, b.gen) BY <1>6, <1>8, <2>4, <3>2 DEF Aware, M2
    <3>3. CASE ~Le(g, b.gen)
      <4>1. Lt(b.gen, v.pending) /\ v.pending # NoGen BY <2>1, <3>1, <3>3, NoGenAssumption, LtTotal DEF Le
      <4>2. w.pending = g BY <1>8, <2>1, <2>4, <4>1 DEF KeptPending
      <4> QED BY <1>8, <2>3, <2>4, <4>2 DEF M2
    <3> QED BY <3>2, <3>3
  <2>5. CASE Marked(e, b, x)
    <3>1. FeedFrame(f, p, n) BY <1>9, <2>5 DEF FeedFrame, Arrivals
    <3>2. b.gen = g BY <1>f, <2>1, <3>1 DEF FeedsAre
    <3> QED BY <1>9, <1>12, <1>13, <2>1, <2>3, <2>5, <3>2 DEF M2
  <2>6. CASE Ignored(e, b, x) \/ Served(e, b, x) BY <1>10, <1>11, <2>1, <2>3, <2>6 DEF M2
  <2>7. CASE Asked(e, b, x) BY <1>7, <2>7 DEF Aware, M2
  <2> QED BY <1>1, <2>4, <2>5, <2>6, <2>7
<1>19. CASE Informed(ns, F, M, n, p, g)
  <2>1. \/ v # NoView /\ Le(g, v.gen)
        \/ \E d : OnWay(F, M, p, n, d) /\ Whole(d) /\ Le(g, d.gen)
        \/ \E d : OnWay(F, M, n, p, d) /\ IsRequest(d)
        \/ \E s \in ToSet(ns[p].scheduled) : Le(g, s.body.gen)
        \/ ns[p].engine.feed = g
    BY <1>1, <1>19 DEF Informed
  <2> QED BY <1>14, <1>15, <1>16, <1>17, <2>1
<1> QED BY <1>18, <1>19 DEF Aware, M

\* The last announcement of p is heard by n, which has an entry to mark.
LEMMA FeedHeard ==
    ASSUME Typed, NEW h, NEW ns \in NodeMaps, NEW lv, Truthful(h, ns, lv),
           NEW f \in Arrivals, DataHolds(h, ns, lv, f.from, f.data),
           NEW e, NEW x, NEW ns2, Delivery(ns, f, e, x, ns2), NEW F2, NEW M2,
           NEW n, NEW p, n = f.to, p = f.from, ns[p] # Absent, ns[n].engine.views[p] # NoView,
           NEW g \in Generation, FeedFrame(f, p, n), f.data.gen = g, Quiet(ns, p, g), FeedsAre(F2, p, n, g)
    PROVE  Aware(ns2, F2, M2, n, p, g)
<1> DEFINE b == f.data
           v == e.views[p]
           w == x.views[p]
<1>0. b.type = "Feed" /\ ~IsSync(b) BY DEF FeedFrame, IsSync
<1>1. /\ n \in Node /\ p \in Node /\ n # p /\ ns[n] # Absent /\ ns[n].engine = e /\ ns2[n].engine = x
      /\ b.src = p /\ e \in Engines /\ SameOwner(ns, ns2, p)
      /\ Taken(e, b, x) \/ Ignored(e, b, x) \/ Asked(e, b, x) \/ Marked(e, b, x) \/ Served(e, b, x)
  BY <1>0, HeardFrom
<1>2. w = MarkStale(v, g) BY <1>0, <1>1 DEF Taken, Ignored, Asked, Marked, Served, Whole
<1>3. ns2[p].engine.feed = ns[p].engine.feed BY <1>1 DEF SameOwner
<1>5. v # NoView /\ v \in Entry /\ v.gen \in Generation BY <1>1, EntryNoLater
<1>6. w # NoView
  <2>1. ns2[n].engine.views[p] # NoView BY <1>0, EntryStays
  <2> QED BY <1>1, <2>1
<1>7. CASE Le(g, v.gen)
  <2>1. Le(g, w.gen) BY <1>2, <1>5, <1>7 DEF MarkStale
  <2>2. Informed(ns2, F2, M2, n, p, g) BY <1>1, <1>3, <1>6, <2>1 DEF Informed
  <2> QED BY <2>2 DEF Aware
<1>8. CASE ~Le(g, v.gen)
  <2>1. w.pending = g BY <1>2, <1>5, <1>8 DEF MarkStale, Entry
  <2>2. Quiet(ns2, p, g) BY <1>3 DEF Quiet
  <2>3. Noted(ns2, F2, n, p, g) BY <1>1, <1>3, <1>6, <2>1 DEF Noted
  <2> QED BY <2>2, <2>3 DEF Aware
<1> QED BY <1>7, <1>8

\* The last announcement of p among the frames of a tick is generation g.
LastFeed(frames, j, p, n, g) ==
    /\ FeedFrame(frames[j], p, n) /\ frames[j].data.gen = g
    /\ \A i \in 1 .. Len(frames) : i > j /\ FeedFrame(frames[i], p, n) => frames[i].data.gen = g

\* The announcement of p that n hears last, in this tick or later, is generation g.
LateFeed(frames, k, q, p, n, g) ==
    \/ Newest(q, p, n, g)
    \/ /\ FeedsAre(ToSet(q), p, n, g)
       /\ \E j \in 1 .. Len(frames) : j > k /\ LastFeed(frames, j, p, n, g)

\* n is aware of the latest of p, or about to hear of it, k frames into a tick.
PairHolds(ns, frames, k, q, M, n, p, g) ==
    \/ Aware(ns, FramesLeft(frames, k, ToSet(q)), M, n, p, g)
    \/ Quiet(ns, p, g) /\ LateFeed(frames, k, q, p, n, g)

\* What n hears of p in frame f is undamaged, and marks an entry if it is to.
HeardWell(ns, f, n, p) ==
    f.to = n /\ f.from = p =>
        /\ ~(IsSync(f.data) /\ IsHurt(f.data))
        /\ FeedFrame(f, p, n) => ns[n].engine.views[p] # NoView

NextFrame(frames, k, f) == k \in Nat /\ k + 1 <= Len(frames) /\ f = frames[k + 1]

PairGoesOn(acc, y, frames, k, q, n, p, g) ==
    /\ y.nodes[n] # Absent /\ SameOwner(acc.nodes, y.nodes, p)
    /\ acc.nodes[n].engine.views[p] # NoView => y.nodes[n].engine.views[p] # NoView
    /\ PairHolds(y.nodes, frames, k + 1, q, ToSet(y.out), n, p, g)

\* One delivery of a tick.
LEMMA OnePairHolds ==
    ASSUME Typed, NEW h, NEW lv, NEW acc, acc.nodes \in NodeMaps, acc.out \in Seq(Messages),
           Truthful(h, acc.nodes, lv),
           NEW frames \in Seq(Arrivals), NEW k, NEW f, NextFrame(frames, k, f),
           DataHolds(h, acc.nodes, lv, f.from, f.data), NEW y, y = Handle(acc, f), NEW q,
           NEW n \in Node, NEW p \in Node, n # p, acc.nodes[n] # Absent, acc.nodes[p] # Absent,
           HeardWell(acc.nodes, f, n, p),
           NEW g \in Generation, Le(g, acc.nodes[p].engine.gen), PairHolds(acc.nodes, frames, k, q, ToSet(acc.out), n, p, g)
    PROVE  PairGoesOn(acc, y, frames, k, q, n, p, g)
<1> USE DEF PairGoesOn
<1>k. k \in Nat /\ k + 1 <= Len(frames) /\ f = frames[k + 1] BY DEF NextFrame
<1>0. f \in Arrivals /\ k + 1 \in 1 .. Len(frames) /\ Len(frames) \in Nat BY <1>k
<1>1. /\ acc.nodes[f.to] = Absent => y = acc
      /\ acc.nodes[f.to] # Absent =>
            \E e, x : Delivery(acc.nodes, f, e, x, y.nodes) /\ Replied(e, f, acc.out, y.out)
  BY <1>0, OneDelivered
<1>2. PICK ns, ns2, out, out2 : ns = acc.nodes /\ ns2 = y.nodes /\ out = acc.out /\ out2 = y.out OBVIOUS
<1>3. ns \in NodeMaps /\ Truthful(h, ns, lv) /\ DataHolds(h, ns, lv, f.from, f.data) BY <1>2
<1>4. f.from \in Node /\ f.to \in Node /\ f.from # f.to BY <1>0, ArrivalTyped
<1>5. PICK F, F2 : F = FramesLeft(frames, k, ToSet(q)) /\ F2 = FramesLeft(frames, k + 1, ToSet(q)) OBVIOUS
<1>6. F \subseteq F2 \cup {f} BY <1>5, <1>k, OneLess
<1>7. F2 \subseteq F /\ f \in F /\ ToSet(q) \subseteq F2 BY <1>0, <1>5, <1>k DEF FramesLeft
<1>8. g \in Generation /\ Le(g, ns[p].engine.gen) BY <1>2
<1>9. ns[n] # Absent /\ ns[p] # Absent /\ (FeedFrame(f, p, n) => ns[n].engine.views[p] # NoView) BY <1>2 DEF HeardWell, FeedFrame
<1>10. Aware(ns, F, ToSet(out), n, p, g) \/ (Quiet(ns, p, g) /\ LateFeed(frames, k, q, p, n, g))
  BY <1>2, <1>5, <1>8 DEF PairHolds
\* A frame that is no announcement of p to n leaves the last one to come.
<1>11. ASSUME LateFeed(frames, k, q, p, n, g), ~FeedFrame(f, p, n) PROVE LateFeed(frames, k + 1, q, p, n, g)
  <2>1. CASE Newest(q, p, n, g) BY <2>1 DEF LateFeed
  <2>2. CASE /\ FeedsAre(ToSet(q), p, n, g)
             /\ \E j \in 1 .. Len(frames) : j > k /\ LastFeed(frames, j, p, n, g)
    <3>1. PICK j \in 1 .. Len(frames) : j > k /\ LastFeed(frames, j, p, n, g) BY <2>2
    <3>2. j # k + 1 BY <1>11, <1>k, <3>1 DEF LastFeed
    <3>3. j > k + 1 BY <1>k, <3>1, <3>2
    <3> QED BY <2>2, <3>1, <3>3 DEF LateFeed
  <2> QED BY <1>11, <2>1, <2>2 DEF LateFeed
<1>12. CASE ns[f.to] = Absent
  <2>1. ns2 = ns /\ out2 = out BY <1>1, <1>2, <1>12
  <2>2. f.to # n /\ f.to # p BY <1>9, <1>12
  <2>3. ~FeedFrame(f, p, n) BY <2>2 DEF FeedFrame
  <2>4. \A d : /\ OnWay(F, ToSet(out), p, n, d) => OnWay(F2, ToSet(out), p, n, d)
               /\ OnWay(F, ToSet(out), n, p, d) => OnWay(F2, ToSet(out), n, p, d)
    BY <1>6, <2>2, OthersOnWay
  <2>5. FeedsAre(F, p, n, g) => FeedsAre(F2, p, n, g) BY <1>7 DEF FeedsAre
  <2>6. Informed(ns, F, ToSet(out), n, p, g) => Informed(ns, F2, ToSet(out), n, p, g) BY <2>4 DEF Informed
  <2>7. Noted(ns, F, n, p, g) => Noted(ns, F2, n, p, g) BY <1>8, <2>5 DEF Noted
  <2>8. Aware(ns, F, ToSet(out), n, p, g) => Aware(ns, F2, ToSet(out), n, p, g) BY <2>6, <2>7 DEF Aware
  <2>9. PairHolds(ns, frames, k + 1, q, ToSet(out), n, p, g) BY <1>5, <1>8, <1>10, <1>11, <2>3, <2>8 DEF PairHolds
  <2>10. SameOwner(ns, ns2, p) BY <1>9, <2>1 DEF SameOwner
  <2> QED BY <1>2, <1>9, <2>1, <2>9, <2>10
<1>13. CASE ns[f.to] # Absent
  <2>1. PICK e, x : Delivery(ns, f, e, x, ns2) /\ Replied(e, f, out, out2) BY <1>1, <1>2, <1>13
  <2>2. SameOwner(ns, ns2, p) /\ SameOwner(ns, ns2, n) BY <1>0, <1>9, <2>1, OwnerKept
  <2>3. ns2[n] # Absent /\ SameOwner(ns, ns2, p) BY <2>2 DEF SameOwner
  <2>4. Quiet(ns, p, g) => Quiet(ns2, p, g) BY <2>2 DEF Quiet, SameOwner
  <2>5. ASSUME ~FeedFrame(f, p, n), Aware(ns, F, ToSet(out), n, p, g) => Aware(ns2, F2, ToSet(out2), n, p, g)
        PROVE  PairHolds(ns2, frames, k + 1, q, ToSet(out2), n, p, g)
    BY <1>5, <1>10, <1>11, <2>3, <2>4, <2>5 DEF PairHolds
  <2>6. CASE n # f.to \/ p # f.from
    <3>1. Aware(ns, F, ToSet(out), n, p, g) => Aware(ns2, F2, ToSet(out2), n, p, g)
      BY <1>0, <1>3, <1>6, <1>7, <1>8, <1>9, <2>1, <2>6, DeliveryElsewhereAware
    <3>2. ~FeedFrame(f, p, n) BY <2>6 DEF FeedFrame
    <3>3. ns2[n].engine.views[p] = ns[n].engine.views[p]
      <4>1. CASE n = f.to BY <2>1, <2>6, <4>1 DEF Delivery, Undisturbed
      <4>2. CASE n # f.to BY <2>1, <4>2 DEF Delivery
      <4> QED BY <4>1, <4>2
    <3>4. PairHolds(ns2, frames, k + 1, q, ToSet(out2), n, p, g) BY <2>5, <3>1, <3>2
    <3> QED BY <1>2, <2>3, <3>3, <3>4
  <2>7. CASE n = f.to /\ p = f.from
    <3>0. ~(IsSync(f.data) /\ IsHurt(f.data)) BY <2>7 DEF HeardWell
    <3>1. Aware(ns, F, ToSet(out), n, p, g) => Aware(ns2, F2, ToSet(out2), n, p, g)
      <4>1. ASSUME Aware(ns, F, ToSet(out), n, p, g) PROVE Aware(ns2, F2, ToSet(out2), n, p, g)
        <5>1. Taking(F, f, F2) BY <1>6, <1>7 DEF Taking
        <5>2. n = f.to /\ p = f.from /\ ns[p] # Absent BY <1>9, <2>7
        <5> QED BY <1>0, <1>3, <2>1, <3>0, <4>1, <5>1, <5>2, DeliveryToAware
      <4> QED BY <4>1
    <3>2. ns[n].engine.views[p] # NoView => ns2[n].engine.views[p] # NoView
      BY <1>0, <1>3, <1>9, <2>1, <2>7, <3>0, EntryStays
    <3>3. CASE ~FeedFrame(f, p, n)
      <4>1. PairHolds(ns2, frames, k + 1, q, ToSet(out2), n, p, g) BY <2>5, <3>1, <3>3
      <4> QED BY <1>2, <2>3, <3>2, <4>1
    <3>4. CASE FeedFrame(f, p, n) /\ ~Aware(ns, F, ToSet(out), n, p, g)
      <4>1. Quiet(ns, p, g) /\ LateFeed(frames, k, q, p, n, g) BY <1>10, <3>4
      <4>2. CASE Newest(q, p, n, g)
        <5>1. PairHolds(ns2, frames, k + 1, q, ToSet(out2), n, p, g) BY <2>3, <2>4, <4>1, <4>2 DEF PairHolds, LateFeed
        <5> QED BY <1>2, <2>3, <3>2, <5>1
      <4>3. CASE /\ FeedsAre(ToSet(q), p, n, g)
                 /\ \E j \in 1 .. Len(frames) : j > k /\ LastFeed(frames, j, p, n, g)
        <5>1. PICK j \in 1 .. Len(frames) : j > k /\ LastFeed(frames, j, p, n, g) BY <4>3
        <5>2. CASE j > k + 1
          <6>1. LateFeed(frames, k + 1, q, p, n, g) BY <4>3, <5>1, <5>2 DEF LateFeed
          <6>2. PairHolds(ns2, frames, k + 1, q, ToSet(out2), n, p, g) BY <2>3, <2>4, <4>1, <6>1 DEF PairHolds
          <6> QED BY <1>2, <2>3, <3>2, <6>2
        <5>3. CASE j = k + 1
          <6>1. f.data.gen = g BY <1>k, <5>1, <5>3 DEF LastFeed
          <6>2. FeedsAre(F2, p, n, g) BY <1>5, <1>k, <4>3, <5>1, <5>3 DEF LastFeed, FeedsAre, FramesLeft
          <6>3. Aware(ns2, F2, ToSet(out2), n, p, g)
            BY <1>0, <1>3, <1>8, <1>9, <2>1, <2>7, <3>4, <4>1, <6>1, <6>2, FeedHeard
          <6>4. PairHolds(ns2, frames, k + 1, q, ToSet(out2), n, p, g) BY <1>5, <6>3 DEF PairHolds
          <6> QED BY <1>2, <2>3, <3>2, <6>4
        <5> QED BY <1>k, <5>1, <5>2, <5>3
      <4> QED BY <4>1, <4>2, <4>3 DEF LateFeed
    <3>5. CASE Aware(ns, F, ToSet(out), n, p, g)
      <4>1. PairHolds(ns2, frames, k + 1, q, ToSet(out2), n, p, g) BY <1>5, <3>1, <3>5 DEF PairHolds
      <4> QED BY <1>2, <2>3, <3>2, <4>1
    <3> QED BY <3>3, <3>4, <3>5
  <2> QED BY <2>6, <2>7
<1> QED BY <1>12, <1>13

\* n is aware of g, or the announcement it hears last is of it.
Current(ns, q, M, n, p, g) ==
    \/ Aware(ns, ToSet(q), M, n, p, g)
    \/ Quiet(ns, p, g) /\ Newest(q, p, n, g)

\* The deliveries of a tick.
LEMMA RunPair ==
    ASSUME Typed, NEW h, NEW ns \in NodeMaps, NEW lv, NEW frames \in Seq(Arrivals),
           FramesHold(h, ns, lv, ToSet(frames)),
           NEW base, base = [nodes |-> ns, out |-> <<>>], NEW run, HandleRun(base, frames, run),
           \A k \in 0 .. Len(frames) : Running(h, ns, lv, frames, run[k]),
           NEW q, NEW n \in Node, NEW p \in Node, n # p, ns[n] # Absent, ns[p] # Absent,
           \A f \in ToSet(frames) : HeardWell(ns, f, n, p),
           NEW g \in Generation, Le(g, ns[p].engine.gen), PairHolds(ns, frames, 0, q, {}, n, p, g)
    PROVE  /\ Current(run[Len(frames)].nodes, q, ToSet(run[Len(frames)].out), n, p, g)
           /\ SameOwner(ns, run[Len(frames)].nodes, p)
<1>b. base.nodes = ns /\ base.out = <<>> OBVIOUS
<1>0. /\ Len(frames) \in Nat /\ \A k \in 1 .. Len(frames) : frames[k] \in ToSet(frames) /\ frames[k] \in Arrivals
  BY DEF ToSet
<1>1. /\ run[0] = base
      /\ \A k \in 1 .. Len(frames) : run[k] = Handle(run[k - 1], frames[k])
  BY DEF HandleRun
<1> DEFINE P(k) == /\ run[k].nodes[n] # Absent /\ SameOwner(ns, run[k].nodes, p)
                   /\ ns[n].engine.views[p] # NoView => run[k].nodes[n].engine.views[p] # NoView
                   /\ PairHolds(run[k].nodes, frames, k, q, ToSet(run[k].out), n, p, g)
           S == {k \in Nat : k <= Len(frames) => P(k)}
<1>2. 0 \in S
  <2>1. run[0].nodes = ns /\ ToSet(run[0].out) = {} BY <1>1, <1>b, EmptyList
  <2>2. P(0) BY <2>1 DEF SameOwner
  <2> QED BY <2>2
<1>3. ASSUME NEW k \in S PROVE k + 1 \in S
  <2> SUFFICES ASSUME k + 1 <= Len(frames) PROVE P(k + 1) OBVIOUS
  <2>1. k \in Nat /\ k + 1 \in 1 .. Len(frames) /\ (k + 1) - 1 = k /\ k \in 0 .. Len(frames) /\ P(k) BY <1>0
  <2>2. PICK f, acc, y : f = frames[k + 1] /\ acc = run[k] /\ y = run[k + 1] OBVIOUS
  <2>3. y = Handle(acc, f) /\ f \in ToSet(frames) /\ f \in Arrivals BY <1>0, <1>1, <2>1, <2>2
  <2>4. Running(h, ns, lv, frames, acc) BY <2>1, <2>2
  <2>5. /\ acc.nodes \in NodeMaps /\ acc.out \in Seq(Messages) /\ Truthful(h, acc.nodes, lv)
        /\ SameReach(ns, lv, acc.nodes)
    BY <2>4 DEF Running, Handled
  <2>6. DataHolds(h, acc.nodes, lv, f.from, f.data)
    <3>1. f.from \in Node BY <2>3, ArrivalTyped
    <3>2. DataHolds(h, ns, lv, f.from, f.data) BY <2>3 DEF FramesHold
    <3> QED BY <2>5, <3>1, <3>2, FramesReached
  <2>7. /\ acc.nodes[n] # Absent /\ SameOwner(ns, acc.nodes, p)
        /\ ns[n].engine.views[p] # NoView => acc.nodes[n].engine.views[p] # NoView
        /\ PairHolds(acc.nodes, frames, k, q, ToSet(acc.out), n, p, g)
    BY <2>1, <2>2
  <2>8. HeardWell(acc.nodes, f, n, p) BY <2>3, <2>7 DEF HeardWell
  <2>9. NextFrame(frames, k, f) BY <2>1, <2>2 DEF NextFrame
  <2>a. acc.nodes[p] # Absent /\ Le(g, acc.nodes[p].engine.gen) BY <2>7 DEF SameOwner
  <2>o. PairGoesOn(acc, y, frames, k, q, n, p, g)
    BY <2>3, <2>5, <2>6, <2>7, <2>8, <2>9, <2>a, OnePairHolds
  <2>10. /\ y.nodes[n] # Absent /\ SameOwner(acc.nodes, y.nodes, p)
         /\ acc.nodes[n].engine.views[p] # NoView => y.nodes[n].engine.views[p] # NoView
         /\ PairHolds(y.nodes, frames, k + 1, q, ToSet(y.out), n, p, g)
    BY <2>o DEF PairGoesOn
  <2>11. SameOwner(ns, y.nodes, p) BY <2>7, <2>10 DEF SameOwner
  <2> QED BY <2>2, <2>7, <2>10, <2>11
<1>4. S \in SUBSET Nat OBVIOUS
<1>5. \A k \in Nat : k \in S
  <2> HIDE DEF S
  <2> QED BY <1>2, <1>3, <1>4, SetInduction
<1>6. P(Len(frames)) BY <1>0, <1>5
<1>7. PICK z : z = run[Len(frames)] OBVIOUS
<1>8. PairHolds(z.nodes, frames, Len(frames), q, ToSet(z.out), n, p, g) BY <1>6, <1>7
<1>9. FramesLeft(frames, Len(frames), ToSet(q)) = ToSet(q) BY NoneLeft
<1>10. ASSUME LateFeed(frames, Len(frames), q, p, n, g) PROVE Newest(q, p, n, g)
  <2>1. \A j \in 1 .. Len(frames) : ~(j > Len(frames)) BY <1>0
  <2> QED BY <1>10, <2>1 DEF LateFeed
<1>11. Current(z.nodes, q, ToSet(z.out), n, p, g) BY <1>8, <1>9, <1>10 DEF PairHolds, Current
<1> QED BY <1>6, <1>7, <1>11

\* A tick begins: what is due is handed over, the rest waits on.
LEMMA TickBegins ==
    ASSUME NEW q \in Seq(Frames), NEW frames, frames = Delivered(q), NEW ns, NEW n, NEW p, NEW g,
           Current(ns, q, {}, n, p, g)
    PROVE  PairHolds(ns, frames, 0, StillWaiting(q), {}, n, p, g)
<1> DEFINE D == {f \in ToSet(q) : IsDue(f) /\ f.data # Garbage}
           U == {f \in ToSet(q) : ~IsDue(f)}
<1>0. frames = Only(q, D) /\ StillWaiting(q) = Only(q, U) BY DEF Delivered, StillWaiting
<1> HIDE DEF D, U
<1>1. PICK rest : rest = StillWaiting(q) OBVIOUS
<1>2. /\ frames \in Seq(Frames) /\ ToSet(frames) = {f \in ToSet(q) : f \in D}
      /\ rest \in Seq(Frames) /\ ToSet(rest) = {f \in ToSet(q) : f \in U}
  BY <1>0, <1>1, OnlyOf
<1>3. \A f \in ToSet(q) : f.due \in Nat /\ (IsDue(f) <=> f.due = 0)
  <2>1. \A f \in ToSet(q) : f \in Frames BY DEF ToSet
  <2>2. \A f \in ToSet(q) : f.due \in Nat BY <2>1 DEF Frames
  <2> QED BY <2>2 DEF IsDue
<1>4. \A f \in ToSet(q) : f.data # Garbage => f \in ToSet(frames) \cup ToSet(rest) BY <1>2 DEF D, U
<1>5. ToSet(frames) \cup ToSet(rest) \subseteq ToSet(q) BY <1>2
<1>6. FramesLeft(frames, 0, ToSet(rest)) = ToSet(frames) \cup ToSet(rest) BY <1>2, NoneLeft
<1>7. PICK F : F = FramesLeft(frames, 0, ToSet(rest)) OBVIOUS
<1>8. F \subseteq ToSet(q) /\ \A f \in ToSet(q) : f.data # Garbage => f \in F BY <1>4, <1>5, <1>6, <1>7
<1>9. CASE Aware(ns, ToSet(q), {}, n, p, g)
  <2>1. \A a, b, d : d # Garbage /\ OnWay(ToSet(q), {}, a, b, d) => OnWay(F, {}, a, b, d) BY <1>8 DEF OnWay
  <2>2. Informed(ns, ToSet(q), {}, n, p, g) => Informed(ns, F, {}, n, p, g)
    BY <2>1 DEF Informed, Whole, IsSync, IsRequest
  <2>3. Noted(ns, ToSet(q), n, p, g) => Noted(ns, F, n, p, g) BY <1>8 DEF Noted, FeedsAre
  <2>4. Aware(ns, F, {}, n, p, g) BY <1>9, <2>2, <2>3 DEF Aware
  <2> QED BY <1>1, <1>7, <2>4 DEF PairHolds
<1>10. CASE Quiet(ns, p, g) /\ Newest(q, p, n, g)
  <2>2. PICK j \in DOMAIN q : Latest(q, j, p, n, g) BY <1>10 DEF Newest
  <2>3. q[j] \in ToSet(q) /\ FeedFrame(q[j], p, n) /\ q[j].data.gen = g BY <2>2 DEF Latest, FeedAt, FeedFrame, ToSet
  <2>4. CASE q[j].due # 0
    <3>1. q[j] \in U BY <1>3, <2>3, <2>4 DEF U
    <3>2. Newest(rest, p, n, g) BY <1>0, <1>1, <2>2, <3>1, NewestKept
    <3> QED BY <1>1, <1>10, <3>2 DEF PairHolds, LateFeed
  <2>5. CASE q[j].due = 0
    <3>1. FeedsAre(ToSet(rest), p, n, g)
      <4> SUFFICES ASSUME NEW f \in ToSet(rest), FeedFrame(f, p, n), f.data.gen # g PROVE FALSE BY DEF FeedsAre
      <4>1. f \in ToSet(q) /\ ~IsDue(f) BY <1>2 DEF U
      <4>2. PICK i \in DOMAIN q : f = q[i] BY <4>1 DEF ToSet
      <4>3. ArrivesBefore(q, i, j) BY <2>2, <4>2 DEF Latest, FeedAt, FeedFrame
      <4>4. q[i].due \in Nat /\ q[i].due # 0 BY <1>3, <4>1, <4>2
      <4> QED BY <2>5, <4>3, <4>4 DEF ArrivesBefore
    <3>2. PICK at : Places(q, D, frames, at) BY <1>0, OnlyInOrder
    <3>3. q[j] \in D BY <1>3, <2>3, <2>5 DEF D, FeedFrame
    <3>4. PICK a \in DOMAIN frames : at[a] = j BY <3>2, <3>3 DEF Places
    <3>5. /\ \A i \in DOMAIN frames : at[i] \in DOMAIN q /\ q[at[i]] = frames[i]
          /\ \A i, m \in DOMAIN frames : i < m => at[i] < at[m]
      BY <3>2 DEF Places
    <3>6. DOMAIN frames = 1 .. Len(frames) /\ Len(frames) \in Nat BY <1>2
    <3>7. LastFeed(frames, a, p, n, g)
      <4>1. FeedFrame(frames[a], p, n) /\ frames[a].data.gen = g BY <2>3, <3>4, <3>5
      <4>2. ASSUME NEW i \in 1 .. Len(frames), i > a, FeedFrame(frames[i], p, n) PROVE frames[i].data.gen = g
        <5>1. i \in DOMAIN frames /\ at[i] \in DOMAIN q /\ q[at[i]] = frames[i] BY <3>5, <3>6
        <5>2. at[a] < at[i] /\ at[i] \in Nat /\ at[a] \in Nat BY <3>4, <3>5, <3>6, <4>2, <5>1
        <5>3. frames[i] \in D BY <1>2, <5>1 DEF ToSet
        <5>4. q[at[i]] \in ToSet(q) /\ IsDue(q[at[i]]) BY <5>1, <5>3 DEF D
        <5>5. q[at[i]].due = 0 BY <1>3, <5>4
        <5>6. ~ArrivesBefore(q, at[i], j) BY <2>5, <3>4, <5>2, <5>5 DEF ArrivesBefore
        <5> QED BY <2>2, <4>2, <5>1, <5>6 DEF Latest, FeedAt, FeedFrame
      <4> QED BY <4>1, <4>2 DEF LastFeed
    <3>8. LateFeed(frames, 0, rest, p, n, g) BY <3>1, <3>6, <3>7 DEF LateFeed
    <3> QED BY <1>1, <1>10, <3>8 DEF PairHolds
  <2> QED BY <2>4, <2>5
<1> QED BY <1>9, <1>10 DEF Current

-----------------------------------------------------------------------------
(* CurrentInv: timers and flushes.                                         *)

\* Every delayed send that is due goes to every other node.
LEMMA TimerGoesOut ==
    ASSUME DataTyped, NEW ns \in NodeMaps, NEW n \in Node, NEW p \in Node, n # p, ns[n] # Absent, ns[p] # Absent,
           NEW s \in ToSet(ns[p].scheduled), s.in = 0
    PROVE  Message(p, n, s.body) \in ToSet(AllTimers(ns))
<1> DEFINE S == {r \in ToSet(ns[p].scheduled) : r.in = 0}
           due == Only(ns[p].scheduled, S)
           lists == [k \in DOMAIN due |-> Broadcast(ns, p, due[k].body)]
<1>1. ns[p].scheduled \in Seq(Timed(p)) BY NodeTyped
<1>2. due \in Seq(Timed(p)) /\ ToSet(due) = ToSet(ns[p].scheduled) \cap S BY <1>1, OnlyOf
<1>3. Timers(ns, p) = FlattenSeq(lists) BY DEF Timers, ForEach
<1>4. s \in ToSet(due) BY <1>2
<1>5. DOMAIN due = 1 .. Len(due) /\ Len(due) \in Nat BY <1>2
<1>6. \A k \in DOMAIN due : due[k] \in Timed(p) BY <1>2
<1> HIDE DEF due
<1>7. ASSUME NEW k \in DOMAIN due
      PROVE  /\ Broadcast(ns, p, due[k].body) \in Seq(Messages)
             /\ Message(p, n, due[k].body) \in ToSet(Broadcast(ns, p, due[k].body))
  <2>1. PICK b : b = due[k].body OBVIOUS
  <2>2. b \in Bodies /\ b.src = p BY <1>6, <2>1 DEF Timed, Bodies
  <2>3. /\ Broadcast(ns, p, b) \in Seq(Messages)
        /\ \A m : m \in ToSet(Broadcast(ns, p, b)) <=> SentTo(ns, p, b, m)
    BY <2>2, BroadcastSent
  <2>4. SentTo(ns, p, b, Message(p, n, b)) BY DEF SentTo
  <2> QED BY <2>1, <2>3, <2>4
<1>8. lists \in Seq(Seq(Messages)) BY <1>5, <1>7
<1>9. DOMAIN lists = DOMAIN due /\ \A k \in DOMAIN due : lists[k] = Broadcast(ns, p, due[k].body) OBVIOUS
<1> HIDE DEF lists
<1>10. \A x : x \in ToSet(FlattenSeq(lists)) <=> \E i \in DOMAIN lists : x \in ToSet(lists[i])
  BY <1>8, Flattened
<1>11. PICK k \in DOMAIN due : s = due[k] BY <1>4 DEF ToSet
<1>12. Message(p, n, s.body) \in ToSet(Timers(ns, p)) BY <1>3, <1>7, <1>9, <1>10, <1>11
<1> DEFINE list == Present(ns)
           one == [j \in DOMAIN list |-> Timers(ns, list[j])]
<1>13. list \in Seq(Node) /\ ToSet(list) = {r \in Node : ns[r] # Absent} BY PresentNodes
<1>14. AllTimers(ns) = FlattenSeq(one) BY DEF AllTimers, ForEach
<1>15. DOMAIN list = 1 .. Len(list) /\ Len(list) \in Nat BY <1>13
<1>16. PICK j \in DOMAIN list : list[j] = p BY <1>13 DEF ToSet
<1>17. \A i \in DOMAIN list : list[i] \in Node /\ ns[list[i]] # Absent BY <1>13 DEF ToSet
<1> HIDE DEF list
<1>18. \A i \in DOMAIN list : Timers(ns, list[i]) \in Seq(Messages) BY <1>17, TimersSent
<1>19. one \in Seq(Seq(Messages)) BY <1>15, <1>18
<1>20. DOMAIN one = DOMAIN list /\ one[j] = Timers(ns, p) BY <1>16
<1> HIDE DEF one
<1>21. \A x : x \in ToSet(FlattenSeq(one)) <=> \E i \in DOMAIN one : x \in ToSet(one[i]) BY <1>19, Flattened
<1> QED BY <1>12, <1>14, <1>20, <1>21

\* A flush goes to every other node.
LEMMA FeedGoesOut ==
    ASSUME DataTyped, NEW ns \in NodeMaps, NEW n \in Node, NEW p \in Node, n # p, ns[n] # Absent, ns[p] # Absent,
           Flushes(ns, p)
    PROVE  Message(p, n, FeedBatch(ns[p].engine)) \in ToSet(AllFeeds(ns))
<1>1. PICK b : b = FeedBatch(ns[p].engine) OBVIOUS
<1>2. ns[p].engine \in Engines /\ ns[p].engine.id = p /\ ns[p].engine.feed # NoGen BY NodeTyped DEF Flushes
<1>3. b \in Bodies /\ b.src = p BY <1>1, <1>2, BodiesMade
<1>4. \A m : m \in ToSet(Broadcast(ns, p, b)) <=> SentTo(ns, p, b, m) BY <1>3, BroadcastSent
<1>5. SentTo(ns, p, b, Message(p, n, b)) BY DEF SentTo
<1>6. Message(p, n, b) \in ToSet(Feeds(ns, p)) BY <1>1, <1>4, <1>5 DEF Feeds
<1> DEFINE list == Present(ns)
           two == [j \in DOMAIN list |-> Feeds(ns, list[j])]
<1>13. list \in Seq(Node) /\ ToSet(list) = {r \in Node : ns[r] # Absent} BY PresentNodes
<1>14. AllFeeds(ns) = FlattenSeq(two) BY DEF AllFeeds, ForEach
<1>15. DOMAIN list = 1 .. Len(list) /\ Len(list) \in Nat BY <1>13
<1>16. PICK j \in DOMAIN list : list[j] = p BY <1>13 DEF ToSet
<1>17. \A i \in DOMAIN list : list[i] \in Node /\ ns[list[i]] # Absent BY <1>13 DEF ToSet
<1> HIDE DEF list
<1>18. \A i \in DOMAIN list : Feeds(ns, list[i]) \in Seq(Messages) BY <1>17, FeedsSent
<1>19. two \in Seq(Seq(Messages)) BY <1>15, <1>18
<1>20. DOMAIN two = DOMAIN list /\ two[j] = Feeds(ns, p) BY <1>16
<1> HIDE DEF two
<1>21. \A x : x \in ToSet(FlattenSeq(two)) <=> \E i \in DOMAIN two : x \in ToSet(two[i]) BY <1>19, Flattened
<1> QED BY <1>1, <1>6, <1>14, <1>20, <1>21

\* Frame f is an announcement of the list.
Announced(list, f, p, n) == \E m \in ToSet(list) : FeedMessage(m, p, n) /\ f.data = m.body

\* An announcement that joins the queue is one that was sent.
LEMMA AddedFeeds ==
    ASSUME NEW net \in Networks, NEW messages \in Seq(Messages), NEW x, Added(net, messages, x),
           NEW p, NEW n, NEW i \in DOMAIN x.queue, i > Len(net.queue), FeedAt(x.queue, i, p, n)
    PROVE  Announced(messages, x.queue[i], p, n)
<1>1. PICK m \in ToSet(messages) : Carries(x.queue[i], m) BY DEF Added
<1>2. PICK f : f = x.queue[i] OBVIOUS
<1>3. f.from = p /\ f.to = n /\ f.data # Garbage /\ f.data.type = "Feed" BY <1>2 DEF FeedAt
<1>4. m.from = p /\ m.to = n /\ f.data \in Readings(m.body) BY <1>1, <1>2, <1>3 DEF Carries
<1>5. f.data.type = m.body.type BY <1>3, <1>4 DEF Readings
<1>6. ~IsSync(m.body) BY <1>3, <1>5 DEF IsSync
<1>7. f.data = m.body BY <1>3, <1>4, <1>6 DEF Readings
<1> QED BY <1>2, <1>3, <1>4, <1>5, <1>7 DEF FeedMessage, Announced

\* The frames of a queue that goes on.
LEMMA ExtendedFeeds ==
    ASSUME NEW q \in Seq(Frames), NEW r \in Seq(Frames), Extends(q, r), NEW p, NEW n, NEW g,
           \A i \in DOMAIN r : i > Len(q) /\ FeedAt(r, i, p, n) => r[i].data.gen = g,
           FeedsAre(ToSet(q), p, n, g)
    PROVE  FeedsAre(ToSet(r), p, n, g)
<1> SUFFICES ASSUME NEW f \in ToSet(r), FeedFrame(f, p, n) PROVE f.data.gen = g BY DEF FeedsAre
<1>1. PICK i \in DOMAIN r : f = r[i] BY DEF ToSet
<1>2. FeedAt(r, i, p, n) BY <1>1 DEF FeedAt, FeedFrame
<1>3. CASE i > Len(q) BY <1>1, <1>2, <1>3
<1>4. CASE ~(i > Len(q))
  <2>1. i \in DOMAIN q /\ q[i] = f BY <1>1, <1>4 DEF Extends
  <2>2. f \in ToSet(q) BY <2>1 DEF ToSet
  <2> QED BY <2>2 DEF FeedsAre
<1> QED BY <1>3, <1>4

\* The list holds what the timers and flushes of a tick send, and no other
\* announcement.
TimersIn(ns, list) ==
    /\ ToSet(AllTimers(ns)) \subseteq ToSet(list) /\ ToSet(AllFeeds(ns)) \subseteq ToSet(list)
    /\ \A m \in ToSet(list) : m.body.type = "Feed" => FeedSends(ns, m)

\* The timers of a tick have run.
TimersDone(ns, ns2) ==
    \A n \in Node : ns2[n] = IF ns[n] = Absent THEN Absent ELSE AfterTimers(ns, n)

\* What a tick sends keeps n aware of g.
LEMMA SentCurrent ==
    ASSUME Typed, NEW h, NEW lv, NEW ns \in NodeMaps, Truthful(h, ns, lv), NEW ns2, TimersDone(ns, ns2),
           NEW net \in Networks, NEW list \in Seq(Messages), NEW x \in Networks,
           Added(net, list, x), Told(net, list, Len(list), x), ToldFeeds(list, Len(list), x),
           TimersIn(ns, list), NEW M, M \subseteq ToSet(list),
           NEW n \in Node, NEW p \in Node, n # p, ns[n] # Absent, ns[p] # Absent,
           <<n, p>> \notin x.excused, NEW g \in Generation, Current(ns, net.queue, M, n, p, g)
    PROVE  Current(ns2, x.queue, {}, n, p, g)
<1> DEFINE q == net.queue
           r == x.queue
<1>0. DataTyped /\ q \in Seq(Frames) /\ r \in Seq(Frames) /\ Extends(q, r) BY DEF Typed, Networks, Added
<1>1. ns2[n] = AfterTimers(ns, n) /\ ns2[p] = AfterTimers(ns, p) BY DEF TimersDone
<1>2. /\ ns2[n].engine.views[p] = ns[n].engine.views[p]
      /\ ns2[p].engine.feed = IF Flushes(ns, p) THEN NoGen ELSE ns[p].engine.feed
      /\ \A s \in ToSet(ns[p].scheduled) : s.in # 0 =>
            \E t \in ToSet(ns2[p].scheduled) : t.body = s.body /\ t.in = s.in - 1
  BY <1>1, TimersRun
<1>4. Quiet(ns, p, g) => Quiet(ns2, p, g) BY <1>2 DEF Quiet
<1>5. ASSUME NEW m \in ToSet(list), FeedMessage(m, p, n)
      PROVE  Flushes(ns, p) /\ m.body.gen = ns[p].engine.feed
  <2>1. FeedSends(ns, m) /\ m.from = p BY <1>5 DEF TimersIn, FeedMessage
  <2> QED BY <2>1 DEF FeedSends, FeedBatch
<1>6. ASSUME Quiet(ns, p, g), NEW i \in DOMAIN r, i > Len(q), FeedAt(r, i, p, n) PROVE r[i].data.gen = g
  <2>0. Announced(list, r[i], p, n) BY <1>6, AddedFeeds
  <2>1. PICK m \in ToSet(list) : FeedMessage(m, p, n) /\ r[i].data = m.body BY <2>0 DEF Announced
  <2>2. Flushes(ns, p) /\ m.body.gen = ns[p].engine.feed BY <1>5, <2>1
  <2>3. ns[p].engine.feed = g BY <1>6, <2>2 DEF Quiet, Flushes
  <2> QED BY <2>1, <2>2, <2>3
<1> HIDE DEF q, r
<1>7. ASSUME Informed(ns2, ToSet(r), {}, n, p, g) PROVE Current(ns2, r, {}, n, p, g) BY <1>7 DEF Current, Aware
<1>8. CASE ns[n].engine.views[p] # NoView /\ Le(g, ns[n].engine.views[p].gen)
  BY <1>2, <1>7, <1>8 DEF Informed, r
<1>9. CASE \E d : OnWay(ToSet(q), M, p, n, d) /\ Whole(d) /\ Le(g, d.gen)
  <2>1. PICK d : OnWay(ToSet(q), M, p, n, d) /\ Whole(d) /\ Le(g, d.gen) BY <1>9
  <2>2. OnWay(ToSet(r), {}, p, n, d) BY <2>1, ToldOnWay DEF Whole, IsSync, q, r
  <2> QED BY <1>2, <1>7, <2>1, <2>2 DEF Informed, r
<1>10. CASE \E d : OnWay(ToSet(q), M, n, p, d) /\ IsRequest(d)
  <2>1. PICK d : OnWay(ToSet(q), M, n, p, d) /\ IsRequest(d) BY <1>10
  <2>2. OnWay(ToSet(r), {}, n, p, d) BY <2>1, ToldOnWay DEF IsRequest, q, r
  <2> QED BY <1>7, <2>1, <2>2 DEF Informed, r
<1>11. CASE \E s \in ToSet(ns[p].scheduled) : Le(g, s.body.gen)
  <2>1. PICK s \in ToSet(ns[p].scheduled) : Le(g, s.body.gen) BY <1>11
  <2>2. CASE s.in # 0
    <3>1. PICK t \in ToSet(ns2[p].scheduled) : t.body = s.body BY <1>2, <2>2
    <3> QED BY <1>2, <1>7, <2>1, <3>1 DEF Informed, r
  <2>3. CASE s.in = 0
    <3>1. Message(p, n, s.body) \in ToSet(list) BY <1>0, <2>3, TimerGoesOut DEF TimersIn
    <3>2. PICK m, d : m = Message(p, n, s.body) /\ d = s.body OBVIOUS
    <3>3. OnWay(ToSet(q), ToSet(list), p, n, d) BY <3>1, <3>2 DEF OnWay, Message
    <3>4. ns[p].scheduled \in Seq(Timed(p)) BY NodeTyped
    <3>5. s \in Timed(p) BY <3>4 DEF ToSet
    <3>6. d \in Snapshots /\ d \in Bodies /\ d.type = "FullSnapshot" BY <3>2, <3>5 DEF Timed, Bodies, Snapshots
    <3>7. DataHolds(h, ns, lv, p, d) /\ ~IsHurt(d) BY <3>2 DEF Truthful, NodeHolds
    <3>8. d # Garbage BY <3>6 DEF Typed, GarbageIsNoBody
    <3>9. IsSync(d) BY <3>6, <3>8 DEF IsSync
    <3>10. Whole(d) BY <3>7, <3>8, <3>9 DEF Whole, DataHolds, IsHurt
    <3>11. OnWay(ToSet(r), {}, p, n, d) BY <3>3, <3>6, ToldOnWay DEF q, r
    <3> QED BY <1>2, <1>7, <2>1, <3>2, <3>10, <3>11 DEF Informed, r
  <2> QED BY <2>2, <2>3
<1>12. CASE ns[p].engine.feed = g
  <2>1. CASE ~Flushes(ns, p) BY <1>2, <1>7, <1>12, <2>1 DEF Informed, r
  <2>2. CASE Flushes(ns, p)
    <3>1. PICK m : m = Message(p, n, FeedBatch(ns[p].engine)) OBVIOUS
    <3>2. m \in ToSet(list) BY <1>0, <2>2, <3>1, FeedGoesOut DEF TimersIn
    <3>3. FeedMessage(m, p, n) BY <3>1 DEF FeedMessage, Message, FeedBatch
    <3>4. PICK j \in 1 .. Len(list) : m = list[j] BY <3>2 DEF ToSet
    <3>5. \A c \in ToSet(list) : FeedMessage(c, p, n) => c.body.gen = g BY <1>5, <1>12
    <3>6. Newest(r, p, n, g) BY <3>3, <3>4, <3>5 DEF ToldFeeds, r
    <3>7. Quiet(ns2, p, g) BY <1>2, <2>2 DEF Quiet
    <3> QED BY <1>2, <3>6, <3>7 DEF Current, r
  <2> QED BY <2>1, <2>2
<1>13. CASE Quiet(ns, p, g) /\ Noted(ns, ToSet(q), n, p, g)
  <2>1. FeedsAre(ToSet(q), p, n, g) BY <1>13 DEF Noted
  <2>2. FeedsAre(ToSet(r), p, n, g) BY <1>0, <1>6, <1>13, <2>1, ExtendedFeeds
  <2>3. Noted(ns2, ToSet(r), n, p, g) BY <1>2, <1>13, <2>2 DEF Noted
  <2> QED BY <1>4, <1>13, <2>3 DEF Current, Aware, r
<1>14. CASE Quiet(ns, p, g) /\ Newest(q, p, n, g)
  <2>1. Newest(r, p, n, g) BY <1>0, <1>6, <1>14, NewestStays
  <2> QED BY <1>2, <1>4, <1>14, <2>1 DEF Current, r
<1>15. CASE Informed(ns, ToSet(q), M, n, p, g)
  <2>1. \/ ns[n].engine.views[p] # NoView /\ Le(g, ns[n].engine.views[p].gen)
        \/ \E d : OnWay(ToSet(q), M, p, n, d) /\ Whole(d) /\ Le(g, d.gen)
        \/ \E d : OnWay(ToSet(q), M, n, p, d) /\ IsRequest(d)
        \/ \E s \in ToSet(ns[p].scheduled) : Le(g, s.body.gen)
        \/ ns[p].engine.feed = g
    BY <1>15 DEF Informed
  <2> QED BY <1>8, <1>9, <1>10, <1>11, <1>12, <2>1
<1> QED BY <1>13, <1>14, <1>15 DEF Current, Aware, q

\* The clock moves on.
LEMMA CurrentAdvanced ==
    ASSUME NEW q \in Seq(Frames), \A f \in ToSet(q) : f.due >= 1, NEW ns, NEW n, NEW p, NEW g,
           Current(ns, q, {}, n, p, g)
    PROVE  Current(ns, AdvanceTick(q), {}, n, p, g)
<1>1. PICK r : r = AdvanceTick(q) OBVIOUS
<1>2. \A a, b, d : OnWay(ToSet(q), {}, a, b, d) => OnWay(ToSet(r), {}, a, b, d) BY <1>1, AdvancedOnWay
<1>3. \A f \in ToSet(r) : \E c \in ToSet(q) : f.from = c.from /\ f.to = c.to /\ f.data = c.data
  BY <1>1, QueueAdvanced
<1>4. FeedsAre(ToSet(q), p, n, g) => FeedsAre(ToSet(r), p, n, g) BY <1>3 DEF FeedsAre, FeedFrame
<1>5. Newest(q, p, n, g) => Newest(r, p, n, g) BY <1>1, NewestAdvanced
<1>6. Informed(ns, ToSet(q), {}, n, p, g) => Informed(ns, ToSet(r), {}, n, p, g) BY <1>2 DEF Informed
<1>7. Noted(ns, ToSet(q), n, p, g) => Noted(ns, ToSet(r), n, p, g) BY <1>4 DEF Noted
<1> QED BY <1>1, <1>5, <1>6, <1>7 DEF Current, Aware

\* What p has to send, and what n holds of it, are as they were.
SamePair(ns, ns2, n, p) ==
    /\ ns2[p].engine.feed = ns[p].engine.feed /\ ns2[p].scheduled = ns[p].scheduled
    /\ ns2[n].engine.views[p] = ns[n].engine.views[p]

\* Another call of the test, which concerns neither n nor p: the queue goes on,
\* without announcements of p to n.
LEMMA CurrentStays ==
    ASSUME NEW q \in Seq(Frames), NEW r \in Seq(Frames), Extends(q, r), NEW ns, NEW ns2,
           NEW n \in Node, NEW p \in Node, \A i \in DOMAIN r : i > Len(q) => ~FeedAt(r, i, p, n),
           SamePair(ns, ns2, n, p), NEW g, Current(ns, q, {}, n, p, g)
    PROVE  Current(ns2, r, {}, n, p, g)
<1>1. ToSet(q) \subseteq ToSet(r)
  <2>1. \A i \in DOMAIN q : i \in DOMAIN r /\ r[i] = q[i] BY DEF Extends
  <2> QED BY <2>1 DEF ToSet
<1>2. \A a, b, d : OnWay(ToSet(q), {}, a, b, d) => OnWay(ToSet(r), {}, a, b, d) BY <1>1 DEF OnWay
<1>4. FeedsAre(ToSet(q), p, n, g) => FeedsAre(ToSet(r), p, n, g) BY ExtendedFeeds
<1>5. Newest(q, p, n, g) => Newest(r, p, n, g) BY NewestStays
<1>6. Informed(ns, ToSet(q), {}, n, p, g) => Informed(ns2, ToSet(r), {}, n, p, g) BY <1>2 DEF Informed, SamePair
<1>7. Noted(ns, ToSet(q), n, p, g) => Noted(ns2, ToSet(r), n, p, g) BY <1>4 DEF Noted, SamePair
<1>8. Quiet(ns, p, g) => Quiet(ns2, p, g) BY DEF Quiet, SamePair
<1> QED BY <1>5, <1>6, <1>7, <1>8 DEF Current, Aware

\* Two views that place the node alike (find_lowest_memory_node).
Alike(v, w) == v.memUsed = w.memUsed

\* What a host holds back does not change the memory a node shows.
HeldBackKeepsMemory ==
    \A s \in State, c \in Change, u \in SyncUrgency :
        u \in UrgencyOf(s, c) /\ ResolveAction(u) \in {"Suppress", "ScheduleDelayed"} =>
            Alike(Project(ApplyChange(s, c)), Project(s))

\* p has reached g, and has shown the same memory since.
Kept(h, ns, lv, p, g) ==
    /\ Reached(ns, lv, p, g)
    /\ Lawful /\ HeldBackKeepsMemory =>
          \A k \in Generation : Le(g, k) /\ Le(k, ns[p].engine.gen) => Alike(h[p][k], h[p][ns[p].engine.gen])

\* What lies between a generation a node has reached and its latest it has reached.
LEMMA ReachedBetween ==
    ASSUME NEW h, NEW ns \in NodeMaps, NEW lv, Truthful(h, ns, lv), NEW p \in Node, ns[p] # Absent,
           NEW g, Reached(ns, lv, p, g), NEW k \in Generation, Le(g, k), Le(k, ns[p].engine.gen)
    PROVE  Reached(ns, lv, p, k)
<1>1. ns[p].engine.gen \in Generation BY NodeTyped DEF Engines, EngineRecords
<1>2. ns[p].engine.gen.inc = lv[p] /\ lv[p] \in Nat BY DEF Truthful, NodeHolds
<1>3. g \in Generation /\ g.inc >= 1 BY DEF Reached
<1>4. k.inc >= g.inc /\ k.inc <= ns[p].engine.gen.inc
  BY <1>1, <1>3 DEF Le, Lt, Generation
<1>5. g.inc \in Nat /\ k.inc \in Nat BY <1>3 DEF Generation
<1> QED BY <1>2, <1>3, <1>4, <1>5 DEF Reached

\* A node that stays as it is has shown the same since.
LEMMA KeptOn ==
    ASSUME NEW h, NEW ns \in NodeMaps, NEW lv, Truthful(h, ns, lv),
           NEW h2, NEW ns2, NEW lv2, Onward(h, ns, lv, h2, ns2, lv2),
           NEW p \in Node, ns[p] # Absent, ns2[p].engine.gen = ns[p].engine.gen,
           NEW g, Kept(h, ns, lv, p, g)
    PROVE  Kept(h2, ns2, lv2, p, g)
<1>1. PICK top : top = ns[p].engine.gen OBVIOUS
<1>2. Reached(ns, lv, p, g) /\ g \in Generation /\ Le(g, top) BY <1>1 DEF Kept, Reached
<1>3. top \in Generation BY <1>1, NodeTyped DEF Engines, EngineRecords
<1>4. Reached(ns2, lv2, p, g) BY <1>2 DEF Onward
<1>5. ASSUME Lawful, HeldBackKeepsMemory, NEW k \in Generation, Le(g, k), Le(k, top)
      PROVE  Alike(h2[p][k], h2[p][top])
  <2>1. Alike(h[p][k], h[p][top]) BY <1>1, <1>5 DEF Kept
  <2>2. Reached(ns, lv, p, k) BY <1>1, <1>2, <1>5, ReachedBetween
  <2>3. Reached(ns, lv, p, top)
    <3>1. Le(top, top) BY DEF Le
    <3> QED BY <1>1, <1>2, <1>3, <3>1, ReachedBetween
  <2>4. h2[p][k] = h[p][k] /\ h2[p][top] = h[p][top] BY <1>3, <1>5, <2>2, <2>3 DEF Onward
  <2> QED BY <2>1, <2>4
<1> QED BY <1>1, <1>4, <1>5 DEF Kept

\* The generation a node is at.
LEMMA KeptNow ==
    ASSUME NEW h, NEW ns \in NodeMaps, NEW lv, Truthful(h, ns, lv), NEW p \in Node, ns[p] # Absent
    PROVE  /\ ns[p].engine.gen \in Generation /\ Reached(ns, lv, p, ns[p].engine.gen)
           /\ Kept(h, ns, lv, p, ns[p].engine.gen)
<1>1. PICK top : top = ns[p].engine.gen OBVIOUS
<1>2. top \in Generation BY <1>1, NodeTyped DEF Engines, EngineRecords
<1>3. top.inc = lv[p] /\ lv[p] \in Nat /\ lv[p] >= 1 BY <1>1 DEF Truthful, NodeHolds
<1>4. Reached(ns, lv, p, top) BY <1>1, <1>2, <1>3 DEF Reached, Le
<1>5. \A k \in Generation : Le(top, k) /\ Le(k, top) => k = top BY <1>2, LeBothWays
<1> QED BY <1>1, <1>2, <1>4, <1>5 DEF Kept, Alike

\* n is aware of a generation of p, or about to hear of it, that is the latest
\* unless what came since was held back, and since which p showed no other memory.
Follows(h, ns, lv, q, W, n, p) ==
    \E g \in Generation : /\ Kept(h, ns, lv, p, g) /\ (p \notin W => g = ns[p].engine.gen)
                          /\ Current(ns, q, {}, n, p, g)

\* Every node follows every other, but for what it may have missed.
CurrentHolds(h, ns, lv, q, X, W) ==
    \A n, p \in Node :
        n # p /\ ns[n] # Absent /\ ns[p] # Absent /\ <<n, p>> \notin X => Follows(h, ns, lv, q, W, n, p)

CurrentOf(h) == CurrentHolds(h, nodes, lives, in_flight, excused, withheld)

CurrentInv == (\E h : BaseHolds(h) /\ CurrentOf(h)) /\ Sound(Network)

\* A step, with what explains the states before and after it.
Explained(h, h2) ==
    /\ BaseHolds(h) /\ CurrentOf(h) /\ Sound(Network)
    /\ TypeInv' /\ BaseHolds(h2)' /\ Onward(h, nodes, lives, h2, nodes', lives')

\* n stays aware of whatever it was of p.
Carried(ns, q, ns2, r, n, p) ==
    \A g \in Generation : Le(g, ns[p].engine.gen) /\ Current(ns, q, {}, n, p, g) => Current(ns2, r, {}, n, p, g)

\* A pair of nodes of which a step changes neither what the one shows nor how much
\* of it the other knows.
LEMMA PairStays ==
    ASSUME NEW h, NEW ns \in NodeMaps, NEW lv, Truthful(h, ns, lv),
           NEW h2, NEW ns2, NEW lv2, Onward(h, ns, lv, h2, ns2, lv2),
           NEW q, NEW r, NEW W, NEW n, NEW p \in Node, ns[p] # Absent, Follows(h, ns, lv, q, W, n, p),
           ns2[p].engine.gen = ns[p].engine.gen, Carried(ns, q, ns2, r, n, p)
    PROVE  Follows(h2, ns2, lv2, r, W, n, p)
<1>1. PICK g \in Generation : /\ Kept(h, ns, lv, p, g) /\ (p \notin W => g = ns[p].engine.gen)
                              /\ Current(ns, q, {}, n, p, g)
  BY DEF Follows
<1>2. Kept(h2, ns2, lv2, p, g) BY <1>1, KeptOn
<1>3. Le(g, ns[p].engine.gen) BY <1>1 DEF Kept, Reached
<1> QED BY <1>1, <1>2, <1>3 DEF Carried, Follows

\* The sends of a tick.
LEMMA TickTimersIn ==
    ASSUME Typed, TypeInv, NEW acc, NEW net, TickTaken(acc, net), NEW list, list = TickSends(acc)
    PROVE  TimersIn(acc.nodes, list)
<1>1. ToSet(list) = ToSet(acc.out) \cup ToSet(AllTimers(acc.nodes)) \cup ToSet(AllFeeds(acc.nodes)) BY DEF TickTaken
<1>2. ASSUME NEW m \in ToSet(list), m.body.type = "Feed" PROVE FeedSends(acc.nodes, m)
  <2>1. \/ \E f \in ToSet(Delivered(in_flight)) : Answers(nodes, f, m)
        \/ TimerSends(acc.nodes, m)
        \/ FeedSends(acc.nodes, m)
    BY <1>2 DEF TickTaken
  <2> QED BY <1>2, <2>1 DEF Answers, TimerSends
<1> QED BY <1>1, <1>2 DEF TimersIn

\* A tick keeps CurrentInv.
LEMMA TickCurrent ==
    ASSUME Typed, TypeInv, NEW h, NEW h2, Explained(h, h2), Tick
    PROVE  CurrentOf(h2)'
<1>0. nodes \in NodeMaps /\ in_flight \in Seq(Frames) BY DEF TypeInv, NodesTyped, QueueTyped
<1>b. BaseHolds(h) /\ Sound(Network) BY DEF Explained
<1>1. PICK acc, net, run : TickRun(h, acc, net, run) BY <1>b, TickRuns
<1>2. TickTaken(acc, net) BY <1>1 DEF TickRun
<1>3. PICK ns, lv, frames, q, W, ms, ms2, list, X, w :
        /\ ns = nodes /\ lv = lives /\ frames = Delivered(in_flight) /\ q = in_flight
        /\ W = StillWaiting(in_flight) /\ ms = acc.nodes /\ ms2 = nodes' /\ list = TickSends(acc)
        /\ X = excused /\ w = Waiting
  OBVIOUS
<1>4. /\ w \in Networks /\ w.queue = W /\ w.excused = X \cup Unheard
      /\ list \in Seq(Messages) /\ ToSet(acc.out) \subseteq ToSet(list)
      /\ in_flight' = AdvanceTick(net.queue) /\ excused' = net.excused
      /\ \A f \in ToSet(net.queue) : f.due >= 1
      /\ TimersDone(ms, ms2)
      /\ ms \in NodeMaps /\ ms2 \in NodeMaps /\ Handled(ns, frames, acc)
  BY <1>2, <1>3 DEF TickTaken, Handled, TimersDone
<1>5. /\ frames \in Seq(Arrivals) /\ ToSet(frames) = {f \in ToSet(q) : f.due = 0 /\ f.data # Garbage}
  BY <1>0, <1>3, QueueParted
<1>6. /\ Added(w, list, net) /\ Told(w, list, Len(list), net) /\ ToldFeeds(list, Len(list), net)
  BY <1>2, <1>3, TickTold
<1>7. net \in Networks /\ w.excused \subseteq net.excused BY <1>6 DEF Added, Grown, Told
<1>8. TimersIn(ms, list) BY <1>2, <1>3, TickTimersIn
<1>9. Truthful(h, ms, lv) BY <1>1, <1>3, <1>b, TickMessages
<1>t. Truthful(h, ns, lv) /\ ns \in NodeMaps BY <1>0, <1>3, <1>b DEF BaseHolds
<1>10. FramesHold(h, ns, lv, ToSet(frames)) BY <1>3, <1>5, <1>b DEF BaseHolds, FramesHold
<1>11. PICK base : base = [nodes |-> ns, out |-> <<>>] OBVIOUS
<1>12. /\ HandleRun(base, frames, run) /\ acc = run[Len(frames)]
       /\ \A k \in 0 .. Len(frames) : Running(h, ns, lv, frames, run[k])
  BY <1>1, <1>3, <1>11 DEF TickRun
<1>13. withheld' = withheld BY DEF Tick
<1>c. /\ CurrentHolds(h, ns, lv, q, X, withheld) /\ Onward(h, ns, lv, h2, ms2, lives')
  BY <1>3 DEF Explained, CurrentOf
<1>14. ASSUME NEW n \in Node, NEW p \in Node, n # p, ms2[n] # Absent, ms2[p] # Absent, <<n, p>> \notin net.excused
       PROVE  Follows(h2, ms2, lives', AdvanceTick(net.queue), withheld, n, p)
  <2>1. ms[n] # Absent /\ ms[p] # Absent BY <1>4, <1>14 DEF TimersDone
  <2>2. ns[n] # Absent /\ ns[p] # Absent BY <1>3, <1>4, <2>1 DEF Handled
  <2>3. <<n, p>> \notin X /\ <<n, p>> \notin Unheard BY <1>4, <1>7, <1>14
  <2>6. ASSUME NEW f \in ToSet(frames) PROVE HeardWell(ns, f, n, p)
    <3>1. f \in ToSet(in_flight) BY <1>3, <1>5
    <3>2. IsSync(f.data) /\ IsHurt(f.data) => <<f.to, f.from>> \in X BY <1>3, <1>b, <3>1 DEF Sound, Network
    <3>3. ASSUME FeedFrame(f, p, n), ns[n].engine.views[p] = NoView PROVE <<n, p>> \in Unheard
      <4>1. /\ f \in ToSet(Delivered(in_flight)) /\ f.data.type = "Feed" /\ f.to = n /\ f.from = p
            /\ nodes[f.to] # Absent /\ nodes[f.to].engine.views[f.from] = NoView
        BY <1>3, <2>2, <3>3 DEF FeedFrame
      <4> QED BY <4>1 DEF Unheard
    <3> QED BY <2>3, <3>2, <3>3 DEF HeardWell
  <2>7. ASSUME NEW g \in Generation, Le(g, ns[p].engine.gen), Current(ns, q, {}, n, p, g)
        PROVE  Current(ms2, AdvanceTick(net.queue), {}, n, p, g) /\ SameOwner(ns, ms, p)
    <3>1. PairHolds(ns, frames, 0, W, {}, n, p, g) BY <1>0, <1>3, <2>7, TickBegins
    <3>2. /\ Current(run[Len(frames)].nodes, W, ToSet(run[Len(frames)].out), n, p, g)
          /\ SameOwner(ns, run[Len(frames)].nodes, p)
      BY <1>0, <1>3, <1>5, <1>10, <1>11, <1>12, <1>14, <2>2, <2>6, <2>7, <3>1, RunPair
    <3>3. Current(ms, w.queue, ToSet(acc.out), n, p, g) /\ SameOwner(ns, ms, p) BY <1>3, <1>4, <1>12, <3>2
    <3>4. Current(ms2, net.queue, {}, n, p, g)
      BY <1>4, <1>6, <1>7, <1>8, <1>9, <1>14, <2>1, <2>7, <3>3, SentCurrent
    <3> QED BY <1>4, <1>7, <3>3, <3>4, CurrentAdvanced DEF Networks
  <2>8. ms2[p].engine.gen = ns[p].engine.gen
    <3>1. PICK g \in Generation : Kept(h, ns, lv, p, g) /\ Current(ns, q, {}, n, p, g)
      BY <1>14, <1>c, <2>2, <2>3 DEF CurrentHolds, Follows
    <3>2. SameOwner(ns, ms, p) BY <2>2, <2>7, <3>1 DEF Kept, Reached
    <3>3. ms2[p] = AfterTimers(ms, p) BY <1>4, <2>1 DEF TimersDone
    <3>4. AfterTimers(ms, p).engine.gen = ms[p].engine.gen BY <1>4, <2>1, TimersRun
    <3> QED BY <3>2, <3>3, <3>4 DEF SameOwner
  <2>9. PICK lv2, r, Y : lv2 = lives' /\ r = AdvanceTick(net.queue) /\ Y = withheld OBVIOUS
  <2>10. Follows(h, ns, lv, q, Y, n, p) /\ Onward(h, ns, lv, h2, ms2, lv2)
    BY <1>14, <1>c, <2>2, <2>3, <2>9 DEF CurrentHolds
  <2>11. Carried(ns, q, ms2, r, n, p) BY <2>7, <2>9 DEF Carried
  <2>12. Follows(h2, ms2, lv2, r, Y, n, p) BY <1>t, <2>2, <2>8, <2>10, <2>11, PairStays
  <2> QED BY <2>9, <2>12
<1>15. CurrentHolds(h2, ms2, lives', AdvanceTick(net.queue), net.excused, withheld) BY <1>14 DEF CurrentHolds
<1> QED BY <1>3, <1>4, <1>13, <1>15 DEF CurrentOf

-----------------------------------------------------------------------------
(* CurrentInv: the other calls of a test.                                  *)

\* No announcement is sent, and none joins the queue.
NoFeeds(list) == \A m \in ToSet(list) : m.body.type # "Feed"

NoneAfter(q, r, p, n) == \A i \in DOMAIN r : i > Len(q) => ~FeedAt(r, i, p, n)

\* Where no announcement is sent none joins the queue.
LEMMA NoNewFeeds ==
    ASSUME NEW net \in Networks, NEW list \in Seq(Messages), NoFeeds(list), NEW x, Added(net, list, x),
           NEW p, NEW n
    PROVE  NoneAfter(net.queue, x.queue, p, n)
<1> SUFFICES ASSUME NEW i \in DOMAIN x.queue, i > Len(net.queue), FeedAt(x.queue, i, p, n) PROVE FALSE
  BY DEF NoneAfter
<1>1. Announced(list, x.queue[i], p, n) BY AddedFeeds
<1> QED BY <1>1 DEF Announced, FeedMessage, NoFeeds

\* What a call makes of the queue when it announces nothing.
Longer(q, r) ==
    /\ q \in Seq(Frames) /\ r \in Seq(Frames) /\ Extends(q, r)
    /\ \A p, n \in Node : NoneAfter(q, r, p, n)

\* The queue after such a call.
LEMMA CallLonger ==
    ASSUME Typed, TypeInv, NEW list \in Seq(Messages), NoFeeds(list), NEW news, NEW x, CallTaken(list, news, x)
    PROVE  Longer(in_flight, in_flight')
<1>1. PICK net : net = Network OBVIOUS
<1>2. net \in Networks /\ net.queue = in_flight BY <1>1, NetworkTyped
<1>3. Added(net, list, x) /\ x \in Networks /\ x.queue = in_flight' BY <1>1 DEF CallTaken
<1>4. \A p, n \in Node : NoneAfter(net.queue, x.queue, p, n) BY <1>2, <1>3, NoNewFeeds
<1>5. net.queue \in Seq(Frames) /\ x.queue \in Seq(Frames) /\ Extends(net.queue, x.queue)
  BY <1>2, <1>3 DEF Networks, Added
<1> QED BY <1>2, <1>3, <1>4, <1>5 DEF Longer

\* A pair of nodes the call does not touch.
LEMMA LongerCurrent ==
    ASSUME NEW q, NEW r, Longer(q, r), NEW ns, NEW ns2, NEW n \in Node, NEW p \in Node,
           SamePair(ns, ns2, n, p), NEW g, Current(ns, q, {}, n, p, g)
    PROVE  Current(ns2, r, {}, n, p, g)
<1>1. q \in Seq(Frames) /\ r \in Seq(Frames) /\ Extends(q, r) /\ NoneAfter(q, r, p, n) BY DEF Longer
<1>2. \A i \in DOMAIN r : i > Len(q) => ~FeedAt(r, i, p, n) BY <1>1 DEF NoneAfter
<1> QED BY <1>1, <1>2, CurrentStays

\* query and periodic sync keep CurrentInv.
LEMMA SendCurrentStill ==
    ASSUME Typed, TypeInv, NEW h, NEW h2, Explained(h, h2), nodes' = nodes, withheld' = withheld,
           NEW list \in Seq(Messages), NoFeeds(list), Into(SendAll(Network, list, FALSE))
    PROVE  CurrentOf(h2)'
<1>1. PICK x : CallTaken(list, FALSE, x) BY CallTold
<1>2. Told(Network, list, Len(list), x) /\ x.excused = excused' BY <1>1 DEF CallTaken
<1>3. excused \subseteq excused' BY <1>2 DEF Told, Network
<1>4. Longer(in_flight, in_flight') BY <1>1, CallLonger
<1>5. PICK ns, lv, lv2, q, r, X, X2, Y :
        /\ ns = nodes /\ lv = lives /\ lv2 = lives' /\ q = in_flight /\ r = in_flight'
        /\ X = excused /\ X2 = excused' /\ Y = withheld
  OBVIOUS
<1>6. /\ ns \in NodeMaps /\ Truthful(h, ns, lv) /\ CurrentHolds(h, ns, lv, q, X, Y)
      /\ Onward(h, ns, lv, h2, ns, lv2)
  BY <1>5 DEF Explained, BaseHolds, CurrentOf, TypeInv, NodesTyped
<1>7. ASSUME NEW n \in Node, NEW p \in Node, n # p, ns[n] # Absent, ns[p] # Absent, <<n, p>> \notin X2
      PROVE  Follows(h2, ns, lv2, r, Y, n, p)
  <2>1. SamePair(ns, ns, n, p) BY DEF SamePair
  <2>2. Carried(ns, q, ns, r, n, p) BY <1>4, <1>5, <2>1, LongerCurrent DEF Carried
  <2>3. Follows(h, ns, lv, q, Y, n, p) BY <1>3, <1>5, <1>6, <1>7 DEF CurrentHolds
  <2> QED BY <1>6, <1>7, <2>2, <2>3, PairStays
<1>8. CurrentHolds(h2, ns, lv2, r, X2, Y) BY <1>7 DEF CurrentHolds
<1> QED BY <1>5, <1>8 DEF CurrentOf

\* The frames between two nodes stay, in their order.
LEMMA KeptCurrent ==
    ASSUME NEW q \in Seq(Frames), NEW S, NEW ns, NEW ns2, NEW n \in Node, NEW p \in Node,
           \A f \in ToSet(q) : {f.from, f.to} = {n, p} => f \in S,
           SamePair(ns, ns2, n, p), NEW g, Current(ns, q, {}, n, p, g)
    PROVE  Current(ns2, Only(q, S), {}, n, p, g)
<1>1. PICK r : r = Only(q, S) OBVIOUS
<1>2. ToSet(r) = ToSet(q) \cap S BY <1>1, OnlyOf
<1>3. \A d : /\ OnWay(ToSet(q), {}, p, n, d) => OnWay(ToSet(r), {}, p, n, d)
             /\ OnWay(ToSet(q), {}, n, p, d) => OnWay(ToSet(r), {}, n, p, d)
  <2>1. \A f \in ToSet(q) : (f.from = n /\ f.to = p) \/ (f.from = p /\ f.to = n) => f \in ToSet(r) BY <1>2
  <2> QED BY <2>1 DEF OnWay
<1>4. FeedsAre(ToSet(q), p, n, g) => FeedsAre(ToSet(r), p, n, g) BY <1>2 DEF FeedsAre
<1>5. ASSUME Newest(q, p, n, g) PROVE Newest(r, p, n, g)
  <2>1. PICK j \in DOMAIN q : Latest(q, j, p, n, g) BY <1>5 DEF Newest
  <2>2. q[j] \in ToSet(q) BY DEF ToSet
  <2>3. q[j] \in S BY <2>1, <2>2 DEF Latest, FeedAt
  <2> QED BY <1>1, <2>1, <2>3, NewestKept
<1>6. Informed(ns, ToSet(q), {}, n, p, g) => Informed(ns2, ToSet(r), {}, n, p, g) BY <1>3 DEF Informed, SamePair
<1>7. Noted(ns, ToSet(q), n, p, g) => Noted(ns2, ToSet(r), n, p, g) BY <1>4 DEF Noted, SamePair
<1>8. Quiet(ns, p, g) => Quiet(ns2, p, g) BY DEF Quiet, SamePair
<1> QED BY <1>1, <1>5, <1>6, <1>7, <1>8 DEF Current, Aware

\* remove_node and remove_node_hard keep CurrentInv.
LEMMA LeaveCurrent ==
    ASSUME Typed, TypeInv, NEW h, NEW h2, Explained(h, h2), NEW n \in Node, RemoveNode(n) \/ RemoveNodeHard(n)
    PROVE  CurrentOf(h2)'
<1>0. nodes \in NodeMaps /\ in_flight \in Seq(Frames) BY DEF TypeInv, NodesTyped, QueueTyped
<1>1. /\ nodes' = Left(nodes, n) /\ excused' = excused /\ withheld' = withheld
      /\ in_flight' = in_flight \/ in_flight' = DropInFlightFor(in_flight, n)
  BY DEF RemoveNode, RemoveNodeHard, Without, Left, testVars
<1>2. PICK ns, lv, q, X, Y, ns2, lv2, r :
        /\ ns = nodes /\ lv = lives /\ q = in_flight /\ X = excused /\ Y = withheld
        /\ ns2 = nodes' /\ lv2 = lives' /\ r = in_flight'
  OBVIOUS
<1>t. /\ ns \in NodeMaps /\ Truthful(h, ns, lv) /\ CurrentHolds(h, ns, lv, q, X, Y)
      /\ Onward(h, ns, lv, h2, ns2, lv2)
  BY <1>0, <1>2 DEF Explained, BaseHolds, CurrentOf
<1>3. /\ ns2[n] = Absent
      /\ \A m \in Node \ {n} : IF ns[m] = Absent THEN ns2[m] = Absent ELSE Bereft(ns, n, m, ns2[m])
  BY <1>0, <1>1, <1>2, NodeLeft
<1>4. ASSUME NEW m \in Node, m # n, ns2[m] # Absent
      PROVE  /\ ns[m] # Absent /\ SameOwner(ns, ns2, m)
             /\ \A p \in Node \ {n} : ns2[m].engine.views[p] = ns[m].engine.views[p]
  <2>1. ns[m] # Absent /\ Bereft(ns, n, m, ns2[m]) BY <1>3, <1>4
  <2>2. ns[m].engine \in Engines /\ ns[m].engine.id = m BY <1>0, <1>2, <2>1, NodeTyped
  <2>3. SameState(ns[m].engine, ns2[m].engine) /\ \A p \in Node \ {n} : ns2[m].engine.views[p] = ns[m].engine.views[p]
    BY <1>4, <2>1, <2>2, LeaveHandled DEF Bereft
  <2> QED BY <1>4, <2>1, <2>3 DEF SameOwner, SameState, Bereft
<1>5. ASSUME NEW m \in Node, NEW p \in Node, m # p, ns2[m] # Absent, ns2[p] # Absent, <<m, p>> \notin X
      PROVE  Follows(h2, ns2, lv2, r, Y, m, p)
  <2>1. m # n /\ p # n BY <1>3, <1>5
  <2>2. /\ ns[m] # Absent /\ ns[p] # Absent /\ SamePair(ns, ns2, m, p) /\ ns2[p].engine.gen = ns[p].engine.gen
    BY <1>4, <1>5, <2>1 DEF SameOwner, SamePair
  <2>3. ASSUME NEW g \in Generation, Current(ns, q, {}, m, p, g) PROVE Current(ns2, r, {}, m, p, g)
    <3>1. CASE r = q
      <4>1. q \in Seq(Frames) /\ Extends(q, q) /\ \A i \in DOMAIN q : i > Len(q) => ~FeedAt(q, i, p, m)
        BY <1>0, <1>2 DEF Extends
      <4> QED BY <2>2, <2>3, <3>1, <4>1, CurrentStays
    <3>2. CASE r = DropInFlightFor(q, n)
      <4>1. PICK S : r = Only(q, S) /\ \A f \in ToSet(q) : f.from # n /\ f.to # n => f \in S
        BY <3>2 DEF DropInFlightFor
      <4>2. \A f \in ToSet(q) : {f.from, f.to} = {m, p} => f \in S BY <2>1, <4>1
      <4> QED BY <1>0, <1>2, <2>2, <2>3, <4>1, <4>2, KeptCurrent
    <3> QED BY <1>1, <1>2, <3>1, <3>2
  <2>4. Carried(ns, q, ns2, r, m, p) BY <2>3 DEF Carried
  <2>5. Follows(h, ns, lv, q, Y, m, p) BY <1>5, <1>t, <2>2 DEF CurrentHolds
  <2> QED BY <1>t, <2>2, <2>4, <2>5, PairStays
<1>6. CurrentHolds(h2, ns2, lv2, r, X, Y) BY <1>5 DEF CurrentHolds
<1> QED BY <1>1, <1>2, <1>6 DEF CurrentOf

\* Generation g of p is under way to n.
LEMMA LandedCurrent ==
    ASSUME NEW ns, NEW q, NEW n, NEW p, NEW b, Whole(b), NEW g, b.gen = g, Landed(q, Message(p, n, b))
    PROVE  Current(ns, q, {}, n, p, g)
<1>1. OnWay(ToSet(q), {}, p, n, b) BY LandedOnWay
<1>2. Informed(ns, ToSet(q), {}, n, p, g) BY <1>1 DEF Informed, Le
<1> QED BY <1>2 DEF Current, Aware

\* n is aware of the latest of p.
LEMMA FollowsNow ==
    ASSUME NEW h, NEW ns \in NodeMaps, NEW lv, Truthful(h, ns, lv), NEW q, NEW W, NEW n, NEW p \in Node,
           ns[p] # Absent, NEW g, g = ns[p].engine.gen, Current(ns, q, {}, n, p, g)
    PROVE  Follows(h, ns, lv, q, W, n, p)
BY KeptNow DEF Follows

\* State s may become w and be held back.
MayHoldBack(s, w) == HeldBackKeepsMemory => Alike(Project(w), Project(s))

\* What a mutation that is held back keeps.
LEMMA KeptBack ==
    ASSUME NEW h, NEW ns \in NodeMaps, NEW lv, Truthful(h, ns, lv),
           NEW h2, NEW ns2 \in NodeMaps, NEW lv2, Truthful(h2, ns2, lv2), Onward(h, ns, lv, h2, ns2, lv2),
           NEW n \in Node, ns[n] # Absent, ns2[n] # Absent, NEW w,
           ns2[n].engine.gen = NextAge(ns[n].engine.gen), ns2[n].engine.value = w,
           MayHoldBack(ns[n].engine.value, w), NEW g, Kept(h, ns, lv, n, g)
    PROVE  Kept(h2, ns2, lv2, n, g)
<1>1. PICK top, new : top = ns[n].engine.gen /\ new = NextAge(top) OBVIOUS
<1>2. top \in Generation BY <1>1, NodeTyped DEF Engines, EngineRecords
<1>3. new \in Generation /\ ns2[n].engine.gen = new BY <1>1, <1>2, NextAgeAdvances
<1>4. Reached(ns, lv, n, g) /\ Reached(ns2, lv2, n, g) BY DEF Kept, Onward, Reached
<1>5. ASSUME Lawful, HeldBackKeepsMemory, NEW k \in Generation, Le(g, k), Le(k, new)
      PROVE  Alike(h2[n][k], h2[n][new])
  <2>1. CASE k = new BY <2>1 DEF Alike
  <2>2. CASE k # new
    <3>1. Lt(k, new) BY <1>5, <2>2 DEF Le
    <3>2. Le(k, top)
      <4>1. new.inc = top.inc /\ new.age = top.age + 1 BY <1>1 DEF NextAge, NewGeneration
      <4>2. k.inc < top.inc \/ (k.inc = top.inc /\ k.age < top.age + 1) BY <3>1, <4>1 DEF Lt
      <4>3. k.inc < top.inc \/ (k.inc = top.inc /\ (k.age < top.age \/ k.age = top.age))
        BY <1>2, <4>2 DEF Generation
      <4>4. CASE k.inc = top.inc /\ k.age = top.age
        <5>1. k = top BY <1>2, <4>4 DEF Generation
        <5> QED BY <5>1 DEF Le
      <4> QED BY <4>3, <4>4 DEF Le, Lt
    <3>3. Alike(h[n][k], h[n][top]) BY <1>1, <1>5, <3>2 DEF Kept
    <3>4. Reached(ns, lv, n, k) BY <1>1, <1>4, <1>5, <3>2, ReachedBetween
    <3>5. h2[n][k] = h[n][k] BY <1>5, <3>4 DEF Onward
    <3>6. NodeHolds(h, ns, lv, n) /\ NodeHolds(h2, ns2, lv2, n) BY DEF Truthful
    <3>7. h[n][top] = Project(ns[n].engine.value) /\ h2[n][new] = Project(w)
      BY <1>1, <1>3, <1>5, <3>6 DEF NodeHolds
    <3> QED BY <1>5, <3>3, <3>5, <3>7 DEF Alike, MayHoldBack
  <2> QED BY <2>1, <2>2
<1> QED BY <1>3, <1>4, <1>5 DEF Kept

\* A mutation that is to be sent later, or announced.
LEMMA HeldCurrent ==
    ASSUME Typed, TypeInv, NEW h, BaseHolds(h), NEW n \in Node, NEW c \in Change,
           NEW action, NEW b, NEW y, MutationTaken(n, c, action, b, y), n \notin withheld', ~Announces(action)
    PROVE  y.engine.feed = y.engine.gen \/ \E s \in ToSet(y.scheduled) : s.body.gen = y.engine.gen
<1>0. nodes \in NodeMaps /\ DataTyped BY DEF TypeInv, NodesTyped, Typed
<1>1. PICK ns, lv, e : ns = nodes /\ lv = lives /\ e = nodes[n].engine OBVIOUS
<1>2. /\ ns[n] # Absent /\ y \in MockNodes(n) /\ y.engine = AfterMutation(e, c, action)
  BY <1>1 DEF MutationTaken
<1>3. ns \in NodeMaps /\ e \in Engines /\ e.id = n /\ e = ns[n].engine BY <1>0, <1>1, <1>2, NodeTyped
<1>4. y.engine.gen = NextAge(e.gen) BY <1>0, <1>2, <1>3, MutationMade
<1>5. CASE action = "ScheduleDelayed"
  <2>1. PICK s : s = [body |-> SnapshotBody(e, c), in |-> DelayInTicks] OBVIOUS
  <2>2. y.scheduled = Append(ns[n].scheduled, s) BY <1>1, <1>5, <2>1 DEF MutationTaken, Announces
  <2>3. PICK list : list = ns[n].scheduled OBVIOUS
  <2>4. list \in Seq(Timed(n)) BY <1>2, <1>3, <2>3, NodeTyped
  <2>5. Append(list, s)[Len(list) + 1] = s /\ Len(list) + 1 \in DOMAIN Append(list, s) BY <2>4
  <2>6. s \in ToSet(y.scheduled) BY <2>2, <2>3, <2>5 DEF ToSet
  <2>7. s.body.gen = NextAge(e.gen) BY <1>3, <2>1, MutationBodies DEF NewsOf
  <2> QED BY <1>4, <2>6, <2>7
<1>6. CASE action = "NotifyChangeFeed"
  <2>1. y.engine.feed = IF e.feed = NoGen \/ Lt(e.feed, NextAge(e.gen)) THEN NextAge(e.gen) ELSE e.feed
    BY <1>0, <1>2, <1>3, <1>6, MutationFeeds
  <2>2. NodeHolds(h, ns, lv, n) BY <1>1, <1>2 DEF BaseHolds, Truthful
  <2>3. e.gen \in Generation /\ NextAge(e.gen) \in Generation /\ Lt(e.gen, NextAge(e.gen))
    BY <1>3, NextAgeAdvances DEF Engines, EngineRecords
  <2>4. CASE e.feed = NoGen BY <1>4, <2>1, <2>4
  <2>5. CASE Reached(ns, lv, n, e.feed)
    <3>1. e.feed \in Generation /\ Le(e.feed, e.gen) BY <1>2, <1>3, <2>5 DEF Reached
    <3>2. Lt(e.feed, NextAge(e.gen)) BY <2>3, <3>1, LeLtTransitive
    <3> QED BY <1>4, <2>1, <3>2
  <2> QED BY <1>3, <2>2, <2>4, <2>5 DEF NodeHolds
<1> QED BY <1>5, <1>6 DEF MutationTaken, Announces

\* A mutation: the others are sent it, or will be, unless it is held back.
LEMMA MutationCurrent ==
    ASSUME Typed, TypeInv, NEW h, NEW h2, Explained(h, h2), NEW n \in Node, NEW c \in Change,
           NEW u \in SyncUrgency, u \in UrgencyOf(nodes[n].engine.value, c),
           NEW action, action = ResolveAction(u), NEW b, NEW y, MutationTaken(n, c, action, b, y)
    PROVE  CurrentOf(h2)'
<1>0. nodes \in NodeMaps /\ in_flight \in Seq(Frames) /\ DataTyped BY DEF TypeInv, NodesTyped, QueueTyped, Typed
<1>1. PICK ns, lv, q, X, Y, ns2, lv2, r, X2, Y2, e :
        /\ ns = nodes /\ lv = lives /\ q = in_flight /\ X = excused /\ Y = withheld /\ e = nodes[n].engine
        /\ ns2 = nodes' /\ lv2 = lives' /\ r = in_flight' /\ X2 = excused' /\ Y2 = withheld'
  OBVIOUS
<1>2. /\ ns[n] # Absent /\ y \in MockNodes(n) /\ y.engine = AfterMutation(e, c, action)
      /\ ns2 = [ns EXCEPT ![n] = y]
      /\ b = SnapshotBody(e, c) \/ b = DeltaBody(e, c, action)
  BY <1>1 DEF MutationTaken
<1>3. ns \in NodeMaps /\ e \in Engines /\ e.id = n /\ e = ns[n].engine BY <1>0, <1>1, <1>2, NodeTyped
<1>t. /\ Truthful(h, ns, lv) /\ CurrentHolds(h, ns, lv, q, X, Y) /\ Onward(h, ns, lv, h2, ns2, lv2)
      /\ ns2 \in NodeMaps /\ Truthful(h2, ns2, lv2)
  BY <1>1 DEF Explained, BaseHolds, CurrentOf, TypeInv, NodesTyped
<1>4. ns2[n] = y /\ \A p \in Node \ {n} : ns2[p] = ns[p]
  <2>1. \A p \in Node \ {n} : ns2[p] = ns[p] BY <1>2, <1>3 DEF NodeMaps
  <2>2. ns2[n] = y BY <1>2, <1>3 DEF NodeMaps
  <2> QED BY <2>1, <2>2
<1>5. /\ y.engine.gen = NextAge(e.gen) /\ y.engine.value = ApplyChange(e.value, c)
      /\ \A p \in Node \ {n} : y.engine.views[p] = e.views[p]
  BY <1>0, <1>2, <1>3, MutationMade
<1>6. NewsOf(n, NextAge(e.gen), b) BY <1>2, <1>3, MutationBodies
<1>7. Whole(b) /\ b.gen = NextAge(e.gen) /\ b.type # "RequestSnapshot" /\ b.type # "Feed"
  BY <1>6 DEF NewsOf, Whole, IsSync
<1>8. \A p \in Node \ {n} : p \in Y2 <=> p \in Y BY <1>1 DEF MutationTaken
\* The pairs of which the second is another node.
<1>9. ASSUME NEW m \in Node, NEW p \in Node, m # p, p # n, ns2[m] # Absent, ns2[p] # Absent,
             <<m, p>> \notin X, Longer(q, r)
      PROVE  Follows(h2, ns2, lv2, r, Y2, m, p)
  <2>1. ns[m] # Absent /\ ns[p] # Absent BY <1>2, <1>4, <1>9
  <2>2. Follows(h, ns, lv, q, Y, m, p) BY <1>9, <1>t, <2>1 DEF CurrentHolds
  <2>3. ns2[m].engine.views[p] = ns[m].engine.views[p]
    <3>1. CASE m = n BY <1>3, <1>4, <1>5, <1>9, <3>1
    <3>2. CASE m # n BY <1>4, <3>2
    <3> QED BY <3>1, <3>2
  <2>4. SamePair(ns, ns2, m, p) /\ ns2[p].engine.gen = ns[p].engine.gen BY <1>4, <1>9, <2>3 DEF SamePair
  <2>5. Carried(ns, q, ns2, r, m, p) BY <1>9, <2>4, LongerCurrent DEF Carried
  <2>6. Follows(h2, ns2, lv2, r, Y, m, p) BY <1>3, <1>t, <2>1, <2>2, <2>4, <2>5, PairStays
  <2> QED BY <1>8, <1>9, <2>6 DEF Follows
<1>10. CASE ~Announces(action)
  <2>1. r = q /\ X2 = X BY <1>1, <1>10 DEF MutationTaken
  <2>2. Longer(q, r) BY <1>0, <1>1, <2>1 DEF Longer, Extends, NoneAfter
  <2>3. ASSUME NEW m \in Node, m # n, ns2[m] # Absent, n \notin Y2 PROVE Follows(h2, ns2, lv2, r, Y2, m, n)
    <3>1. BaseHolds(h) BY DEF Explained
    <3>2. y.engine.feed = y.engine.gen \/ \E s \in ToSet(y.scheduled) : s.body.gen = y.engine.gen
      BY <1>1, <1>10, <2>3, <3>1, HeldCurrent
    <3>3. PICK g : g = ns2[n].engine.gen OBVIOUS
    <3>4. Informed(ns2, ToSet(r), {}, m, n, g) BY <1>4, <3>2, <3>3 DEF Informed, Le
    <3>5. Current(ns2, r, {}, m, n, g) BY <3>4 DEF Current, Aware
    <3>6. ns2[n] # Absent BY <1>2, <1>4 DEF Typed, AbsentIsNoNode, AnyNode
    <3> QED BY <1>t, <3>3, <3>5, <3>6, FollowsNow
  <2>4. ASSUME NEW m \in Node, m # n, ns2[m] # Absent, <<m, n>> \notin X, n \in Y2
        PROVE  Follows(h2, ns2, lv2, r, Y2, m, n)
    <3>1. /\ action \in {"ScheduleDelayed", "Suppress"} /\ y.scheduled = ns[n].scheduled
      BY <1>1, <1>10, <2>4 DEF MutationTaken
    <3>2. y.engine.feed = e.feed BY <1>0, <1>2, <1>3, <3>1, MutationMade
    <3>3. SamePair(ns, ns2, m, n) BY <1>3, <1>4, <2>4, <3>1, <3>2 DEF SamePair
    <3>4. MayHoldBack(e.value, ApplyChange(e.value, c))
      <4>1. e.value \in State /\ u \in UrgencyOf(e.value, c) BY <1>1, <1>3 DEF Engines, EngineRecords
      <4> QED BY <3>1, <4>1 DEF HeldBackKeepsMemory, MayHoldBack
    <3>5. ns[m] # Absent BY <1>4, <2>4
    <3>6. PICK g \in Generation : Kept(h, ns, lv, n, g) /\ Current(ns, q, {}, m, n, g)
      BY <1>2, <1>t, <2>4, <3>5 DEF CurrentHolds, Follows
    <3>7. Current(ns2, r, {}, m, n, g) BY <2>2, <3>3, <3>6, LongerCurrent
    <3>8. ns2[n] # Absent BY <1>2, <1>4 DEF Typed, AbsentIsNoNode, AnyNode
    <3>9. PICK w : w = ApplyChange(e.value, c) OBVIOUS
    <3>10. /\ ns2[n].engine.gen = NextAge(ns[n].engine.gen) /\ ns2[n].engine.value = w
           /\ MayHoldBack(ns[n].engine.value, w)
      BY <1>3, <1>4, <1>5, <3>4, <3>9
    <3>11. Kept(h, ns, lv, n, g) /\ ns \in NodeMaps /\ ns[n] # Absent BY <1>2, <1>3, <3>6
    <3>12. Kept(h2, ns2, lv2, n, g) BY <1>t, <3>8, <3>10, <3>11, KeptBack
    <3> QED BY <2>4, <3>7, <3>12 DEF Follows
  <2>5. CurrentHolds(h2, ns2, lv2, r, X2, Y2) BY <1>9, <2>1, <2>2, <2>3, <2>4 DEF CurrentHolds
  <2> QED BY <1>1, <2>5 DEF CurrentOf
<1>11. CASE Announces(action)
  <2>0. Into(SendAll(Network, Broadcast(nodes, n, b), TRUE)) BY <1>11 DEF MutationTaken, Announces
  <2>1. PICK list : list = Broadcast(nodes, n, b) OBVIOUS
  <2>2. list \in Seq(Messages) /\ \A m : m \in ToSet(list) <=> SentTo(ns, n, b, m)
    BY <1>0, <1>1, <2>1, MessagesOfMutation
  <2>3. PICK x : CallTaken(list, TRUE, x) BY <2>0, <2>1, <2>2, CallTold
  <2>4. x.queue = r /\ x.excused = X2 /\ ToldNews(Network, list, Len(list), x) BY <1>1, <2>3 DEF CallTaken
  <2>5. \A j \in 1 .. Len(list) : SentTo(ns, n, b, list[j]) BY <2>2 DEF ToSet
  <2>6. NoFeeds(list)
    <3> SUFFICES ASSUME NEW m \in ToSet(list) PROVE m.body.type # "Feed" BY DEF NoFeeds
    <3>1. SentTo(ns, n, b, m) BY <2>2
    <3> QED BY <1>7, <3>1 DEF SentTo, Message
  <2>7. Longer(q, r) BY <1>1, <2>2, <2>3, <2>6, CallLonger
  <2>8. ASSUME NEW j \in 1 .. Len(list)
        PROVE  \E k \in Node \ {n} : list[j] = Message(n, k, b) /\ Concerns(list[j]) = <<k, n>>
    <3>1. PICK k \in Node : k # n /\ list[j] = Message(n, k, b) BY <2>5 DEF SentTo
    <3>2. Concerns(list[j]) = <<k, n>> BY <1>7, <3>1 DEF Concerns, Message
    <3> QED BY <3>1, <3>2
  <2>9. ASSUME NEW m \in Node, NEW p \in Node, m # p, ns2[m] # Absent, ns2[p] # Absent,
               <<m, p>> \notin X2
        PROVE  Follows(h2, ns2, lv2, r, Y2, m, p)
    <3>1. <<m, p>> \in Node \X Node OBVIOUS
    <3>2. \/ <<m, p>> \notin Network.excused /\ \A j \in 1 .. Len(list) : Concerns(list[j]) # <<m, p>>
          \/ \E j \in 1 .. Len(list) : Concerns(list[j]) = <<m, p>> /\ Landed(x.queue, list[j])
      BY <2>4, <2>9, <3>1 DEF ToldNews
    <3>3. CASE p # n
      <4>1. \A j \in 1 .. Len(list) : Concerns(list[j]) # <<m, p>> BY <2>8, <3>3
      <4>2. <<m, p>> \notin X BY <1>1, <3>2, <4>1 DEF Network
      <4> QED BY <1>9, <2>7, <2>9, <3>3, <4>2
    <3>4. CASE p = n
      <4>1. ns[m] # Absent /\ m # n BY <1>4, <2>9, <3>4
      <4>2. Message(n, m, b) \in ToSet(list) BY <2>2, <4>1 DEF SentTo
      <4>3. PICK k \in 1 .. Len(list) : list[k] = Message(n, m, b) BY <2>2, <4>2 DEF ToSet
      <4>4. Concerns(list[k]) = <<m, n>> BY <1>7, <4>3 DEF Concerns, Message
      <4>5. PICK j \in 1 .. Len(list) : Concerns(list[j]) = <<m, n>> /\ Landed(x.queue, list[j])
        BY <3>2, <3>4, <4>3, <4>4
      <4>6. list[j] = Message(n, m, b) BY <2>8, <4>5
      <4>7. Landed(r, Message(n, m, b)) BY <2>4, <4>5, <4>6
      <4>8. PICK g : g = ns2[n].engine.gen OBVIOUS
      <4>9. b.gen = g BY <1>4, <1>5, <1>7, <4>8
      <4>10. Current(ns2, r, {}, m, n, g) BY <1>7, <4>7, <4>9, LandedCurrent
      <4> QED BY <1>t, <2>9, <3>4, <4>8, <4>10, FollowsNow
    <3> QED BY <3>3, <3>4
  <2>10. CurrentHolds(h2, ns2, lv2, r, X2, Y2) BY <2>9 DEF CurrentHolds
  <2> QED BY <1>1, <2>10 DEF CurrentOf
<1> QED BY <1>10, <1>11

\* The snapshot an engine sends of itself.
LEMMA OwnSnapshotWhole ==
    ASSUME Typed, NEW e \in Engines
    PROVE  Whole(OwnSnapshot(e)) /\ OwnSnapshot(e).gen = e.gen /\ OwnSnapshot(e).type = "FullSnapshot"
<1>0. DataTyped BY DEF Typed
<1>1. PICK b : b = OwnSnapshot(e) OBVIOUS
<1>2. b \in Bodies /\ b.type = "FullSnapshot" BY <1>0, <1>1, BodiesMade
<1>3. b.gen = e.gen /\ b.wire = Wire /\ b.data = e.views[e.id].value BY <1>1 DEF OwnSnapshot, Sync
<1>4. e.views[e.id].value = Project(e.value) /\ e.value \in State BY DEF Engines, EngineRecords, OwnsEntry, OwnEntry
<1>5. b.data # Malformed BY <1>0, <1>3, <1>4, EngineAssumption DEF DataTyped
<1>6. b # Garbage BY <1>2 DEF Typed, GarbageIsNoBody
<1> QED BY <1>1, <1>2, <1>3, <1>5, <1>6 DEF Whole, IsSync

\* A newcomer and the others send each other their latest.
LEMMA AddCurrent ==
    ASSUME Typed, TypeInv, NEW h, NEW h2, Explained(h, h2), NEW n \in Node, AddNode(n)
    PROVE  CurrentOf(h2)'
<1>0. /\ nodes \in NodeMaps /\ in_flight \in Seq(Frames) /\ DataTyped /\ lives \in [Node -> Nat]
  BY DEF TypeInv, NodesTyped, QueueTyped, TestTyped, Typed
<1>1. PICK ns, lv, inc, q, X, Y, ns2, lv2, r, X2, Y2 :
        /\ ns = nodes /\ lv = lives /\ inc = lives[n] + 1 /\ q = in_flight /\ X = excused /\ Y = withheld
        /\ ns2 = nodes' /\ lv2 = lives' /\ r = in_flight' /\ X2 = excused' /\ Y2 = withheld'
  OBVIOUS
<1>2. /\ ns[n] = Absent /\ ns2 = Admitted(ns, n, inc) /\ Y2 = Y \ {n}
      /\ Into(SendAll(Network, Greetings(ns, n, inc), TRUE))
  BY <1>1 DEF AddNode
<1>3. inc \in Nat /\ ns \in NodeMaps BY <1>0, <1>1
<1>t. /\ Truthful(h, ns, lv) /\ CurrentHolds(h, ns, lv, q, X, Y) /\ Onward(h, ns, lv, h2, ns2, lv2)
      /\ ns2 \in NodeMaps /\ Truthful(h2, ns2, lv2)
  BY <1>1 DEF Explained, BaseHolds, CurrentOf, TypeInv, NodesTyped
<1>4. /\ Newcomer(ns, n, inc, ns2[n])
      /\ \A p \in Node \ {n} : IF ns[p] = Absent THEN ns2[p] = Absent ELSE Welcomes(ns, n, p, ns2[p])
  BY <1>0, <1>2, <1>3, NodeAdmitted
<1>5. PICK list : list = Greetings(ns, n, inc) OBVIOUS
<1>6. list \in Seq(Messages) /\ \A m : m \in ToSet(list) <=> Greeting(ns, n, inc, m)
  BY <1>0, <1>2, <1>3, <1>5, GreetingsSent
<1>7. PICK x : CallTaken(list, TRUE, x) BY <1>2, <1>5, <1>6, CallTold
<1>8. x.queue = r /\ x.excused = X2 /\ ToldNews(Network, list, Len(list), x) BY <1>1, <1>7 DEF CallTaken
<1>9. PICK b : b = OwnSnapshot(NewEngine(n, inc)) OBVIOUS
<1>10. Whole(b) /\ b.gen = ns2[n].engine.gen /\ b.type = "FullSnapshot"
  <2>1. NewEngine(n, inc) \in Engines BY <1>0, <1>3, EngineMade
  <2> QED BY <1>4, <1>9, <2>1, OwnSnapshotWhole DEF Newcomer, SameState
<1>11. ASSUME NEW p \in Node, p # n, ns[p] # Absent
       PROVE  Whole(OwnSnapshot(ns[p].engine)) /\ OwnSnapshot(ns[p].engine).gen = ns[p].engine.gen
              /\ OwnSnapshot(ns[p].engine).type = "FullSnapshot"
  BY <1>3, <1>11, NodeTyped, OwnSnapshotWhole
<1>12. ASSUME NEW p \in Node, p # n, ns2[p] # Absent
       PROVE  /\ ns[p] # Absent /\ SameOwner(ns, ns2, p)
              /\ \A k \in Node \ {n} : ns2[p].engine.views[k] = ns[p].engine.views[k]
  <2>1. ns[p] # Absent /\ Welcomes(ns, n, p, ns2[p]) BY <1>4, <1>12
  <2>2. ns[p].engine \in Engines /\ ns[p].engine.id = p BY <1>3, <2>1, NodeTyped
  <2>3. SameState(ns[p].engine, ns2[p].engine) /\ \A k \in Node \ {n} : ns2[p].engine.views[k] = ns[p].engine.views[k]
    BY <1>0, <1>12, <2>1, <2>2, JoinHandled DEF Welcomes
  <2> QED BY <1>12, <2>1, <2>3 DEF SameOwner, SameState, Welcomes
\* A greeting of the newcomer, or to it.
<1> DEFINE Ours(p, j) == list[j] = Message(n, p, b) /\ Concerns(list[j]) = <<p, n>>
           Theirs(p, j) == list[j] = Message(p, n, OwnSnapshot(ns[p].engine)) /\ Concerns(list[j]) = <<n, p>>
<1>13. ASSUME NEW p \in Node, p # n, ns[p] # Absent, NEW j, list[j] = Message(n, p, b) PROVE Ours(p, j)
  BY <1>10, <1>13 DEF Concerns, Message
<1>14. ASSUME NEW p \in Node, p # n, ns[p] # Absent, NEW j, list[j] = Message(p, n, OwnSnapshot(ns[p].engine))
       PROVE  Theirs(p, j)
  BY <1>11, <1>14 DEF Concerns, Message
<1>15. ASSUME NEW j \in 1 .. Len(list) PROVE \E p \in Node \ {n} : Ours(p, j) \/ Theirs(p, j)
  <2>1. Greeting(ns, n, inc, list[j]) BY <1>6 DEF ToSet
  <2>2. PICK p \in Node \ {n} : /\ ns[p] # Absent
                                /\ \/ list[j] = Message(p, n, OwnSnapshot(ns[p].engine))
                                   \/ list[j] = Message(n, p, b)
    BY <1>9, <2>1 DEF Greeting
  <2> QED BY <1>13, <1>14, <2>2
<1>16. NoFeeds(list)
  <2> SUFFICES ASSUME NEW m \in ToSet(list) PROVE m.body.type # "Feed" BY DEF NoFeeds
  <2>1. PICK p \in Node \ {n} : /\ ns[p] # Absent
                                /\ \/ m = Message(p, n, OwnSnapshot(ns[p].engine))
                                   \/ m = Message(n, p, b)
    BY <1>6, <1>9 DEF Greeting
  <2> QED BY <1>10, <1>11, <2>1 DEF Message
<1>17. Longer(q, r) BY <1>1, <1>6, <1>7, <1>16, CallLonger
<1>18. ASSUME NEW m \in Node, NEW p \in Node, m # p, ns2[m] # Absent, ns2[p] # Absent,
              <<m, p>> \notin X2
       PROVE  Follows(h2, ns2, lv2, r, Y2, m, p)
  <2>1. <<m, p>> \in Node \X Node OBVIOUS
  <2>2. \/ <<m, p>> \notin Network.excused /\ \A j \in 1 .. Len(list) : Concerns(list[j]) # <<m, p>>
        \/ \E j \in 1 .. Len(list) : Concerns(list[j]) = <<m, p>> /\ Landed(x.queue, list[j])
    BY <1>8, <1>18, <2>1 DEF ToldNews
  <2>3. CASE m # n /\ p # n
    <3>1. \A j \in 1 .. Len(list) : Concerns(list[j]) # <<m, p>> BY <1>15, <2>3
    <3>2. <<m, p>> \notin X /\ (p \in Y2 <=> p \in Y) BY <1>1, <1>2, <2>2, <2>3, <3>1 DEF Network
    <3>3. /\ ns[m] # Absent /\ ns[p] # Absent /\ SamePair(ns, ns2, m, p) /\ ns2[p].engine.gen = ns[p].engine.gen
      BY <1>12, <1>18, <2>3 DEF SameOwner, SamePair
    <3>4. Follows(h, ns, lv, q, Y, m, p) BY <1>18, <1>t, <3>2, <3>3 DEF CurrentHolds
    <3>5. Carried(ns, q, ns2, r, m, p) BY <1>17, <3>3, LongerCurrent DEF Carried
    <3>6. Follows(h2, ns2, lv2, r, Y, m, p) BY <1>3, <1>t, <3>3, <3>4, <3>5, PairStays
    <3> QED BY <3>2, <3>6 DEF Follows
  <2>4. CASE p = n
    <3>1. ns[m] # Absent /\ m # n BY <1>12, <1>18, <2>4
    <3>2. Message(n, m, b) \in ToSet(list) BY <1>6, <1>9, <3>1 DEF Greeting
    <3>3. PICK k \in 1 .. Len(list) : list[k] = Message(n, m, b) BY <1>6, <3>2 DEF ToSet
    <3>4. Concerns(list[k]) = <<m, n>> BY <1>13, <3>1, <3>3
    <3>5. PICK j \in 1 .. Len(list) : Concerns(list[j]) = <<m, n>> /\ Landed(x.queue, list[j])
      BY <2>2, <2>4, <3>3, <3>4
    <3>6. list[j] = Message(n, m, b) BY <1>15, <3>1, <3>5
    <3>7. Landed(r, Message(n, m, b)) BY <1>8, <3>5, <3>6
    <3>8. PICK g : g = ns2[n].engine.gen OBVIOUS
    <3>9. Current(ns2, r, {}, m, n, g) BY <1>10, <3>7, <3>8, LandedCurrent
    <3> QED BY <1>18, <1>t, <2>4, <3>8, <3>9, FollowsNow
  <2>5. CASE m = n
    <3>1. ns[p] # Absent /\ p # n /\ ns2[p].engine.gen = ns[p].engine.gen BY <1>12, <1>18, <2>5 DEF SameOwner
    <3>2. PICK d : d = OwnSnapshot(ns[p].engine) OBVIOUS
    <3>3. Message(p, n, d) \in ToSet(list) BY <1>6, <3>1, <3>2 DEF Greeting
    <3>4. PICK k \in 1 .. Len(list) : list[k] = Message(p, n, d) BY <1>6, <3>3 DEF ToSet
    <3>5. Concerns(list[k]) = <<n, p>> BY <1>14, <3>1, <3>2, <3>4
    <3>6. PICK j \in 1 .. Len(list) : Concerns(list[j]) = <<n, p>> /\ Landed(x.queue, list[j])
      BY <2>2, <2>5, <3>4, <3>5
    <3>7. list[j] = Message(p, n, d) BY <1>15, <3>1, <3>2, <3>6
    <3>8. Landed(r, Message(p, n, d)) BY <1>8, <3>6, <3>7
    <3>9. Whole(d) /\ d.gen = ns2[p].engine.gen BY <1>11, <3>1, <3>2
    <3>10. PICK g : g = ns2[p].engine.gen OBVIOUS
    <3>11. Current(ns2, r, {}, n, p, g) BY <3>8, <3>9, <3>10, LandedCurrent
    <3> QED BY <1>18, <1>t, <2>5, <3>10, <3>11, FollowsNow
  <2> QED BY <2>3, <2>4, <2>5
<1>19. CurrentHolds(h2, ns2, lv2, r, X2, Y2) BY <1>18 DEF CurrentHolds
<1> QED BY <1>1, <1>19 DEF CurrentOf

-----------------------------------------------------------------------------
(* CurrentInv: every step.                                                 *)

\* Every step keeps CurrentInv.
LEMMA StepCurrent ==
    ASSUME Typed, TypeInv, CurrentInv, [Next]_vars
    PROVE  CurrentInv'
<1>0. PICK h : BaseHolds(h) /\ CurrentOf(h) BY DEF CurrentInv
<1>s. Sound(Network) BY DEF CurrentInv
<1>b. BaseOn(h) BY <1>0, <1>s, StepTruth
<1>h. PICK h2 : BaseHolds(h2)' /\ Onward(h, nodes, lives, h2, nodes', lives') BY <1>b DEF BaseOn
<1>t. TypeInv' BY StepTyped DEF Typed
<1>e. Explained(h, h2) BY <1>0, <1>h, <1>s, <1>t DEF Explained
<1> SUFFICES CurrentOf(h2)' BY <1>b, <1>h DEF CurrentInv, BaseOn
<1>k. ASSUME nodes' = nodes, in_flight' = in_flight, excused' = excused, withheld' = withheld
      PROVE  CurrentOf(h2)'
  <2>1. PICK ns, lv, q, X, Y, lv2 :
          /\ ns = nodes /\ lv = lives /\ q = in_flight /\ X = excused /\ Y = withheld /\ lv2 = lives'
    OBVIOUS
  <2>2. /\ ns \in NodeMaps /\ Truthful(h, ns, lv) /\ CurrentHolds(h, ns, lv, q, X, Y)
        /\ Onward(h, ns, lv, h2, ns, lv2)
    BY <1>0, <1>h, <1>k, <2>1 DEF BaseHolds, CurrentOf, TypeInv, NodesTyped
  <2>3. ASSUME NEW n \in Node, NEW p \in Node, n # p, ns[n] # Absent, ns[p] # Absent, <<n, p>> \notin X
        PROVE  Follows(h2, ns, lv2, q, Y, n, p)
    <3>1. Carried(ns, q, ns, q, n, p) BY DEF Carried
    <3>2. Follows(h, ns, lv, q, Y, n, p) BY <2>2, <2>3 DEF CurrentHolds
    <3> QED BY <2>2, <2>3, <3>1, <3>2, PairStays
  <2>4. CurrentHolds(h2, ns, lv2, q, X, Y) BY <2>3 DEF CurrentHolds
  <2> QED BY <1>k, <2>1, <2>4 DEF CurrentOf
<1>1. ASSUME NEW n \in Node, AddNode(n) PROVE CurrentOf(h2)' BY <1>1, <1>e, AddCurrent
<1>2. ASSUME NEW n \in Node, RemoveNode(n) \/ RemoveNodeHard(n) PROVE CurrentOf(h2)' BY <1>2, <1>e, LeaveCurrent
<1>3. ASSUME NEW n \in Node, NEW c \in Change, NEW u \in SyncUrgency, Mutate(n, c, u) \/ MutateWithDelta(n, c, u)
      PROVE  CurrentOf(h2)'
  <2>1. DataTyped BY DEF Typed
  <2>2. PICK b, y : MutationTaken(n, c, ResolveAction(u), b, y) BY <1>3, <2>1, MutateUnfolds
  <2>3. PICK action : action = ResolveAction(u) OBVIOUS
  <2>4. u \in UrgencyOf(nodes[n].engine.value, c) BY <1>3 DEF Mutate, MutateWithDelta
  <2> QED BY <1>e, <2>2, <2>3, <2>4, MutationCurrent
<1>4. ASSUME NEW n \in Node, NEW aged, Query(n, aged) PROVE CurrentOf(h2)'
  <2> DEFINE out == [k \in DOMAIN Only(NodeOrder, Pulled(nodes[n].engine, aged)) |->
                       Message(n, Only(NodeOrder, Pulled(nodes[n].engine, aged))[k], Request(nodes[n].engine))]
  <2>1. nodes[n] # Absent /\ nodes' = nodes /\ withheld' = withheld /\ Into(SendAll(Network, out, FALSE))
    BY <1>4 DEF Query
  <2>2. /\ out \in Seq(Messages)
        /\ \A m : m \in ToSet(out) <=>
              \E p \in Node : p \in Pulled(nodes[n].engine, aged) /\ m = Message(n, p, Request(nodes[n].engine))
    BY <2>1, PulledSent DEF Typed
  <2> HIDE DEF out
  <2>3. PICK list : list = out OBVIOUS
  <2>4. NoFeeds(list) BY <2>2, <2>3 DEF NoFeeds, Message, Request
  <2> QED BY <1>e, <2>1, <2>2, <2>3, <2>4, SendCurrentStill
<1>5. ASSUME NEW n \in Node, PeriodicSync(n) PROVE CurrentOf(h2)'
  <2>1. PICK ns, b : ns = nodes /\ b = OwnSnapshot(nodes[n].engine) OBVIOUS
  <2>2. /\ nodes[n] # Absent /\ nodes' = nodes /\ withheld' = withheld
        /\ Into(SendAll(Network, Broadcast(ns, n, b), FALSE))
    BY <1>5, <2>1 DEF PeriodicSync
  <2>3. nodes[n].engine \in Engines /\ nodes[n].engine.id = n
    BY <2>1, <2>2, NodeTyped DEF TypeInv, NodesTyped
  <2>4. b \in Bodies /\ b.src = n /\ b.type = "FullSnapshot" BY <2>1, <2>3, BodiesMade DEF Typed
  <2>5. PICK list : list = Broadcast(ns, n, b) OBVIOUS
  <2>6. list \in Seq(Messages) /\ \A m : m \in ToSet(list) <=> SentTo(ns, n, b, m) BY <2>4, <2>5, BroadcastSent
  <2>7. NoFeeds(list) BY <2>4, <2>6 DEF NoFeeds, SentTo, Message
  <2> QED BY <1>e, <2>2, <2>5, <2>6, <2>7, SendCurrentStill
<1>6. CASE (\E i \in Interceptor : AddInterceptor(i)) \/ ClearInterceptors
  BY <1>6, <1>k DEF AddInterceptor, ClearInterceptors
<1>7. CASE Tick BY <1>e, <1>7, TickCurrent
<1>8. CASE UNCHANGED vars BY <1>8, <1>k DEF vars
<1>9. CASE \E n \in Node : AddNode(n) \/ RemoveNode(n) \/ RemoveNodeHard(n) BY <1>1, <1>2, <1>9
<1>10. CASE \E n \in Node, c \in Change, u \in SyncUrgency : Mutate(n, c, u) \/ MutateWithDelta(n, c, u)
  BY <1>3, <1>10
<1>11. CASE \E n \in Node : PeriodicSync(n) \/ \E aged \in {{}, Node} : Query(n, aged)
  BY <1>4, <1>5, <1>11
<1> QED BY <1>6, <1>7, <1>8, <1>9, <1>10, <1>11 DEF Next

\* The first greetings are under way.
LEMMA InitCurrent ==
    ASSUME Typed, Init PROVE CurrentInv
<1>0. PICK h : BaseHolds(h) BY InitBase DEF BaseInv
<1>s. Sound(Network) BY InitBase DEF BaseInv
<1>1. PICK ns, sent : ns = Built.nodes /\ sent = Built.sent OBVIOUS
<1>2. nodes = ns /\ in_flight = [k \in DOMAIN sent |-> Frame(sent[k].from, sent[k].to, sent[k].body, 1)]
  BY <1>1, Zenon DEF Init, Built
<1>3. Fresh(Node, Built) BY BuiltFresh DEF Typed
<1>4. /\ \A n \in Node : FreshAt(Node, n, ns[n])
      /\ sent \in Seq(Messages) /\ \A m : m \in ToSet(sent) <=> FirstGreeting(Node, m)
  BY <1>1, <1>3 DEF Fresh
<1>5. PICK q, lv, X, Y : q = in_flight /\ lv = lives /\ X = excused /\ Y = withheld OBVIOUS
<1>8. ns \in NodeMaps /\ Truthful(h, ns, lv) BY <1>0, <1>2, <1>3, <1>1, <1>5 DEF BaseHolds, Fresh
<1>6. ASSUME NEW n \in Node, NEW p \in Node, n # p, ns[p] # Absent PROVE Follows(h, ns, lv, q, Y, n, p)
  <2>1. PICK b, m : b = OwnSnapshot(NewEngine(p, 1)) /\ m = Message(p, n, b) OBVIOUS
  <2>2. m \in ToSet(sent) BY <1>4, <1>6, <2>1 DEF FirstGreeting
  <2>3. PICK k \in DOMAIN sent : sent[k] = m BY <2>2 DEF ToSet
  <2>4. k \in DOMAIN q /\ q[k] = Frame(m.from, m.to, m.body, 1) BY <1>2, <1>5, <2>3
  <2>5. q[k] \in ToSet(q) BY <2>4 DEF ToSet
  <2>6. q[k].from = m.from /\ q[k].to = m.to /\ q[k].data = m.body BY <2>4 DEF Frame
  <2>7. Landed(q, m) BY <2>5, <2>6 DEF Landed
  <2>8. NewEngine(p, 1) \in Engines /\ NewEngine(p, 1).gen = ns[p].engine.gen
    BY <1>4, EngineMade DEF FreshAt, SameState, Typed
  <2>9. PICK g : g = ns[p].engine.gen OBVIOUS
  <2>10. Whole(b) /\ b.gen = g BY <2>1, <2>8, <2>9, OwnSnapshotWhole
  <2>11. Current(ns, q, {}, n, p, g) BY <2>1, <2>7, <2>10, LandedCurrent
  <2> QED BY <1>6, <1>8, <2>9, <2>11, FollowsNow
<1>9. CurrentHolds(h, ns, lv, q, X, Y) BY <1>6 DEF CurrentHolds
<1> QED BY <1>0, <1>2, <1>5, <1>9, <1>s DEF CurrentInv, CurrentOf

\* Nothing under way: n holds generation g of p or a later one, or has marked its
\* entry with g.
LEMMA AtRest ==
    ASSUME IsSettled, NEW ns, NEW q, ns = nodes, q = in_flight, NEW n \in Node, NEW p \in Node, ns[p] # Absent,
           NEW g \in Generation, Current(ns, q, {}, n, p, g)
    PROVE  LET v == ns[n].engine.views[p] IN v # NoView /\ (Le(g, v.gen) \/ v.pending = g)
<1>1. q = <<>> /\ ns[p].scheduled = <<>> /\ ns[p].engine.feed = NoGen BY DEF IsSettled
<1>2. ToSet(q) = {} /\ ToSet(ns[p].scheduled) = {} /\ DOMAIN q = {} BY <1>1, EmptyList
<1>3. ~Newest(q, p, n, g) BY <1>2 DEF Newest
<1>4. \A a, b, d : ~OnWay(ToSet(q), {}, a, b, d) BY <1>2 DEF OnWay
<1>5. ns[p].engine.feed # g BY <1>1, NoGenAssumption
<1> QED BY <1>2, <1>3, <1>4, <1>5 DEF Current, Aware, Informed, Noted

\* The entry of p that n holds shows what p showed in its generation.
LEMMA EntryShows ==
    ASSUME Lawful, NEW h, NEW ns \in NodeMaps, NEW lv, Truthful(h, ns, lv), NEW n \in Node, NEW p \in Node, n # p,
           ns[n] # Absent, ns[p] # Absent, NEW g, Reached(ns, lv, p, g), ns[n].engine.views[p] # NoView,
           Le(g, ns[n].engine.views[p].gen)
    PROVE  LET v == ns[n].engine.views[p] IN
           v.gen \in Generation /\ Le(v.gen, ns[p].engine.gen) /\ v.value = h[p][v.gen]
<1> DEFINE v == ns[n].engine.views[p]
<1>1. v \in Entry /\ v.gen \in Generation /\ Le(v.gen, ns[p].engine.gen) BY EntryNoLater
<1>2. EntryHolds(h, ns, lv, p, v) BY DEF Truthful, NodeHolds
<1>3. g \in Generation /\ g.inc >= 1 BY DEF Reached
<1>4. v.gen # Zero
  <2>1. Zero.inc = 0 /\ Zero \in Generation BY DEF Zero, NewGeneration, Generation
  <2>2. v.gen.inc >= g.inc BY <1>1, <1>3 DEF Le, Lt, Generation
  <2>3. v.gen.inc \in Nat /\ g.inc \in Nat BY <1>1, <1>3 DEF Generation
  <2> QED BY <1>3, <2>1, <2>2, <2>3
<1> QED BY <1>1, <1>2, <1>4 DEF EntryHolds

\* The entry a node keeps of itself.
LEMMA OwnShows ==
    ASSUME Typed, NEW ns \in NodeMaps, NEW n \in Node, ns[n] # Absent
    PROVE  LET v == ns[n].engine.views[n]
               e == ns[n].engine
           IN  v # NoView /\ v.gen = e.gen /\ v.value = Project(e.value)
<1>1. PICK e, v : e = ns[n].engine /\ v = ns[n].engine.views[n] OBVIOUS
<1>2. e \in Engines /\ e.id = n /\ e.gen \in Generation BY <1>1, NodeTyped DEF Engines, EngineRecords
<1>3. v = OwnEntry(e.gen, Project(e.value)) BY <1>1, <1>2 DEF Engines, OwnsEntry
<1>4. Project(e.value) \in View BY <1>2 DEF Typed, DataTyped, Engines, EngineRecords
<1>5. v \in Entry BY <1>2, <1>3, <1>4 DEF OwnEntry, Entry, OptGeneration
<1> QED BY <1>1, <1>3, <1>5, NoViewAssumption DEF OwnEntry

\* Nothing under way: whoever missed nothing has the latest, or knows that it has
\* not.
LEMMA CurrentAtRest ==
    ASSUME Typed, Lawful, TypeInv, CurrentInv PROVE SettledIsCurrent
<1> SUFFICES ASSUME IsSettled, NEW n \in Node, NEW p \in Node, nodes[n] # Absent, nodes[p] # Absent,
                    <<n, p>> \notin excused, p \notin withheld
             PROVE  LET entry == nodes[n].engine.views[p]
                        owner == nodes[p].engine
                    IN  /\ entry # NoView
                        /\ \/ entry.gen = owner.gen /\ entry.value = Project(owner.value)
                           \/ entry.pending # NoGen
  BY DEF SettledIsCurrent
<1>1. PICK ns, lv, q, v, e : ns = nodes /\ lv = lives /\ q = in_flight /\ v = nodes[n].engine.views[p] /\ e = nodes[p].engine
  OBVIOUS
<1>2. PICK h : BaseHolds(h) /\ CurrentOf(h) BY DEF CurrentInv
<1>3. ns \in NodeMaps /\ Truthful(h, ns, lv) BY <1>1, <1>2 DEF BaseHolds, TypeInv, NodesTyped
<1>4. CASE n = p BY <1>1, <1>3, <1>4, OwnShows
<1>5. CASE n # p
  <2>1. Follows(h, ns, lv, q, withheld, n, p) BY <1>1, <1>2, <1>5 DEF CurrentOf, CurrentHolds
  <2>2. PICK g \in Generation : g = e.gen /\ Kept(h, ns, lv, p, g) /\ Current(ns, q, {}, n, p, g)
    BY <1>1, <2>1 DEF Follows
  <2>3. v # NoView /\ (Le(g, v.gen) \/ v.pending = g) BY <1>1, <2>2, AtRest
  <2>4. CASE v.pending = g BY <1>1, <2>3, <2>4, NoGenAssumption
  <2>5. CASE Le(g, v.gen)
    <3>1. Reached(ns, lv, p, g) BY <2>2 DEF Kept
    <3>a. /\ ns[n].engine.views[p] # NoView /\ ns[n] # Absent /\ ns[p] # Absent
          /\ Le(g, ns[n].engine.views[p].gen)
      BY <1>1, <2>3, <2>5
    <3>b. LET u == ns[n].engine.views[p] IN
          u.gen \in Generation /\ Le(u.gen, ns[p].engine.gen) /\ u.value = h[p][u.gen]
      BY <1>3, <1>5, <3>1, <3>a, EntryShows
    <3>2. v.gen \in Generation /\ Le(v.gen, e.gen) /\ v.value = h[p][v.gen] BY <1>1, <3>b
    <3>3. v.gen = e.gen BY <2>2, <2>5, <3>2, LeBothWays
    <3>4. h[p][e.gen] = Project(e.value) BY <1>1, <1>3 DEF Truthful, NodeHolds
    <3> QED BY <1>1, <2>3, <3>2, <3>3, <3>4
  <2> QED BY <2>3, <2>4, <2>5
<1> QED BY <1>4, <1>5

\* A settled cluster: whoever missed nothing of a peer has its latest, with the
\* value that goes with it, or has marked its entry as behind (mutate, tick,
\* handle_delta_update, mark_stale).
THEOREM SettledCurrent ==
    ASSUME Typed, Lawful PROVE Spec => []SettledIsCurrent
<1>1. Init => TypeInv /\ CurrentInv BY InitTyped, InitCurrent DEF Typed
<1>2. TypeInv /\ CurrentInv /\ [Next]_vars => (TypeInv /\ CurrentInv)' BY StepTyped, StepCurrent DEF Typed
<1>3. TypeInv /\ CurrentInv => SettledIsCurrent BY CurrentAtRest
<1> QED BY <1>1, <1>2, <1>3, PTL DEF Spec

-----------------------------------------------------------------------------
(* The application (dstate/examples/node_resource.rs).                     *)

\* The running average of CPU samples is a fraction.
LEMMA AverageType ==
    ASSUME NEW s \in NodeResourceState, NEW pct \in Nat
    PROVE  Average(s, pct) \in Fraction
BY DEF Average, Percent, Fraction, NodeResourceState

\* The mutators of NodeResourceState keep it well formed, and so do the
\* projection to a view and to a delta.
LEMMA ResourceTypes ==
    ASSUME NEW s \in NodeResourceState, NEW c \in NodeResourceChange
    PROVE  /\ ApplyResourceChange(s, c) \in NodeResourceState
           /\ ProjectView(s) \in NodeResourceView
           /\ ProjectDelta(s, c) \in NodeResourceDelta
<1>1. CASE c.kind = "CpuSample"
    <2>1. c.pct \in Nat
        BY <1>1 DEF NodeResourceChange
    <2>2. Average(s, c.pct) \in Fraction
        BY <2>1, AverageType
    <2>3. ApplyResourceChange(s, c) \in NodeResourceState
        <3>1. ApplyResourceChange(s, c) =
                  [s EXCEPT !.samples = s.samples + 1,
                            !.accumulated = s.accumulated + c.pct,
                            !.cpu = Average(s, c.pct)]
            BY <1>1 DEF ApplyResourceChange
        <3>2. s.samples + 1 \in Nat /\ s.accumulated + c.pct \in Nat
            BY <2>1 DEF NodeResourceState
        <3> QED BY <3>1, <3>2, <2>2 DEF NodeResourceState
    <2>4. ProjectView(s) \in NodeResourceView
        BY DEF ProjectView, NodeResourceState, NodeResourceView
    <2>5. ProjectDelta(s, c) \in NodeResourceDelta
        BY <1>1, <2>2 DEF ProjectDelta, NoChange, NodeResourceDelta
    <2> QED BY <2>3, <2>4, <2>5
<1>2. CASE c.kind = "MemoryUpdate"
    <2>1. c.used \in Nat /\ c.total \in Nat
        BY <1>2 DEF NodeResourceChange
    <2> QED BY <1>2, <2>1 DEF ApplyResourceChange, ProjectView, ProjectDelta,
            NoChange, NodeResourceState, NodeResourceView, NodeResourceDelta
<1>3. CASE c.kind = "DiskUpdate"
    <2>1. c.used \in Nat /\ c.total \in Nat
        BY <1>3 DEF NodeResourceChange
    <2> QED BY <1>3, <2>1 DEF ApplyResourceChange, ProjectView, ProjectDelta,
            NoChange, NodeResourceState, NodeResourceView, NodeResourceDelta
<1> QED BY <1>1, <1>2, <1>3 DEF NodeResourceChange

\* So are the default state and view, and a view stays well formed under any
\* delta.
LEMMA ResourceDefaults ==
    /\ DefaultState \in NodeResourceState
    /\ DefaultResourceView \in NodeResourceView
    /\ \A v \in NodeResourceView, d \in NodeResourceDelta : ApplyResourceDelta(v, d) \in NodeResourceView
<1>1. NoLoad \in Fraction BY DEF NoLoad, Percent, Fraction
<1>2. DefaultState \in NodeResourceState
    BY <1>1, ResourceAssumption DEF DefaultState, NodeResourceState
<1>3. DefaultResourceView \in NodeResourceView
    BY <1>1, ResourceAssumption DEF DefaultResourceView, NodeResourceView
<1>4. ASSUME NEW v \in NodeResourceView, NEW d \in NodeResourceDelta
      PROVE  ApplyResourceDelta(v, d) \in NodeResourceView
    <2>1. UnwrapOr(d.cpu, v.cpu) \in Fraction
        BY DEF UnwrapOr, NodeResourceView, NodeResourceDelta
    <2>2. /\ UnwrapOr(d.memUsed, v.memUsed) \in Nat /\ UnwrapOr(d.memTotal, v.memTotal) \in Nat
          /\ UnwrapOr(d.diskUsed, v.diskUsed) \in Nat /\ UnwrapOr(d.diskTotal, v.diskTotal) \in Nat
        BY DEF UnwrapOr, NodeResourceView, NodeResourceDelta
    <2> QED BY <2>1, <2>2 DEF ApplyResourceDelta, NodeResourceView
<1> QED BY <1>2, <1>3, <1>4

\* The obligation of DeltaDistributedState, met by the example for every
\* state and change: apply_delta of project_delta is project_view of the new
\* state.
THEOREM ResourceDeltaLaw ==
    \A s \in NodeResourceState, c \in NodeResourceChange :
        ApplyResourceDelta(ProjectView(s), ProjectDelta(s, c))
            = ProjectView(ApplyResourceChange(s, c))
<1> SUFFICES ASSUME NEW s \in NodeResourceState, NEW c \in NodeResourceChange
             PROVE  ApplyResourceDelta(ProjectView(s), ProjectDelta(s, c))
                        = ProjectView(ApplyResourceChange(s, c))
    OBVIOUS
<1> USE DEF ApplyResourceDelta, ProjectView, ProjectDelta, ApplyResourceChange,
            UnwrapOr, NoChange
<1>1. CASE c.kind = "CpuSample"
    <2>1. c.pct \in Nat
        BY <1>1 DEF NodeResourceChange
    <2>2. Average(s, c.pct) # Unchanged
        BY <2>1, AverageType, ResourceAssumption DEF Fraction
    <2> QED BY <1>1, <2>2 DEF NodeResourceState
<1>2. CASE c.kind = "MemoryUpdate"
    <2>1. c.used # Unchanged /\ c.total # Unchanged
        BY <1>2, ResourceAssumption DEF NodeResourceChange
    <2> QED BY <1>2, <2>1 DEF NodeResourceState
<1>3. CASE c.kind = "DiskUpdate"
    <2>1. c.used # Unchanged /\ c.total # Unchanged
        BY <1>3, ResourceAssumption DEF NodeResourceChange
    <2> QED BY <1>3, <2>1 DEF NodeResourceState
<1> QED BY <1>1, <1>2, <1>3 DEF NodeResourceChange

\* sync_urgency holds back only a change of CPU load below its threshold, so
\* a suppressed change never alters what find_lowest_memory_node compares.
THEOREM SuppressedIsJitter ==
    \A s \in NodeResourceState, c \in NodeResourceChange :
        LET old == ProjectView(s)
            new == ProjectView(ApplyResourceChange(s, c))
        IN  SyncUrgencyOf(old, new, c) = "Suppress" =>
                /\ new.memUsed = old.memUsed /\ new.memTotal = old.memTotal
                /\ new.diskUsed = old.diskUsed /\ new.diskTotal = old.diskTotal
                /\ Within(new.cpu, old.cpu, CpuSuppressThreshold)
<1> SUFFICES ASSUME NEW s \in NodeResourceState, NEW c \in NodeResourceChange
             PROVE  LET old == ProjectView(s)
                        new == ProjectView(ApplyResourceChange(s, c))
                    IN  SyncUrgencyOf(old, new, c) = "Suppress" =>
                          /\ new.memUsed = old.memUsed
                          /\ new.memTotal = old.memTotal
                          /\ new.diskUsed = old.diskUsed
                          /\ new.diskTotal = old.diskTotal
                          /\ Within(new.cpu, old.cpu, CpuSuppressThreshold)
    OBVIOUS
<1> DEFINE old == ProjectView(s)
           new == ProjectView(ApplyResourceChange(s, c))
<1>1. c.kind \in {"CpuSample", "MemoryUpdate", "DiskUpdate"}
    BY DEF NodeResourceChange
<1>2. ASSUME SyncUrgencyOf(old, new, c) = "Suppress"
      PROVE  c.kind = "CpuSample" /\ Within(new.cpu, old.cpu, CpuSuppressThreshold)
    <2> HIDE DEF old, new
    <2> QED BY <1>1, <1>2 DEF SyncUrgencyOf
<1>3. ASSUME c.kind = "CpuSample"
      PROVE  /\ new.memUsed = old.memUsed /\ new.memTotal = old.memTotal
             /\ new.diskUsed = old.diskUsed /\ new.diskTotal = old.diskTotal
    BY <1>3 DEF ApplyResourceChange, ProjectView, NodeResourceState
<1> QED BY <1>2, <1>3


\* The cluster runs the example application.
RunsNodeResource ==
    /\ State = NodeResourceState /\ View = NodeResourceView /\ Delta = NodeResourceDelta
    /\ Change \subseteq NodeResourceChange
    /\ InitState = DefaultState /\ DefaultView = DefaultResourceView
    /\ \A s \in State : Project(s) = ProjectView(s)
    /\ \A s \in State, c \in Change :
          ApplyChange(s, c) = ApplyResourceChange(s, c) /\ ViewDelta(s, c) = ProjectDelta(s, c)
    /\ \A v \in View, d \in Delta : ApplyDelta(v, d) = ApplyResourceDelta(v, d)

\* Its hosts give a change the urgency sync_urgency returns, and a change of the
\* disk any.
FollowsSyncUrgency ==
    \A s \in State, c \in Change :
        \/ c.kind = "DiskUpdate"
        \/ UrgencyOf(s, c) \subseteq {SyncUrgencyOf(ProjectView(s), ProjectView(ApplyResourceChange(s, c)), c)}

\* The example meets what the cluster asks of an application.
LEMMA ResourceRuns ==
    ASSUME RunsNodeResource PROVE DataTyped /\ Lawful
<1>1. /\ InitState \in State /\ DefaultView \in View
      /\ \A v \in View, d \in Delta : ApplyDelta(v, d) \in View
  BY ResourceDefaults DEF RunsNodeResource
<1>2. ASSUME NEW s \in State, NEW c \in Change
      PROVE  /\ ApplyChange(s, c) \in State /\ ViewDelta(s, c) \in Delta
             /\ ApplyDelta(Project(s), ViewDelta(s, c)) = Project(ApplyChange(s, c))
  <2>1. s \in NodeResourceState /\ c \in NodeResourceChange BY DEF RunsNodeResource
  <2>2. PICK t, d, v : t = ApplyResourceChange(s, c) /\ d = ProjectDelta(s, c) /\ v = ProjectView(s) OBVIOUS
  <2>3. t \in NodeResourceState /\ d \in NodeResourceDelta /\ v \in NodeResourceView BY <2>1, <2>2, ResourceTypes
  <2>4. ApplyResourceDelta(v, d) = ProjectView(t) BY <2>1, <2>2, ResourceDeltaLaw
  <2> QED BY <2>2, <2>3, <2>4 DEF RunsNodeResource
<1>3. ASSUME NEW s \in State PROVE Project(s) \in View
  <2>1. ProjectView(s) \in NodeResourceView
    BY DEF RunsNodeResource, ProjectView, NodeResourceState, NodeResourceView
  <2> QED BY <2>1 DEF RunsNodeResource
<1> QED BY <1>1, <1>2, <1>3 DEF DataTyped, Lawful

\* What is held back is CPU jitter or a change of the disk, as long as changes of
\* default urgency are pushed or announced.
LEMMA ResourceHeldBack ==
    ASSUME RunsNodeResource, FollowsSyncUrgency, PushMode # "None" PROVE HeldBackKeepsMemory
<1> SUFFICES ASSUME NEW s \in State, NEW c \in Change, NEW u \in SyncUrgency, u \in UrgencyOf(s, c),
                    ResolveAction(u) \in {"Suppress", "ScheduleDelayed"}
             PROVE  Alike(Project(ApplyChange(s, c)), Project(s))
  BY DEF HeldBackKeepsMemory
<1>1. s \in NodeResourceState /\ c \in NodeResourceChange BY DEF RunsNodeResource
<1>2. PICK t : t = ApplyResourceChange(s, c) OBVIOUS
<1>3. t \in NodeResourceState BY <1>1, <1>2, ResourceTypes
<1>4. Project(ApplyChange(s, c)) = ProjectView(t) /\ Project(s) = ProjectView(s)
  BY <1>2, <1>3 DEF RunsNodeResource
<1>5. CASE c.kind = "DiskUpdate"
  <2>1. t.memUsed = s.memUsed BY <1>1, <1>2, <1>5 DEF ApplyResourceChange, NodeResourceState
  <2> QED BY <1>4, <2>1 DEF Alike, ProjectView
<1>6. CASE c.kind # "DiskUpdate"
  <2>1. u = SyncUrgencyOf(ProjectView(s), ProjectView(t), c) BY <1>2, <1>6 DEF FollowsSyncUrgency
  <2>2. u \in {"Default", "Immediate", "Suppress"}
    <3>1. c.kind \in {"CpuSample", "MemoryUpdate"} BY <1>1, <1>6 DEF NodeResourceChange
    <3> QED BY <2>1, <3>1 DEF SyncUrgencyOf
  <2>3. u = "Suppress" BY <2>2, StrategyAssumption DEF ResolveAction, BroadcastAction
  <2>4. ProjectView(t).memUsed = ProjectView(s).memUsed BY <1>1, <1>2, <2>1, <2>3, SuppressedIsJitter
  <2> QED BY <1>4, <2>4 DEF Alike
<1> QED BY <1>5, <1>6

\* An entry of a generation since which p showed no other memory shows the memory
\* it uses.
LEMMA MemorySeen ==
    ASSUME Lawful, HeldBackKeepsMemory, NEW h, NEW ns \in NodeMaps, NEW lv, Truthful(h, ns, lv),
           NEW n \in Node, NEW p \in Node, n # p, ns[n] # Absent, ns[p] # Absent, NEW g, Kept(h, ns, lv, p, g),
           ns[n].engine.views[p] # NoView, Le(g, ns[n].engine.views[p].gen)
    PROVE  Alike(ns[n].engine.views[p].value, Project(ns[p].engine.value))
<1>1. Reached(ns, lv, p, g) /\ g \in Generation BY DEF Kept, Reached
<1>2. LET w == ns[n].engine.views[p] IN
      w.gen \in Generation /\ Le(w.gen, ns[p].engine.gen) /\ w.value = h[p][w.gen]
  BY <1>1, EntryShows
<1>3. PICK e, v : e = ns[p].engine /\ v = ns[n].engine.views[p] OBVIOUS
<1>4. v.gen \in Generation /\ Le(v.gen, e.gen) /\ v.value = h[p][v.gen] BY <1>2, <1>3
<1>5. Alike(h[p][v.gen], h[p][e.gen]) BY <1>3, <1>4 DEF Kept
<1>6. h[p][e.gen] = Project(e.value) BY <1>3 DEF Truthful, NodeHolds
<1> QED BY <1>3, <1>4, <1>5, <1>6

\* Nothing under way: a node that missed nothing and has nothing to pull sees of
\* every other the memory it uses.
LEMMA PlacementAtRest ==
    ASSUME Typed, Lawful, RunsNodeResource, HeldBackKeepsMemory, TypeInv, CurrentInv PROVE PlacementIsRight
<1> DEFINE present == {p \in Node : nodes[p] # Absent}
           held(n) == [p \in {n} \cup KnownPeers(n, nodes[n].engine.views) |-> nodes[n].engine.views[p].value]
           true == [p \in present |-> nodes[p].engine.value]
<1> SUFFICES ASSUME IsSettled, NEW n \in Node, nodes[n] # Absent, DOMAIN held(n) \subseteq present,
                    \A p \in present : <<n, p>> \notin excused /\ nodes[n].engine.views[p].pending = NoGen
             PROVE  LowestMemoryNodes(held(n)) \subseteq LowestMemoryNodes(true)
  BY DEF PlacementIsRight
<1>1. PICK ns, lv, q, Y : ns = nodes /\ lv = lives /\ q = in_flight /\ Y = withheld OBVIOUS
<1>2. PICK h : BaseHolds(h) /\ CurrentOf(h) BY DEF CurrentInv
<1>3. ns \in NodeMaps /\ Truthful(h, ns, lv) BY <1>1, <1>2 DEF BaseHolds, TypeInv, NodesTyped
<1>4. ASSUME NEW p \in Node, ns[p] # Absent
      PROVE  ns[n].engine.views[p] # NoView /\ ns[n].engine.views[p].value.memUsed = ns[p].engine.value.memUsed
  <2>1. PICK e, v : e = ns[p].engine /\ v = ns[n].engine.views[p] OBVIOUS
  <2>2. e \in Engines /\ e.gen \in Generation /\ e.value \in State
    BY <1>3, <1>4, <2>1, NodeTyped DEF Engines, EngineRecords
  <2>3. Project(e.value).memUsed = e.value.memUsed BY <2>2 DEF RunsNodeResource, ProjectView
  <2>4. CASE p = n BY <1>1, <1>3, <2>1, <2>3, <2>4, OwnShows
  <2>5. CASE p # n
    <3>1. <<n, p>> \notin excused /\ v.pending = NoGen /\ ns[n] # Absent BY <1>1, <1>4, <2>1
    <3>2. Follows(h, ns, lv, q, Y, n, p) BY <1>1, <1>2, <1>4, <2>5, <3>1 DEF CurrentOf, CurrentHolds
    <3>3. PICK g \in Generation : Kept(h, ns, lv, p, g) /\ Current(ns, q, {}, n, p, g) BY <3>2 DEF Follows
    <3>4. v # NoView /\ (Le(g, v.gen) \/ v.pending = g) BY <1>1, <1>4, <2>1, <3>3, AtRest
    <3>5. Le(g, v.gen) BY <3>1, <3>4, NoGenAssumption
    <3>6. /\ n # p /\ ns[n] # Absent /\ ns[p] # Absent
          /\ ns[n].engine.views[p] # NoView /\ Le(g, ns[n].engine.views[p].gen)
      BY <1>4, <2>1, <2>5, <3>1, <3>4, <3>5
    <3>7. Alike(ns[n].engine.views[p].value, Project(ns[p].engine.value)) BY <1>3, <3>3, <3>6, MemorySeen
    <3> QED BY <2>1, <2>3, <3>4, <3>7 DEF Alike
  <2> QED BY <2>4, <2>5
<1>5. ns[n].engine \in Engines BY <1>1, <1>3, NodeTyped
<1>6. DOMAIN ns[n].engine.views = Node BY <1>5 DEF Engines, EngineRecords
<1>7. present \subseteq DOMAIN held(n)
  <2> SUFFICES ASSUME NEW p \in present, p # n PROVE p \in KnownPeers(n, nodes[n].engine.views) OBVIOUS
  <2>1. ns[n].engine.views[p] # NoView BY <1>1, <1>4
  <2> QED BY <1>1, <1>6, <2>1 DEF KnownPeers
<1>8. \A p \in present : held(n)[p].memUsed = true[p].memUsed BY <1>1, <1>4, <1>7
<1>9. DOMAIN held(n) = present /\ DOMAIN true = present BY <1>7
<1> HIDE DEF present, held, true
<1> QED BY <1>8, <1>9 DEF LowestMemoryNodes

\* The application's promise on the cluster: once it has settled, a node that lost
\* nothing and has nothing to pull picks, with find_lowest_memory_node, a node that
\* really uses the least memory, in every strategy but the one that pushes nothing.
THEOREM PlacementRight ==
    ASSUME RunsNodeResource, FollowsSyncUrgency, PushMode # "None", AbsentIsNoNode, GarbageIsNoBody
    PROVE  Spec => []PlacementIsRight
<1>0. Typed /\ Lawful /\ HeldBackKeepsMemory BY ResourceRuns, ResourceHeldBack DEF Typed
<1>1. Init => TypeInv /\ CurrentInv BY <1>0, InitTyped, InitCurrent DEF Typed
<1>2. TypeInv /\ CurrentInv /\ [Next]_vars => (TypeInv /\ CurrentInv)' BY <1>0, StepTyped, StepCurrent DEF Typed
<1>3. TypeInv /\ CurrentInv => PlacementIsRight BY <1>0, PlacementAtRest
<1> QED BY <1>1, <1>2, <1>3, PTL DEF Spec

=============================================================================
