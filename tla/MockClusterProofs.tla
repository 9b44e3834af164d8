------------------------- MODULE MockClusterProofs --------------------------
(****************************************************************************)
(* The cluster of dstate-integration for every set of nodes, every          *)
(* application data type, every pipeline of interceptors, every timing and  *)
(* every sequence of calls a test may make.  Of flipped bits those count    *)
(* that a receiver can notice (BitFlipped).                                 *)
(*                                                                          *)
(* What a fold, a broadcast or a pipeline does is proved by induction over  *)
(* the list (FoldProofs); every step is then unfolded once (TickTaken,      *)
(* MutationTaken), and the invariants are shown to survive it.              *)
(*                                                                          *)
(* The last of them, BaseInv, is what SettledProofs starts from: whatever   *)
(* is stored, under way or waiting for a timer is what its owner showed in  *)
(* a generation it has reached.                                             *)
(****************************************************************************)
EXTENDS MockCluster, GenerationsProofs, FiniteSetTheorems, TLAPS

-----------------------------------------------------------------------------
(* Lists.                                                                  *)

\* One interceptor, applied to all that the ones before it may have made of a
\* message.
PipeStep(from, to, fates, i) == UNION {Intercept(i, from, to, f) : f \in fates}

Pipe == INSTANCE FoldProofs WITH Op <- PipeStep

\* Induction over the naturals, for a set of them.
LEMMA SetInduction ==
    ASSUME NEW S \in SUBSET Nat, 0 \in S, \A n \in S : n + 1 \in S
    PROVE  \A n \in Nat : n \in S
BY Pipe!SetInduction

\* The elements of a list, joined to another.
LEMMA JoinedLists ==
    ASSUME NEW T, NEW s \in Seq(T), NEW t \in Seq(T)
    PROVE  s \o t \in Seq(T) /\ ToSet(s \o t) = ToSet(s) \cup ToSet(t)
<1>1. s \o t \in Seq(T) OBVIOUS
<1>2. /\ DOMAIN s = 1 .. Len(s) /\ DOMAIN t = 1 .. Len(t)
      /\ Len(s) \in Nat /\ Len(t) \in Nat
      /\ DOMAIN (s \o t) = 1 .. Len(s) + Len(t) OBVIOUS
<1>3. \A k \in 1 .. Len(s) : k \in DOMAIN (s \o t) /\ (s \o t)[k] = s[k] BY <1>2
<1>4. \A k \in 1 .. Len(t) : Len(s) + k \in DOMAIN (s \o t) /\ (s \o t)[Len(s) + k] = t[k] BY <1>2
<1>5. \A k \in DOMAIN (s \o t) : k \in 1 .. Len(s) \/ (k - Len(s) \in 1 .. Len(t) /\ k = Len(s) + (k - Len(s))) BY <1>2
<1>6. ToSet(s \o t) \subseteq ToSet(s) \cup ToSet(t)
  <2> SUFFICES ASSUME NEW k \in DOMAIN (s \o t) PROVE (s \o t)[k] \in ToSet(s) \cup ToSet(t)
     BY DEF ToSet
  <2>1. CASE k \in 1 .. Len(s) BY <2>1, <1>3, <1>2 DEF ToSet
  <2>2. CASE k - Len(s) \in 1 .. Len(t) /\ k = Len(s) + (k - Len(s))
     <3>1. PICK j \in 1 .. Len(t) : k = Len(s) + j BY <2>2
     <3> QED BY <3>1, <1>4, <1>2 DEF ToSet
  <2> QED BY <2>1, <2>2, <1>5
<1>7. ToSet(s) \subseteq ToSet(s \o t) BY <1>3, <1>2 DEF ToSet
<1>8. ToSet(t) \subseteq ToSet(s \o t) BY <1>4, <1>2 DEF ToSet
<1> QED BY <1>1, <1>6, <1>7, <1>8

\* The elements of a list with one more at its end (add_interceptor, a timer
\* that is set).
LEMMA AppendedList ==
    ASSUME NEW T, NEW s \in Seq(T), NEW x \in T
    PROVE  Append(s, x) \in Seq(T) /\ ToSet(Append(s, x)) = ToSet(s) \cup {x}
<1>1. /\ DOMAIN s = 1 .. Len(s) /\ Len(s) \in Nat
      /\ DOMAIN Append(s, x) = 1 .. Len(s) + 1 /\ Append(s, x) \in Seq(T) OBVIOUS
<1>2. /\ \A k \in 1 .. Len(s) : Append(s, x)[k] = s[k]
      /\ Append(s, x)[Len(s) + 1] = x OBVIOUS
<1>3. \A k \in 1 .. Len(s) + 1 : k \in 1 .. Len(s) \/ k = Len(s) + 1 BY <1>1
<1>4. \A k \in 1 .. Len(s) : k \in 1 .. Len(s) + 1 BY <1>1
<1>5. Len(s) + 1 \in 1 .. Len(s) + 1 BY <1>1
<1> QED BY <1>1, <1>2, <1>3, <1>4, <1>5 DEF ToSet

\* The empty list has no elements.
LEMMA EmptyList == ToSet(<<>>) = {} BY DEF ToSet

\* Only(list, S) is what a pass over the list collects.
LEMMA OnlyRuns == ASSUME NEW T, NEW list \in Seq(T), NEW S
   PROVE \E only : /\ only[0] = <<>>
                   /\ \A k \in 1 .. Len(list) : only[k] = IF list[k] \in S THEN Append(only[k - 1], list[k]) ELSE only[k - 1]
                   /\ Only(list, S) = only[Len(list)]
<1> DEFINE n == Len(list)
          Next1(a, k) ==  IF list[k] \in S THEN Append(a, list[k]) ELSE a
          Fits(f, m) == f = [k \in 0 .. m |-> IF k = 0 THEN <<>> ELSE Next1(f[k - 1], k)]
          W == {m \in Nat : \E f : Fits(f, m)}
<1>0. n \in Nat OBVIOUS
<1> HIDE DEF n
<1>1. \A m \in Nat : m \in W
  <2>1. 0 \in W
    <3>1. Fits([k \in 0 .. 0 |-> <<>>], 0) OBVIOUS
    <3> QED BY <3>1
  <2>2. ASSUME NEW m \in W PROVE m + 1 \in W
    <3>1. m \in Nat OBVIOUS
    <3>2. PICK f : Fits(f, m) OBVIOUS
    <3> DEFINE g == [k \in 0 .. m + 1 |-> IF k = m + 1 THEN Next1(f[m], m + 1) ELSE f[k]]
    <3> HIDE DEF Next1
    <3>3. ASSUME NEW k \in 0 .. m + 1 PROVE g[k] = IF k = 0 THEN <<>> ELSE Next1(g[k - 1], k)
      <4>1. CASE k = m + 1
        <5>1. g[k] = Next1(f[m], m + 1) /\ g[m] = f[m] BY <4>1, <3>1
        <5> QED BY <5>1, <4>1, <3>1
      <4>2. CASE k # m + 1 /\ k # 0
        <5>1. k \in 0 .. m /\ k - 1 \in 0 .. m BY <4>2, <3>1
        <5>2. g[k] = f[k] /\ g[k - 1] = f[k - 1] BY <5>1, <3>1, <4>2
        <5>3. f[k] = Next1(f[k - 1], k) BY <3>2, <5>1, <4>2
        <5> QED BY <5>2, <5>3, <4>2
      <4>3. CASE k # m + 1 /\ k = 0
        <5>1. k \in 0 .. m BY <4>3, <3>1
        <5>2. g[k] = f[k] BY <5>1, <3>1, <4>3
        <5> QED BY <5>2, <3>2, <5>1, <4>3
      <4> QED BY <4>1, <4>2, <4>3
    <3>4. g = [k \in 0 .. m + 1 |-> g[k]] OBVIOUS
    <3> HIDE DEF g
    <3>5. Fits(g, m + 1) BY <3>3, <3>4
    <3> QED BY <3>5, <3>1
  <2>3. W \in SUBSET Nat OBVIOUS
  <2> HIDE DEF W
  <2> QED BY <2>1, <2>2, <2>3, SetInduction
<1> DEFINE only == CHOOSE f : Fits(f, n)
<1>2. Fits(only, n) BY <1>0, <1>1
<1>3. Only(list, S) = only[n] BY DEF Only, n
<1> HIDE DEF only
<1>4. only[0] = <<>> BY <1>2, <1>0
<1>5. ASSUME NEW k \in 1 .. n PROVE only[k] = Next1(only[k - 1], k)
  <2>1. k \in 0 .. n /\ k # 0 BY <1>0
  <2> HIDE DEF Next1
  <2> QED BY <2>1, <1>2
<1> QED BY <1>3, <1>4, <1>5 DEF n

\* Only(list, S) has the elements of the list that are in S (retain, partition).
LEMMA OnlyOf ==
    ASSUME NEW T, NEW list \in Seq(T), NEW S
    PROVE  Only(list, S) \in Seq(T) /\ ToSet(Only(list, S)) = ToSet(list) \cap S
<1>1. PICK only : /\ only[0] = <<>>
                  /\ \A k \in 1 .. Len(list) : only[k] = IF list[k] \in S THEN Append(only[k - 1], list[k]) ELSE only[k - 1]
                  /\ Only(list, S) = only[Len(list)]
    BY OnlyRuns
<1>0. Len(list) \in Nat /\ DOMAIN list = 1 .. Len(list) OBVIOUS
<1> DEFINE P(k) == /\ only[k] \in Seq(T)
                   /\ ToSet(only[k]) = {list[i] : i \in 1 .. k} \cap S
           W == {k \in Nat : k <= Len(list) => P(k)}
<1>2. 0 \in W
  <2>1. {list[i] : i \in 1 .. 0} = {}
    <3>1. 1 .. 0 = {} OBVIOUS
    <3> QED BY <3>1
  <2>2. <<>> \in Seq(T) OBVIOUS
  <2>3. P(0) BY <1>1, <2>1, <2>2, EmptyList
  <2> QED BY <2>3
<1>3. ASSUME NEW k \in W PROVE k + 1 \in W
  <2> SUFFICES ASSUME k + 1 <= Len(list) PROVE P(k + 1) OBVIOUS
  <2>1. k \in Nat /\ P(k) /\ k + 1 \in 1 .. Len(list) /\ (k + 1) - 1 = k BY <1>0
  <2>2. only[k + 1] = IF list[k + 1] \in S THEN Append(only[k], list[k + 1]) ELSE only[k] BY <1>1, <2>1
  <2>3. list[k + 1] \in T BY <2>1
  <2>4. {list[i] : i \in 1 .. k + 1} = {list[i] : i \in 1 .. k} \cup {list[k + 1]}
    <3>1. 1 .. k + 1 = (1 .. k) \cup {k + 1} BY <2>1
    <3> QED BY <3>1
  <2> HIDE DEF W
  <2>5. CASE list[k + 1] \in S BY <2>1, <2>2, <2>3, <2>4, <2>5, AppendedList
  <2>6. CASE list[k + 1] \notin S BY <2>1, <2>2, <2>3, <2>4, <2>6
  <2> QED BY <2>5, <2>6
<1>4. W \in SUBSET Nat OBVIOUS
<1>5. \A k \in Nat : k \in W
  <2> HIDE DEF W
  <2> QED BY <1>2, <1>3, <1>4, SetInduction
<1>6. P(Len(list))
  <2>1. Len(list) \in W BY <1>5, <1>0
  <2>2. Len(list) <= Len(list) BY <1>0
  <2> QED BY <2>1, <2>2
<1>7. ToSet(list) = {list[i] : i \in 1 .. Len(list)} BY <1>0 DEF ToSet
<1> QED BY <1>1, <1>6, <1>7

\* FlattenSeq joins the lists one after the other.
LEMMA FlattenRuns ==
    ASSUME NEW seqs, NEW n \in Nat, n # 0, DOMAIN seqs = 1 .. n, Len(seqs) = n
    PROVE  \E run : /\ run[1] = seqs[1]
                    /\ \A k \in 2 .. n : run[k] = run[k - 1] \o seqs[k]
                    /\ FlattenSeq(seqs) = run[n]
<1> DEFINE Fits(f, m) == f = [i \in 1 .. m |-> IF i = 1 THEN seqs[i] ELSE f[i - 1] \o seqs[i]]
          W == {m \in Nat : \E f : Fits(f, m)}
<1>1. \A m \in Nat : m \in W
  <2>1. 0 \in W
    <3>0. 1 .. 0 = {} OBVIOUS
    <3>1. Fits([k \in 1 .. 0 |-> <<>>], 0) BY <3>0
    <3> QED BY <3>1
  <2>2. ASSUME NEW m \in W PROVE m + 1 \in W
    <3>1. m \in Nat OBVIOUS
    <3>2. PICK f : Fits(f, m) OBVIOUS
    <3> DEFINE Grown(h, k) == h[k - 1] \o seqs[k]
               g == [k \in 1 .. m + 1 |-> IF k = 1 THEN seqs[k] ELSE IF k = m + 1 THEN Grown(f, k) ELSE f[k]]
    <3>3. ASSUME NEW k \in 1 .. m + 1 PROVE g[k] = IF k = 1 THEN seqs[k] ELSE g[k - 1] \o seqs[k]
      <4>1. CASE k = 1 BY <4>1
      <4>2. CASE k # 1
        <5>1. k - 1 \in 1 .. m /\ k - 1 # m + 1 /\ k - 1 \in 1 .. m + 1 BY <4>2, <3>1
        <5>2. g[k - 1] = f[k - 1]
          <6>1. f[k - 1] = IF k - 1 = 1 THEN seqs[k - 1] ELSE f[(k - 1) - 1] \o seqs[k - 1] BY <3>2, <5>1
          <6> QED BY <6>1, <5>1
        <5>3. CASE k = m + 1 BY <5>2, <5>3, <4>2
        <5>4. CASE k # m + 1
          <6>1. k \in 1 .. m BY <5>4, <3>1
          <6>2. f[k] = IF k = 1 THEN seqs[k] ELSE f[k - 1] \o seqs[k] BY <3>2, <6>1
          <6> QED BY <6>2, <5>2, <5>4, <4>2
        <5> QED BY <5>3, <5>4
      <4> QED BY <4>1, <4>2
    <3>4. g = [k \in 1 .. m + 1 |-> g[k]] OBVIOUS
    <3> HIDE DEF g
    <3>5. Fits(g, m + 1) BY <3>3, <3>4
    <3> HIDE DEF Fits
    <3>6. m + 1 \in Nat /\ \E h : Fits(h, m + 1) BY <3>5, <3>1
    <3> QED BY <3>6
  <2>3. W \in SUBSET Nat OBVIOUS
  <2> HIDE DEF W
  <2> QED BY <2>1, <2>2, <2>3, SetInduction
<1> DEFINE run == CHOOSE f : Fits(f, n)
<1>2. Fits(run, n) BY <1>1
<1>3. FlattenSeq(seqs) = run[n] BY DEF FlattenSeq
<1> HIDE DEF run
<1>4. 1 \in 1 .. n /\ \A k \in 2 .. n : k \in 1 .. n /\ k # 1 OBVIOUS
<1>5. run[1] = seqs[1] BY <1>2, <1>4
<1>6. ASSUME NEW k \in 2 .. n PROVE run[k] = run[k - 1] \o seqs[k] BY <1>2, <1>4
<1> QED BY <1>3, <1>5, <1>6

\* The messages of all the lists of a list.
LEMMA Flattened ==
    ASSUME NEW T, NEW seqs \in Seq(Seq(T))
    PROVE  /\ FlattenSeq(seqs) \in Seq(T)
           /\ \A x : x \in ToSet(FlattenSeq(seqs)) <=>
                        \E i \in DOMAIN seqs : x \in ToSet(seqs[i])
<1> DEFINE n == Len(seqs)
<1>0. n \in Nat /\ DOMAIN seqs = 1 .. n OBVIOUS
<1>1. CASE n = 0
  <2>1. seqs = <<>> /\ FlattenSeq(seqs) = <<>> BY <1>1 DEF FlattenSeq
  <2>2. DOMAIN seqs = {} BY <2>1
  <2>3. <<>> \in Seq(T) OBVIOUS
  <2>4. FlattenSeq(seqs) \in Seq(T) /\ ToSet(FlattenSeq(seqs)) = {}
    BY <2>1, <2>3, EmptyList
  <2> QED BY <2>2, <2>4
<1>2. CASE n # 0
  <2>1. PICK run : /\ run[1] = seqs[1]
                   /\ \A k \in 2 .. n : run[k] = run[k - 1] \o seqs[k]
                   /\ FlattenSeq(seqs) = run[n]
      BY <1>0, <1>2, FlattenRuns
  <2> HIDE DEF n
  <2> DEFINE P(k) == /\ run[k] \in Seq(T)
                     /\ \A x : x \in ToSet(run[k]) <=> \E i \in 1 .. k : x \in ToSet(seqs[i])
             W == {k \in Nat : k + 1 <= n => P(k + 1)}
  <2>2. 0 \in W
    <3>1. 1 \in DOMAIN seqs /\ \A i \in 1 .. 1 : i = 1 BY <1>0, <1>2
    <3>2. run[1] \in Seq(T) BY <3>1, <2>1
    <3>3. P(1) BY <3>1, <3>2, <2>1
    <3> QED BY <3>3
  <2>3. ASSUME NEW k \in W PROVE k + 1 \in W
    <3> DEFINE j == k + 1
    <3> SUFFICES ASSUME j + 1 <= n PROVE P(j + 1) OBVIOUS
    <3>1. k \in Nat /\ j \in Nat /\ j + 1 \in 2 .. n /\ (j + 1) - 1 = j /\ j <= n BY <1>0
    <3>2. P(j) BY <3>1
    <3> HIDE DEF j, W
    <3>3. run[j + 1] = run[j] \o seqs[j + 1] BY <2>1, <3>1
    <3>4. seqs[j + 1] \in Seq(T) BY <3>1, <1>0
    <3>5. \A i : i \in 1 .. j + 1 <=> i \in 1 .. j \/ i = j + 1 BY <3>1
    <3>6. run[j + 1] \in Seq(T) /\ ToSet(run[j + 1]) = ToSet(run[j]) \cup ToSet(seqs[j + 1]) BY <3>2, <3>3, <3>4, JoinedLists
    <3> QED BY <3>2, <3>5, <3>6
  <2>4. W \in SUBSET Nat OBVIOUS
  <2>5. n - 1 \in Nat /\ (n - 1) + 1 = n BY <1>0, <1>2
  <2>6. n - 1 \in W
    <3> HIDE DEF W
    <3> QED BY <2>2, <2>3, <2>4, <2>5, SetInduction
  <2>7. P(n)
    <3> HIDE DEF P
    <3>1. n <= n BY <1>0
    <3> QED BY <2>5, <2>6, <3>1
  <2> QED BY <2>1, <2>7, <1>0
<1> QED BY <1>1, <1>2

-----------------------------------------------------------------------------
(* Types. The data of the application is as typed as the traits of the     *)
(* code make it; nothing else is asked of it here.                         *)

DataTyped ==
    /\ InitState \in State
    /\ DefaultView \in View
    /\ \A s \in State : Project(s) \in View
    /\ \A s \in State, c \in Change :
          /\ ApplyChange(s, c) \in State
          /\ ViewDelta(s, c) \in Delta
    /\ \A v \in View, d \in Delta : ApplyDelta(v, d) \in View

Wires == WireVersion \cup {OtherWire}

Snapshots ==
    [type : {"FullSnapshot"}, src : Node, gen : Generation, wire : Wires,
     data : View \cup {Malformed}]
Deltas ==
    [type : {"DeltaUpdate"}, src : Node, gen : Generation, wire : Wires,
     data : Delta \cup {Malformed}]
Requests == [type : {"RequestSnapshot"}, src : Node]
FeedBatches == [type : {"Feed"}, src : Node, gen : Generation]

Bodies == Snapshots \cup Deltas \cup Requests \cup FeedBatches

Messages ==
    {m \in [from : Node, to : Node, body : Bodies] : m.body.src = m.from /\ m.from # m.to}

Frames ==
    {f \in [from : Node, to : Node, data : Bodies \cup {Garbage}, due : Nat] :
        f.from # f.to /\ (f.data # Garbage => f.data.src = f.from)}

\* What the bytes of a message may read as when it arrives.
Readings(b) ==
    {d \in Bodies \cup {Garbage} :
        d # Garbage =>
            /\ d.type = b.type /\ d.src = b.src
            /\ IsSync(b) => /\ d.gen = b.gen
                            /\ d.wire \in {b.wire, OtherWire}
                            /\ d.data \in {b.data, Malformed}
            /\ ~IsSync(b) => d = b}

Fates(b) ==
    [data : Readings(b), copies : Nat, held : BOOLEAN, ticks : 0 .. LongestHop - 1]

\* The maximum of a bounded, nonempty set of naturals is its greatest element.
LEMMA MaxOfBounded ==
    ASSUME NEW d \in Nat, NEW S \in SUBSET (0 .. d), S # {}
    PROVE  Max(S) \in S /\ \A y \in S : y <= Max(S)
<1> DEFINE P(k) == \A R \in SUBSET (0 .. k) : R # {} => \E x \in R : \A y \in R : x >= y
           W == {k \in Nat : P(k)}
<1>1. 0 \in W
  <2>1. 0 .. 0 = {0} OBVIOUS
  <2>2. ASSUME NEW R \in SUBSET (0 .. 0), R # {} PROVE \E x \in R : \A y \in R : x >= y
    <3>1. 0 \in R /\ \A y \in R : y = 0 BY <2>1, <2>2
    <3> QED BY <3>1
  <2> QED BY <2>2
<1>2. ASSUME NEW k \in W PROVE k + 1 \in W
  <2>1. k \in Nat /\ P(k) OBVIOUS
  <2>2. ASSUME NEW R \in SUBSET (0 .. k + 1), R # {}
        PROVE  \E x \in R : \A y \in R : x >= y
    <3>1. CASE k + 1 \in R BY <3>1, <2>1
    <3>2. CASE k + 1 \notin R
      <4>1. R \in SUBSET (0 .. k) BY <2>1, <3>2
      <4> QED BY <4>1, <2>1, <2>2
    <3> QED BY <3>1, <3>2
  <2> QED BY <2>1, <2>2
<1>3. W \in SUBSET Nat OBVIOUS
<1>4. d \in W
  <2> HIDE DEF W
  <2> QED BY <1>1, <1>2, <1>3, SetInduction
<1>5. \E x \in S : \A y \in S : x >= y BY <1>4
<1>6. Max(S) \in S /\ \A y \in S : Max(S) >= y BY <1>5 DEF Max
<1> QED BY <1>6

\* The greater of two numbers.
LEMMA MaxOfTwo ==
    ASSUME NEW a \in Nat, NEW b \in Nat
    PROVE  Max({a, b}) \in Nat /\ a <= Max({a, b}) /\ b <= Max({a, b})
           /\ Max({a, b}) \in {a, b}
<1>1. PICK d \in Nat : {a, b} \in SUBSET (0 .. d)
  <2>1. {a, b} \in SUBSET (0 .. a + b) OBVIOUS
  <2> QED BY <2>1
<1> QED BY <1>1, MaxOfBounded

\* No interceptor holds a message beyond the longest hop.
LEMMA BoundedHop ==
    /\ LongestHop \in Nat /\ LongestHop >= 1
    /\ \A i \in Interceptor : i.kind = "DelayTicks" => i.ticks \in 0 .. LongestHop - 1
<1> DEFINE D == {j \in Interceptor : j.kind = "DelayTicks"}
           S == {0} \cup {i.ticks : i \in D}
<1>1. PICK q \in Seq(Interceptor) : \A i \in Interceptor : \E k \in 1 .. Len(q) : q[k] = i
  BY InterceptorAssumption DEF IsFiniteSet
<1>2. Len(q) \in Nat /\ \A k \in 1 .. Len(q) : q[k] \in Interceptor OBVIOUS
<1> DEFINE Held(k) == IF q[k].kind = "DelayTicks" THEN q[k].ticks ELSE 0
           W == {k \in Nat : k <= Len(q) => \E d \in Nat : \A j \in 1 .. k : Held(j) <= d}
<1>3. \A k \in 1 .. Len(q) : Held(k) \in Nat BY <1>2, InterceptorAssumption
<1>4. \A k \in Nat : k \in W
  <2>1. 0 \in W
    <3>1. \A j \in 1 .. 0 : Held(j) <= 0 OBVIOUS
    <3> QED BY <3>1
  <2>2. ASSUME NEW k \in W PROVE k + 1 \in W
    <3> SUFFICES ASSUME k + 1 <= Len(q)
                 PROVE  \E d \in Nat : \A j \in 1 .. k + 1 : Held(j) <= d
        OBVIOUS
    <3>1. k \in Nat OBVIOUS
    <3>2. PICK d \in Nat : \A j \in 1 .. k : Held(j) <= d BY <1>2
    <3>3. k + 1 \in 1 .. Len(q) /\ \A j \in 1 .. k + 1 : j \in 1 .. Len(q) /\ (j \in 1 .. k \/ j = k + 1) BY <3>1, <1>2
    <3> HIDE DEF Held, W
    <3>4. Held(k + 1) \in Nat /\ \A j \in 1 .. k + 1 : Held(j) \in Nat BY <3>3, <1>3
    <3>5. d + Held(k + 1) \in Nat /\ \A j \in 1 .. k + 1 : Held(j) <= d + Held(k + 1) BY <3>2, <3>3, <3>4
    <3> QED BY <3>5
  <2>3. W \in SUBSET Nat OBVIOUS
  <2> HIDE DEF W
  <2> QED BY <2>1, <2>2, <2>3, SetInduction
<1>5. PICK d \in Nat : \A j \in 1 .. Len(q) : Held(j) <= d
  <2>1. Len(q) \in W
    <3> HIDE DEF W
    <3> QED BY <1>2, <1>4
  <2>2. Len(q) <= Len(q) BY <1>2
  <2> QED BY <2>1, <2>2
<1>6. S \in SUBSET (0 .. d)
  <2>1. ASSUME NEW i \in D PROVE i.ticks \in 0 .. d
    <3>1. PICK k \in 1 .. Len(q) : q[k] = i BY <1>1
    <3>2. Held(k) = i.ticks BY <3>1
    <3> QED BY <3>2, <1>5, <1>3
  <2> QED BY <2>1
<1>7. Max(S) \in Nat /\ \A y \in S : y <= Max(S)
  <2>1. S # {} OBVIOUS
  <2> HIDE DEF S
  <2>2. Max(S) \in S /\ \A y \in S : y <= Max(S) BY <2>1, <1>6, MaxOfBounded
  <2>3. Max(S) \in 0 .. d BY <2>2, <1>6
  <2> QED BY <2>2, <2>3
<1>8. LongestHop = 1 + Max(S) BY DEF LongestHop
<1>9. ASSUME NEW i \in D PROVE i.ticks \in 0 .. LongestHop - 1
  <2>1. i.ticks \in S /\ i.ticks \in Nat BY InterceptorAssumption
  <2> HIDE DEF S
  <2> QED BY <2>1, <1>7, <1>8
<1> QED
  <2> HIDE DEF S
  <2> QED BY <1>7, <1>8, <1>9

-----------------------------------------------------------------------------
(* The folds of the model, run step by step.                               *)

PipelineRun(pipeline, from, to, data, run) ==
    /\ run[0] = {Arriving(data)}
    /\ \A k \in 1 .. Len(pipeline) : run[k] = PipeStep(from, to, run[k - 1], pipeline[k])
    /\ ApplyInterceptors(pipeline, from, to, data) = run[Len(pipeline)]

\* apply_interceptors takes the message through the pipeline step by step.
LEMMA PipelineRuns ==
    ASSUME NEW T, NEW pipeline \in Seq(T), NEW from, NEW to, NEW data
    PROVE  \E run : PipelineRun(pipeline, from, to, data, run)
<1> DEFINE n == Len(pipeline)
<1>1. n \in Nat /\ DOMAIN pipeline = 1 .. n
    OBVIOUS
<1>2. ApplyInterceptors(pipeline, from, to, data) = Pipe!Folded(from, to, {Arriving(data)}, pipeline)
    BY DEF ApplyInterceptors, PipeStep, FoldLeft, MapThenFoldSet, Max, Pipe!Folded, Pipe!Iterate, Pipe!Top
<1> HIDE DEF n
<1>3. PICK run : /\ Pipe!IsRun(from, to, {Arriving(data)}, pipeline, run)
                 /\ run[n] = Pipe!Folded(from, to, {Arriving(data)}, pipeline)
    BY <1>1, Pipe!FoldLeftRuns
<1>4. /\ run[0] = {Arriving(data)}
      /\ \A k \in 1 .. n : run[k] = PipeStep(from, to, run[k - 1], pipeline[k])
    BY <1>1, <1>3 DEF Pipe!IsRun, PipeStep
<1>5. PipelineRun(pipeline, from, to, data, run)
    BY <1>2, <1>3, <1>4 DEF n, PipelineRun
<1> QED BY <1>5

\* The network after a message met its fate.
Sent(net, m, fate, news) ==
    [queue |-> net.queue \o Queued(m.from, m.to, fate),
     excused |-> Excuses(net, m, fate, news)]

SendStep(pipeline, news, nets, m) ==
    UNION {{Sent(x, m, fate, news) :
             fate \in ApplyInterceptors(pipeline, m.from, m.to, m.body)} : x \in nets}
Sending == INSTANCE FoldProofs WITH Op <- SendStep

SendAllRun(net, messages, news, run) ==
    /\ run[0] = {net}
    /\ \A k \in 1 .. Len(messages) : run[k] = SendStep(interceptors, news, run[k - 1], messages[k])
    /\ SendAll(net, messages, news) = run[Len(messages)]

\* Sending a list of messages is sending one after the other.
LEMMA SendAllRuns ==
    ASSUME NEW T, NEW messages \in Seq(T), NEW net, NEW news
    PROVE  \E run : SendAllRun(net, messages, news, run)
<1> DEFINE n == Len(messages)
<1>1. n \in Nat /\ DOMAIN messages = 1 .. n
    OBVIOUS
<1>2. SendAll(net, messages, news) = Sending!Folded(interceptors, news, {net}, messages)
    BY DEF SendAll, Send, SendStep, Sent, FoldLeft, MapThenFoldSet, Max, Sending!Folded, Sending!Iterate, Sending!Top
<1> HIDE DEF n
<1>3. PICK run : /\ Sending!IsRun(interceptors, news, {net}, messages, run)
                 /\ run[n] = Sending!Folded(interceptors, news, {net}, messages)
    BY <1>1, Sending!FoldLeftRuns
<1>4. /\ run[0] = {net}
      /\ \A k \in 1 .. n : run[k] = SendStep(interceptors, news, run[k - 1], messages[k])
    BY <1>1, <1>3 DEF Sending!IsRun, SendStep
<1>5. SendAllRun(net, messages, news, run)
    BY <1>2, <1>3, <1>4 DEF n, SendAllRun
<1> QED BY <1>5

HandleStep(c, d, acc, f) == Handle(acc, f)
Handling == INSTANCE FoldProofs WITH Op <- HandleStep

HandleRun(base, frames, run) ==
    /\ run[0] = base
    /\ \A k \in 1 .. Len(frames) : run[k] = Handle(run[k - 1], frames[k])
    /\ FoldLeft(Handle, base, frames) = run[Len(frames)]

\* Phase 1 of tick handles one delivered frame after the other.
LEMMA HandleRuns ==
    ASSUME NEW T, NEW frames \in Seq(T), NEW base
    PROVE  \E run : HandleRun(base, frames, run)
<1> DEFINE n == Len(frames)
<1>1. n \in Nat /\ DOMAIN frames = 1 .. n
    OBVIOUS
<1>2. FoldLeft(Handle, base, frames) = Handling!Folded(base, base, base, frames)
    BY DEF HandleStep, FoldLeft, MapThenFoldSet, Max, Handling!Folded, Handling!Iterate, Handling!Top
<1> HIDE DEF n
<1>3. PICK run : /\ Handling!IsRun(base, base, base, frames, run)
                 /\ run[n] = Handling!Folded(base, base, base, frames)
    BY <1>1, Handling!FoldLeftRuns
<1>4. /\ run[0] = base
      /\ \A k \in 1 .. n : run[k] = Handle(run[k - 1], frames[k])
    BY <1>1, <1>3 DEF Handling!IsRun, HandleStep
<1>5. HandleRun(base, frames, run)
    BY <1>2, <1>3, <1>4 DEF n, HandleRun
<1> QED BY <1>5

JoinStep(c, d, e, p) == OnNodeJoined(e, p)
Joining == INSTANCE FoldProofs WITH Op <- JoinStep

JoinRun(e, peers, run) ==
    /\ run[0] = e
    /\ \A k \in 1 .. Len(peers) : run[k] = OnNodeJoined(run[k - 1], peers[k])
    /\ FoldLeft(OnNodeJoined, e, peers) = run[Len(peers)]

\* add_node tells the newcomer of one node after the other.
LEMMA JoinRuns ==
    ASSUME NEW T, NEW peers \in Seq(T), NEW e
    PROVE  \E run : JoinRun(e, peers, run)
<1> DEFINE n == Len(peers)
<1>1. n \in Nat /\ DOMAIN peers = 1 .. n
    OBVIOUS
<1>2. FoldLeft(OnNodeJoined, e, peers) = Joining!Folded(e, e, e, peers)
    BY DEF JoinStep, FoldLeft, MapThenFoldSet, Max, Joining!Folded, Joining!Iterate, Joining!Top
<1> HIDE DEF n
<1>3. PICK run : /\ Joining!IsRun(e, e, e, peers, run)
                 /\ run[n] = Joining!Folded(e, e, e, peers)
    BY <1>1, Joining!FoldLeftRuns
<1>4. /\ run[0] = e
      /\ \A k \in 1 .. n : run[k] = OnNodeJoined(run[k - 1], peers[k])
    BY <1>1, <1>3 DEF Joining!IsRun, JoinStep
<1>5. JoinRun(e, peers, run)
    BY <1>2, <1>3, <1>4 DEF n, JoinRun
<1> QED BY <1>5

-----------------------------------------------------------------------------
(* The pipeline of interceptors.                                           *)

\* The kinds of bodies are told apart by their type, and by nothing else.
LEMMA BodyKinds ==
    \A b \in Bodies :
        /\ b.src \in Node
        /\ b.type \in {"FullSnapshot", "DeltaUpdate", "RequestSnapshot", "Feed"}
        /\ b.type = "FullSnapshot" <=> b \in Snapshots
        /\ b.type = "DeltaUpdate" <=> b \in Deltas
        /\ b.type = "RequestSnapshot" <=> b \in Requests
        /\ b.type = "Feed" <=> b \in FeedBatches
BY DEF Bodies, Snapshots, Deltas, Requests, FeedBatches

\* A message that no bit was flipped in reads as it was sent.
LEMMA ReadAsSent ==
    ASSUME NEW b \in Bodies
    PROVE  b \in Readings(b)
<1>1. CASE b.type = "FullSnapshot"
  BY <1>1, BodyKinds DEF Readings
<1>2. CASE b.type # "FullSnapshot"
  BY <1>2, BodyKinds DEF Readings
<1> QED BY <1>1, <1>2

\* Another flipped bit makes no new kind of reading.
LEMMA FlippedReading ==
    ASSUME NEW b \in Bodies, NEW d \in Readings(b), NEW x \in BitFlipped(d)
    PROVE  x \in Readings(b)
<1>1. CASE x = Garbage BY <1>1 DEF Readings
<1>2. CASE x # Garbage
  <2>1. IsSync(d) BY <1>2 DEF BitFlipped
  <2>2. d # Garbage /\ d \in Bodies BY <2>1 DEF IsSync, Readings
  <2>3. d.type = b.type /\ d.src = b.src BY <2>2 DEF Readings
  <2>4. x = [d EXCEPT !.wire = OtherWire] \/ x = [d EXCEPT !.data = Malformed]
    BY <1>2, <2>1 DEF BitFlipped
  <2>5. CASE d.type = "FullSnapshot"
    <3>1. d \in Snapshots BY <2>5, <2>2, BodyKinds
    <3>2. /\ x \in Snapshots /\ x.type = d.type /\ x.src = d.src /\ x.gen = d.gen
          /\ x.wire \in {d.wire, OtherWire} /\ x.data \in {d.data, Malformed}
        BY <3>1, <2>4 DEF Snapshots, Wires
    <3>3. b # Garbage => /\ d.gen = b.gen
             /\ d.wire \in {b.wire, OtherWire} /\ d.data \in {b.data, Malformed}
       BY <2>2, <2>3, <2>5 DEF Readings, IsSync
    <3>4. b = Garbage => d = b
       BY <2>2 DEF Readings, IsSync
    <3>5. x \in Bodies BY <3>2 DEF Bodies
    <3>6. CASE b # Garbage BY <3>2, <3>3, <3>5, <2>3, <2>5, <3>6 DEF Readings, IsSync
    <3>7. CASE b = Garbage BY <3>7, <3>4, <2>2
    <3> QED BY <3>6, <3>7
  <2>6. CASE d.type = "DeltaUpdate"
    <3>1. d \in Deltas BY <2>6, <2>2, BodyKinds
    <3>2. /\ x \in Deltas /\ x.type = d.type /\ x.src = d.src /\ x.gen = d.gen
          /\ x.wire \in {d.wire, OtherWire} /\ x.data \in {d.data, Malformed}
        BY <3>1, <2>4 DEF Deltas, Wires
    <3>3. b # Garbage => /\ d.gen = b.gen
             /\ d.wire \in {b.wire, OtherWire} /\ d.data \in {b.data, Malformed}
       BY <2>2, <2>3, <2>6 DEF Readings, IsSync
    <3>4. b = Garbage => d = b
       BY <2>2 DEF Readings, IsSync
    <3>5. x \in Bodies BY <3>2 DEF Bodies
    <3>6. CASE b # Garbage BY <3>2, <3>3, <3>5, <2>3, <2>6, <3>6 DEF Readings, IsSync
    <3>7. CASE b = Garbage BY <3>7, <3>4, <2>2
    <3> QED BY <3>6, <3>7
  <2> QED BY <2>5, <2>6, <2>1 DEF IsSync
<1> QED BY <1>1, <1>2

\* What one interceptor may do to a message.
LEMMA Intercepted ==
    ASSUME NEW b \in Bodies, NEW fate \in Fates(b), NEW i \in Interceptor,
           NEW from, NEW to, NEW x \in Intercept(i, from, to, fate)
    PROVE  x \in Fates(b)
<1>1. /\ fate.data \in Readings(b) /\ fate.copies \in Nat /\ fate.held \in BOOLEAN
      /\ fate.ticks \in 0 .. LongestHop - 1 BY DEF Fates
<1>2. Dropped(fate) \in Fates(b) BY DEF Dropped, Fates
<1>3. CASE fate.held \/ i.kind = "PassThrough" BY <1>3 DEF Intercept
<1>4. CASE ~fate.held /\ i.kind = "DropAll" BY <1>4, <1>2 DEF Intercept
<1>5. CASE ~fate.held /\ i.kind = "DropRate" BY <1>5, <1>2 DEF Intercept
<1>6. CASE ~fate.held /\ i.kind = "Partition" BY <1>6, <1>2 DEF Intercept
<1>7. CASE ~fate.held /\ i.kind = "DelayTicks"
  <2>1. x = [fate EXCEPT !.held = TRUE, !.ticks = i.ticks] BY <1>7 DEF Intercept
  <2>2. i.ticks \in 0 .. LongestHop - 1 BY <1>7, BoundedHop
  <2> QED BY <2>1, <2>2 DEF Fates
<1>8. CASE ~fate.held /\ i.kind = "DuplicateAll"
  <2>1. x = [fate EXCEPT !.copies = 2 * fate.copies] BY <1>8 DEF Intercept
  <2>2. 2 * fate.copies \in Nat BY <1>1
  <2> QED BY <2>1, <2>2 DEF Fates
<1>9. CASE ~fate.held /\ i.kind = "CorruptBytes"
  <2>1. x \in {[fate EXCEPT !.data = d] : d \in BitFlipped(fate.data)} BY <1>9 DEF Intercept
  <2>2. PICK d \in BitFlipped(fate.data) : x = [fate EXCEPT !.data = d] BY <2>1
  <2>3. d \in Readings(b) BY <1>1, FlippedReading
  <2> QED BY <2>2, <2>3 DEF Fates
<1> QED BY <1>3, <1>4, <1>5, <1>6, <1>7, <1>8, <1>9, InterceptorAssumption

\* What a pipeline of any length and order may make of a message.
LEMMA PipelineFates ==
    ASSUME NEW b \in Bodies, NEW pipeline \in Seq(Interceptor), NEW from, NEW to
    PROVE  ApplyInterceptors(pipeline, from, to, b) \subseteq Fates(b)
<1>r. PICK run : PipelineRun(pipeline, from, to, b, run)
  BY PipelineRuns
<1>1. /\ run[0] = {Arriving(b)}
      /\ \A k \in 1 .. Len(pipeline) :
            run[k] = PipeStep(from, to, run[k - 1], pipeline[k])
      /\ ApplyInterceptors(pipeline, from, to, b) = run[Len(pipeline)]
  BY <1>r DEF PipelineRun
<1>0. Len(pipeline) \in Nat /\ \A k \in 1 .. Len(pipeline) : pipeline[k] \in Interceptor OBVIOUS
<1> DEFINE W == {k \in Nat : k <= Len(pipeline) => run[k] \subseteq Fates(b)}
<1>2. 0 \in W
  <2>1. Arriving(b) \in Fates(b) BY ReadAsSent, BoundedHop DEF Arriving, Fates
  <2> QED BY <2>1, <1>1
<1>3. ASSUME NEW k \in W PROVE k + 1 \in W
  <2> SUFFICES ASSUME k + 1 <= Len(pipeline) PROVE run[k + 1] \subseteq Fates(b) OBVIOUS
  <2>1. /\ k \in Nat /\ k + 1 \in 1 .. Len(pipeline) /\ (k + 1) - 1 = k
        /\ run[k] \subseteq Fates(b) BY <1>0
  <2>2. run[k + 1] = PipeStep(from, to, run[k], pipeline[k + 1]) BY <1>1, <2>1
  <2> HIDE DEF W
  <2> SUFFICES ASSUME NEW x \in run[k + 1] PROVE x \in Fates(b) OBVIOUS
  <2>3. PICK fate \in run[k] : x \in Intercept(pipeline[k + 1], from, to, fate)
    BY <2>2 DEF PipeStep
  <2> QED BY <2>1, <2>3, <1>0, Intercepted
<1>4. W \in SUBSET Nat OBVIOUS
<1>5. Len(pipeline) \in W
  <2> HIDE DEF W
  <2> QED BY <1>0, <1>2, <1>3, <1>4, SetInduction
<1> QED BY <1>0, <1>1, <1>5

-----------------------------------------------------------------------------
(* Sending.                                                                *)

Networks == [queue : Seq(Frames), excused : SUBSET (Node \X Node)]

Carries(f, m) ==
    /\ f.from = m.from /\ f.to = m.to
    /\ f.data \in Readings(m.body)
    /\ f.due \in 1 .. LongestHop

\* What a list of sends may add to the queue.
Grown(net, messages, x) ==
    /\ x \in Networks
    /\ ToSet(net.queue) \subseteq ToSet(x.queue)
    /\ \A f \in ToSet(x.queue) :
          f \in ToSet(net.queue) \/ \E m \in ToSet(messages) : Carries(f, m)

\* The copies of one message in the queue (send_bytes).
LEMMA QueuedFrames ==
    ASSUME NEW m \in Messages, NEW fate \in Fates(m.body)
    PROVE  /\ Queued(m.from, m.to, fate) \in Seq(Frames)
           /\ \A f \in ToSet(Queued(m.from, m.to, fate)) : Carries(f, m)
<1> DEFINE f == Frame(m.from, m.to, fate.data, 1 + fate.ticks)
<1>0. /\ m.from \in Node /\ m.to \in Node /\ m.body \in Bodies
      /\ m.body.src = m.from /\ m.from # m.to /\ fate.copies \in Nat
      /\ fate.data \in Readings(m.body) /\ fate.ticks \in 0 .. LongestHop - 1
  BY DEF Messages, Fates
<1>1. 1 + fate.ticks \in 1 .. LongestHop BY <1>0, BoundedHop
<1>2. /\ f.from = m.from /\ f.to = m.to /\ f.data = fate.data /\ f.due = 1 + fate.ticks
  BY DEF Frame
<1>3. Carries(f, m) BY <1>0, <1>1, <1>2 DEF Carries
<1>4. f \in Frames
  <2>1. fate.data \in Bodies \cup {Garbage} /\ (fate.data # Garbage => fate.data.src = m.from)
    BY <1>0 DEF Readings
  <2> QED BY <1>0, <1>1, <2>1 DEF Frames, Frame
<1> HIDE DEF f
<1>5. Queued(m.from, m.to, fate) = [k \in 1 .. fate.copies |-> f] BY DEF Queued, f
<1>6. [k \in 1 .. fate.copies |-> f] \in Seq(Frames) BY <1>0, <1>4
<1>7. \A g \in ToSet([k \in 1 .. fate.copies |-> f]) : g = f BY DEF ToSet
<1> QED BY <1>3, <1>5, <1>6, <1>7

\* One message sent: its copies join the queue.
LEMMA SentGrows ==
    ASSUME NEW net \in Networks, NEW m \in Messages, NEW news \in BOOLEAN,
           NEW pipeline \in Seq(Interceptor),
           NEW fate \in ApplyInterceptors(pipeline, m.from, m.to, m.body)
    PROVE  /\ Sent(net, m, fate, news) \in Networks
           /\ ToSet(Sent(net, m, fate, news).queue) = ToSet(net.queue) \cup ToSet(Queued(m.from, m.to, fate))
           /\ \A f \in ToSet(Queued(m.from, m.to, fate)) : Carries(f, m)
<1>1. m.body \in Bodies /\ m.from \in Node /\ m.to \in Node BY DEF Messages
<1>2. fate \in Fates(m.body) BY <1>1, PipelineFates
<1>3. net.queue \in Seq(Frames) /\ net.excused \in SUBSET (Node \X Node) BY DEF Networks
<1>4. Concerns(m) \in Node \X Node BY <1>1 DEF Concerns
<1>5. Excuses(net, m, fate, news) \in SUBSET (Node \X Node) BY <1>3, <1>4 DEF Excuses
<1> DEFINE q == Queued(m.from, m.to, fate)
           x == Sent(net, m, fate, news)
<1>6. q \in Seq(Frames) /\ \A f \in ToSet(q) : Carries(f, m) BY <1>2, QueuedFrames
<1> HIDE DEF q
<1>7. net.queue \o q \in Seq(Frames) /\ ToSet(net.queue \o q) = ToSet(net.queue) \cup ToSet(q)
  BY <1>3, <1>6, JoinedLists
<1>8. x.queue = net.queue \o q /\ x.excused = Excuses(net, m, fate, news) BY DEF q, Sent
<1>9. x \in Networks BY <1>5, <1>7 DEF Networks, q, Sent
<1> QED BY <1>6, <1>7, <1>8, <1>9 DEF q

\* A list of messages sent: the queue keeps what it has, and all that joins it is
\* some reading of one of the messages, at most the longest hop away.
LEMMA SendAllGrows ==
    ASSUME interceptors \in Seq(Interceptor),
           NEW net \in Networks, NEW messages \in Seq(Messages), NEW news \in BOOLEAN,
           NEW x \in SendAll(net, messages, news)
    PROVE  Grown(net, messages, x)
<1>r. PICK run : SendAllRun(net, messages, news, run) BY SendAllRuns
<1>1. /\ run[0] = {net}
      /\ \A k \in 1 .. Len(messages) :
            run[k] = SendStep(interceptors, news, run[k - 1], messages[k])
      /\ SendAll(net, messages, news) = run[Len(messages)]
  BY <1>r DEF SendAllRun
<1>0. /\ Len(messages) \in Nat /\ DOMAIN messages = 1 .. Len(messages)
      /\ \A k \in 1 .. Len(messages) : messages[k] \in Messages
      /\ \A k \in 1 .. Len(messages) : messages[k] \in ToSet(messages)
  BY DEF ToSet
<1> DEFINE P(k) == \A y \in run[k] : Grown(net, messages, y)
           W == {k \in Nat : k <= Len(messages) => P(k)}
<1>2. 0 \in W
  <2>1. Grown(net, messages, net) BY DEF Grown
  <2> QED BY <2>1, <1>1
<1>3. ASSUME NEW k \in W PROVE k + 1 \in W
  <2> SUFFICES ASSUME k + 1 <= Len(messages) PROVE P(k + 1) OBVIOUS
  <2>1. /\ k \in Nat /\ k + 1 \in 1 .. Len(messages) /\ (k + 1) - 1 = k
        /\ P(k) BY <1>0
  <2> DEFINE m == messages[k + 1]
  <2>2. run[k + 1] = SendStep(interceptors, news, run[k], m) BY <1>1, <2>1
  <2>3. m \in Messages /\ m \in ToSet(messages) BY <1>0, <2>1
  <2> HIDE DEF W, m
  <2> SUFFICES ASSUME NEW y \in run[k + 1] PROVE Grown(net, messages, y) OBVIOUS
  <2>4. PICK z \in run[k] : y \in {Sent(z, m, fate, news) :
             fate \in ApplyInterceptors(interceptors, m.from, m.to, m.body)}
    BY <2>2 DEF SendStep
  <2>5. PICK fate \in ApplyInterceptors(interceptors, m.from, m.to, m.body) :
           y = Sent(z, m, fate, news)
    BY <2>4
  <2>6. Grown(net, messages, z) BY <2>1, <2>4
  <2>7. z \in Networks BY <2>6 DEF Grown
  <2>8. /\ y \in Networks
        /\ ToSet(y.queue) = ToSet(z.queue) \cup ToSet(Queued(m.from, m.to, fate))
        /\ \A f \in ToSet(Queued(m.from, m.to, fate)) : Carries(f, m)
    BY <2>3, <2>5, <2>7, SentGrows
  <2> QED BY <2>3, <2>6, <2>8 DEF Grown
<1>4. W \in SUBSET Nat OBVIOUS
<1>5. Len(messages) \in W
  <2> HIDE DEF W
  <2> QED BY <1>0, <1>2, <1>3, <1>4, SetInduction
<1> QED BY <1>0, <1>1, <1>5

-----------------------------------------------------------------------------
(* The engine's values.                                                    *)

Records == UNION {[D -> PeerDiagnostics] : D \in SUBSET Node}

OwnsEntry(e) == e.views[e.id] = OwnEntry(e.gen, Project(e.value))

EngineRecords ==
    [id : Node, gen : Generation, value : State, views : [Node -> OptEntry],
     departed : SUBSET Node, feed : OptGeneration, diag : Records]

Engines == {e \in EngineRecords : OwnsEntry(e)}

\* The counters of the diagnostics stay in their type.
LEMMA RecordsStored ==
    ASSUME NEW r \in Records, NEW p \in Node
    PROVE  /\ DiagnosticsOf(r, p) \in PeerDiagnostics
           /\ \A x \in PeerDiagnostics : Store(r, p, x) \in Records
           /\ RecordSyncSuccess(r, p) \in Records
           /\ RecordSyncFailure(r, p) \in Records
           /\ RecordGapDetected(r, p) \in Records
           /\ RemovePeer(r, p) \in Records
<1>1. PICK D \in SUBSET Node : r \in [D -> PeerDiagnostics] BY DEF Records
<1>2. DiagnosticsOf(r, p) \in PeerDiagnostics
  BY <1>1 DEF DiagnosticsOf, DefaultDiagnostics, PeerDiagnostics
<1>3. \A x \in PeerDiagnostics : Store(r, p, x) \in Records
  <2> TAKE x \in PeerDiagnostics
  <2>1. Store(r, p, x) \in [D \cup {p} -> PeerDiagnostics] BY <1>1 DEF Store
  <2>2. D \cup {p} \in SUBSET Node OBVIOUS
  <2> QED BY <2>1, <2>2 DEF Records
<1> DEFINE x == DiagnosticsOf(r, p)
<1>4. /\ [x EXCEPT !.failures = 0] \in PeerDiagnostics
      /\ [x EXCEPT !.failures = x.failures + 1] \in PeerDiagnostics
      /\ [x EXCEPT !.gaps = x.gaps + 1] \in PeerDiagnostics
  BY <1>2 DEF PeerDiagnostics
<1>5. RemovePeer(r, p) \in Records
  <2>1. RemovePeer(r, p) \in [D \ {p} -> PeerDiagnostics] BY <1>1 DEF RemovePeer
  <2>2. D \ {p} \in SUBSET Node OBVIOUS
  <2> QED BY <2>1, <2>2 DEF Records
<1> QED BY <1>2, <1>3, <1>4, <1>5 DEF RecordSyncSuccess, RecordSyncFailure, RecordGapDetected

\* The three ways an inbound message changes an engine keep its type.
LEMMA EngineUpdates ==
    ASSUME NEW e \in Engines, NEW p \in Node, p # e.id
    PROVE  /\ \A v \in OptEntry : [e EXCEPT !.views[p] = v] \in Engines
           /\ \A r \in Records : [e EXCEPT !.diag = r] \in Engines
           /\ \A D \in SUBSET Node : [e EXCEPT !.departed = D] \in Engines
           /\ \A f \in OptGeneration : [e EXCEPT !.feed = f] \in Engines
<1>1. e \in EngineRecords /\ e.views \in [Node -> OptEntry] BY DEF Engines, EngineRecords
<1>2. ASSUME NEW v \in OptEntry PROVE [e EXCEPT !.views[p] = v] \in Engines
  <2> DEFINE x == [e EXCEPT !.views[p] = v]
  <2>1. x = [e EXCEPT !.views = [e.views EXCEPT ![p] = v]] BY <1>1 DEF EngineRecords
  <2>2. [e.views EXCEPT ![p] = v] \in [Node -> OptEntry] BY <1>1
  <2>3. x \in EngineRecords BY <1>1, <2>1, <2>2 DEF EngineRecords
  <2>4. x.views = [e.views EXCEPT ![p] = v] /\ x.id = e.id /\ x.gen = e.gen /\ x.value = e.value
    BY <1>1, <2>1 DEF EngineRecords
  <2>5. x.views[e.id] = e.views[e.id] BY <2>4, <1>1 DEF EngineRecords
  <2> QED BY <2>3, <2>4, <2>5 DEF Engines, OwnsEntry
<1>3. ASSUME NEW r \in Records PROVE [e EXCEPT !.diag = r] \in Engines
  BY DEF Engines, EngineRecords, OwnsEntry
<1>4. ASSUME NEW D \in SUBSET Node PROVE [e EXCEPT !.departed = D] \in Engines
  BY DEF Engines, EngineRecords, OwnsEntry
<1>5. ASSUME NEW f \in OptGeneration PROVE [e EXCEPT !.feed = f] \in Engines
  BY DEF Engines, EngineRecords, OwnsEntry
<1> QED BY <1>2, <1>3, <1>4, <1>5

-----------------------------------------------------------------------------
(* What a message of a peer leaves alone.                                  *)

\* What a message of p leaves alone at an engine.
Undisturbed(e, x, p) ==
    /\ x \in Engines
    /\ x.id = e.id /\ x.gen = e.gen /\ x.value = e.value
    /\ x.departed = e.departed /\ x.feed = e.feed
    /\ \A q \in Node \ {p} : /\ x.views[q] = e.views[q]
                             /\ DiagnosticsOf(x.diag, q) = DiagnosticsOf(e.diag, q)

\* Writing the entry of p disturbs nothing else.
LEMMA ViewWritten ==
    ASSUME NEW e \in Engines, NEW p \in Node, p # e.id, NEW v \in OptEntry
    PROVE  /\ Undisturbed(e, [e EXCEPT !.views[p] = v], p)
           /\ [e EXCEPT !.views[p] = v].views[p] = v
           /\ [e EXCEPT !.views[p] = v].diag = e.diag
<1>1. e \in EngineRecords /\ e.views \in [Node -> OptEntry] BY DEF Engines, EngineRecords
<1> DEFINE x == [e EXCEPT !.views[p] = v]
<1>2. x.views = [e.views EXCEPT ![p] = v] /\ x.id = e.id /\ x.gen = e.gen /\ x.value = e.value
      /\ x.departed = e.departed /\ x.feed = e.feed /\ x.diag = e.diag
    BY <1>1 DEF EngineRecords
<1>3. x \in Engines BY EngineUpdates
<1> HIDE DEF x
<1>4. Undisturbed(e, x, p) BY <1>1, <1>2, <1>3 DEF Undisturbed
<1>5. x.views[p] = v BY <1>1, <1>2
<1> QED BY <1>2, <1>4, <1>5 DEF x

\* Counters stored for p are not those of another peer.
LEMMA StoredOnly ==
    ASSUME NEW r, NEW p, NEW q, q # p, NEW y
    PROVE  DiagnosticsOf(Store(r, p, y), q) = DiagnosticsOf(r, q)
BY DEF DiagnosticsOf, Store

\* Storing counters for p disturbs nothing else.
LEMMA DiagWritten ==
    ASSUME NEW e \in Engines, NEW p \in Node, p # e.id, NEW y \in PeerDiagnostics,
           NEW x, x = [e EXCEPT !.diag = Store(e.diag, p, y)]
    PROVE  Undisturbed(e, x, p) /\ x.views = e.views
           /\ x.diag = Store(e.diag, p, y)
<1>1. e \in EngineRecords /\ e.diag \in Records BY DEF Engines, EngineRecords
<1>2. Store(e.diag, p, y) \in Records BY <1>1, RecordsStored
<1>3. x \in Engines BY <1>2, EngineUpdates
<1>4. x.views = e.views /\ x.id = e.id /\ x.gen = e.gen /\ x.value = e.value
      /\ x.departed = e.departed /\ x.feed = e.feed /\ x.diag = Store(e.diag, p, y)
    BY <1>1 DEF EngineRecords
<1>5. \A q \in Node \ {p} : DiagnosticsOf(x.diag, q) = DiagnosticsOf(e.diag, q) BY <1>4, StoredOnly
<1> QED BY <1>3, <1>4, <1>5 DEF Undisturbed

GapSeen(e, p) == [e EXCEPT !.diag = RecordGapDetected(@, p)]

\* record_sync_failure, record_sync_success and record_gap_detected touch the
\* counters of p alone, and a success clears its failures.
LEMMA Recorded ==
    ASSUME NEW e \in Engines, NEW p \in Node, p # e.id
    PROVE  /\ Undisturbed(e, Failed(e, p), p) /\ Failed(e, p).views = e.views
           /\ Undisturbed(e, Succeeded(e, p), p) /\ Succeeded(e, p).views = e.views
           /\ DiagnosticsOf(Succeeded(e, p).diag, p).failures = 0
           /\ Undisturbed(e, GapSeen(e, p), p)
           /\ GapSeen(e, p).views = e.views
<1> DEFINE d == DiagnosticsOf(e.diag, p)
<1>1. d \in PeerDiagnostics BY RecordsStored DEF Engines, EngineRecords
<1>2. /\ [d EXCEPT !.failures = 0] \in PeerDiagnostics
      /\ [d EXCEPT !.failures = d.failures + 1] \in PeerDiagnostics
      /\ [d EXCEPT !.gaps = d.gaps + 1] \in PeerDiagnostics
      /\ [d EXCEPT !.failures = 0].failures = 0
  BY <1>1 DEF PeerDiagnostics
<1>3. Failed(e, p) = [e EXCEPT !.diag = Store(e.diag, p, [d EXCEPT !.failures = d.failures + 1])]
  BY DEF Failed, RecordSyncFailure
<1>4. Succeeded(e, p) = [e EXCEPT !.diag = Store(e.diag, p, [d EXCEPT !.failures = 0])]
  BY DEF Succeeded, RecordSyncSuccess
<1>5. GapSeen(e, p) = [e EXCEPT !.diag = Store(e.diag, p, [d EXCEPT !.gaps = d.gaps + 1])]
  BY DEF RecordGapDetected, GapSeen
<1> HIDE DEF d
<1>6. \A r, y : DiagnosticsOf(Store(r, p, y), p) = y BY DEF DiagnosticsOf, Store
<1>7. Undisturbed(e, Failed(e, p), p) /\ Failed(e, p).views = e.views BY <1>2, <1>3, DiagWritten
<1>8. /\ Undisturbed(e, Succeeded(e, p), p) /\ Succeeded(e, p).views = e.views
      /\ Succeeded(e, p).diag = Store(e.diag, p, [d EXCEPT !.failures = 0])
   BY <1>2, <1>4, DiagWritten
<1>9. /\ Undisturbed(e, GapSeen(e, p), p)
      /\ GapSeen(e, p).views = e.views BY <1>2, <1>5, DiagWritten
<1>10. DiagnosticsOf(Succeeded(e, p).diag, p).failures = 0
  <2>1. DiagnosticsOf(Succeeded(e, p).diag, p) = [d EXCEPT !.failures = 0]
    BY <1>6, <1>8, Zenon
  <2> QED BY <1>2, <2>1
<1> QED BY <1>7, <1>8, <1>9, <1>10

\* Two changes that concern p alone are one.
LEMMA UndisturbedTwice ==
    ASSUME NEW e, NEW x, NEW y, NEW p, Undisturbed(e, x, p), Undisturbed(x, y, p)
    PROVE  Undisturbed(e, y, p)
BY DEF Undisturbed

\* No change disturbs nothing.
LEMMA UndisturbedSame ==
    ASSUME NEW e \in Engines, NEW p PROVE Undisturbed(e, e, p)
BY DEF Undisturbed

\* DropView removes the entry of p and disturbs nothing else.
LEMMA ViewDropped ==
    ASSUME NEW e \in Engines, NEW p \in Node, p # e.id
    PROVE  Undisturbed(e, ViewRemoved(e, p), p) /\ ViewRemoved(e, p).views[p] = NoView
BY ViewWritten DEF ViewRemoved, OptEntry

-----------------------------------------------------------------------------
(* Inbound messages.                                                       *)

\* What is written into a view map is an entry.
LEMMA EntriesWritten ==
    ASSUME NEW entry \in OptEntry, NEW g \in Generation, NEW v \in View
    PROVE  /\ AcceptSnapshot(entry, g, v) \in OptEntry
           /\ AcceptDelta(entry, g, v) \in OptEntry
           /\ MarkStale(entry, g) \in OptEntry
           /\ InsertPlaceholder(entry, v) \in OptEntry
<1>1. KeptPending(entry, g) \in OptGeneration
  BY DEF KeptPending, OptEntry, Entry, OptGeneration
<1>2. Updated(entry, g, v) \in Entry BY <1>1 DEF Updated, Entry
<1>3. MarkStale(entry, g) \in OptEntry
  BY DEF MarkStale, OptEntry, Entry, OptGeneration
<1>4. Placeholder(v) \in Entry
  BY DEF Placeholder, Zero, PlaceholderPending, NewGeneration, Entry, Generation, OptGeneration
<1> QED BY <1>2, <1>3, <1>4 DEF AcceptSnapshot, AcceptDelta, InsertPlaceholder, OptEntry

\* handle_full_snapshot touches what it knows of the sender alone.
LEMMA SnapshotHandled ==
    ASSUME NEW e \in Engines, NEW b \in Snapshots, b.src # e.id
    PROVE  Undisturbed(e, AfterFullSnapshot(e, b), b.src)
<1> DEFINE p == b.src
           verdict == OnInbound(Wire, b.wire, b.data # Malformed)
<1>0. p \in Node /\ b.gen \in Generation /\ b.data \in View \cup {Malformed}
      /\ e.views[p] \in OptEntry BY DEF Snapshots, Engines, EngineRecords
<1>1. verdict \in {"KeepStale", "DropView", "MalformedData", "Ok"}
      /\ (verdict = "Ok" => b.data # Malformed)
  BY DEF OnInbound, OnDeserializeError
<1>2. AfterFullSnapshot(e, b) =
    CASE verdict = "Ok" /\ SnapshotAccepted(e.views[b.src], b.gen) ->
            Succeeded([e EXCEPT !.views[p] = AcceptSnapshot(e.views[p], b.gen, b.data)], p)
      [] verdict = "Ok" /\ ~SnapshotAccepted(e.views[b.src], b.gen) -> e
      [] verdict = "DropView" -> Failed(ViewRemoved(e, b.src), b.src)
      [] verdict \in {"KeepStale", "MalformedData"} -> Failed(e, b.src)
  BY DEF AfterFullSnapshot
<1> HIDE DEF verdict
<1>3. CASE verdict = "Ok" /\ SnapshotAccepted(e.views[b.src], b.gen)
  <2> DEFINE v == AcceptSnapshot(e.views[p], b.gen, b.data)
             x == [e EXCEPT !.views[p] = v]
  <2>1. v \in OptEntry BY <1>0, <1>1, <1>3, EntriesWritten
  <2>2. Undisturbed(e, x, p) BY <1>0, <2>1, ViewWritten
  <2>3. AfterFullSnapshot(e, b) = Succeeded(x, p) BY <1>2, <1>3
  <2> HIDE DEF x
  <2>4. x \in Engines /\ x.id = e.id BY <2>2 DEF Undisturbed
  <2>5. Undisturbed(x, Succeeded(x, p), p) BY <2>4, <1>0, Recorded
  <2> QED BY <2>2, <2>3, <2>5, UndisturbedTwice
<1>4. CASE verdict = "Ok" /\ ~SnapshotAccepted(e.views[b.src], b.gen)
  <2>1. AfterFullSnapshot(e, b) = e BY <1>2, <1>4
  <2> QED BY <2>1, UndisturbedSame
<1>5. CASE verdict = "DropView"
  <2> DEFINE x == ViewRemoved(e, p)
  <2>2. Undisturbed(e, x, p) BY <1>0, ViewDropped
  <2>3. AfterFullSnapshot(e, b) = Failed(x, p) BY <1>2, <1>5
  <2> HIDE DEF x
  <2>4. x \in Engines /\ x.id = e.id BY <2>2 DEF Undisturbed
  <2>5. Undisturbed(x, Failed(x, p), p) BY <2>4, <1>0, Recorded
  <2> QED BY <2>2, <2>3, <2>5, UndisturbedTwice
<1>6. CASE verdict \in {"KeepStale", "MalformedData"}
  <2>1. AfterFullSnapshot(e, b) = Failed(e, p) BY <1>2, <1>6
  <2> QED BY <2>1, <1>0, Recorded
<1> QED BY <1>1, <1>3, <1>4, <1>5, <1>6

\* handle_delta_update touches what it knows of the sender alone.
LEMMA DeltaHandled ==
    ASSUME DataTyped, NEW e \in Engines, NEW b \in Deltas, b.src # e.id
    PROVE  Undisturbed(e, AfterDelta(e, b), b.src)
<1> DEFINE p == b.src
           outcome == DeltaOutcome(e, b)
<1>0. p \in Node /\ b.gen \in Generation /\ b.data \in Delta \cup {Malformed}
      /\ e.views[p] \in OptEntry BY DEF Deltas, Engines, EngineRecords
<1>1. /\ outcome \in {"OtherVersion", "NoBase", "Stale", "Gap", "Malformed", "Applied"}
      /\ outcome = "Applied" => e.views[p] # NoView /\ b.data # Malformed
  BY DEF DeltaOutcome
<1>2. AfterDelta(e, b) =
    CASE outcome = "OtherVersion" ->
            Failed(IF OnDeserializeError = "DropView" THEN ViewRemoved(e, p) ELSE e, p)
      [] outcome \in {"NoBase", "Stale"} -> e
      [] outcome = "Gap" -> GapSeen(e, p)
      [] outcome = "Malformed" -> Failed(e, p)
      [] outcome = "Applied" ->
            Succeeded([e EXCEPT !.views[p] =
                         AcceptDelta(e.views[p], b.gen, ApplyDelta(e.views[p].value, b.data))], p)
  BY DEF AfterDelta, GapSeen
<1> HIDE DEF outcome
<1>3. CASE outcome = "OtherVersion"
  <2> DEFINE x == IF OnDeserializeError = "DropView" THEN ViewRemoved(e, p) ELSE e
  <2>2. Undisturbed(e, x, p) BY <1>0, ViewDropped, UndisturbedSame
  <2>3. AfterDelta(e, b) = Failed(x, p) BY <1>2, <1>3
  <2> HIDE DEF x
  <2>4. x \in Engines /\ x.id = e.id BY <2>2 DEF Undisturbed
  <2>5. Undisturbed(x, Failed(x, p), p) BY <2>4, <1>0, Recorded
  <2> QED BY <2>2, <2>3, <2>5, UndisturbedTwice
<1>4. CASE outcome \in {"NoBase", "Stale"}
  <2>1. AfterDelta(e, b) = e BY <1>2, <1>4
  <2> QED BY <2>1, UndisturbedSame
<1>5. CASE outcome = "Gap"
  <2>1. AfterDelta(e, b) = GapSeen(e, p) BY <1>2, <1>5
  <2> QED BY <2>1, <1>0, Recorded
<1>6. CASE outcome = "Malformed"
  <2>1. AfterDelta(e, b) = Failed(e, p) BY <1>2, <1>6
  <2> QED BY <2>1, <1>0, Recorded
<1>7. CASE outcome = "Applied"
  <2> DEFINE v == AcceptDelta(e.views[p], b.gen, ApplyDelta(e.views[p].value, b.data))
             x == [e EXCEPT !.views[p] = v]
  <2>1. ApplyDelta(e.views[p].value, b.data) \in View
    BY <1>0, <1>1, <1>7 DEF DataTyped, OptEntry, Entry
  <2>2. v \in OptEntry BY <1>0, <2>1, EntriesWritten
  <2>3. Undisturbed(e, x, p) BY <1>0, <2>2, ViewWritten
  <2>4. AfterDelta(e, b) = Succeeded(x, p) BY <1>2, <1>7
  <2> HIDE DEF x
  <2>5. x \in Engines /\ x.id = e.id BY <2>3 DEF Undisturbed
  <2>6. Undisturbed(x, Succeeded(x, p), p) BY <2>5, <1>0, Recorded
  <2> QED BY <2>3, <2>4, <2>6, UndisturbedTwice
<1> QED BY <1>1, <1>3, <1>4, <1>5, <1>6, <1>7

\* handle_inbound, whatever the message, touches what it knows of the sender
\* alone.
LEMMA InboundHandled ==
    ASSUME DataTyped, NEW e \in Engines, NEW b \in Bodies, b.src # e.id
    PROVE  Undisturbed(e, HandleInbound(e, b), b.src)
<1>0. b.src \in Node /\ e.views[b.src] \in OptEntry BY BodyKinds DEF Engines, EngineRecords
<1>1. CASE b.src \in e.departed
  <2>1. HandleInbound(e, b) = e BY <1>1 DEF HandleInbound
  <2> QED BY <2>1, UndisturbedSame
<1>2. CASE b.src \notin e.departed /\ b.type = "FullSnapshot"
  <2>1. HandleInbound(e, b) = AfterFullSnapshot(e, b) BY <1>2 DEF HandleInbound
  <2> QED BY <2>1, <1>2, BodyKinds, SnapshotHandled
<1>3. CASE b.src \notin e.departed /\ b.type = "DeltaUpdate"
  <2>1. HandleInbound(e, b) = AfterDelta(e, b) BY <1>3 DEF HandleInbound
  <2> QED BY <2>1, <1>3, BodyKinds, DeltaHandled
<1>4. CASE b.src \notin e.departed /\ b.type = "RequestSnapshot"
  <2>1. HandleInbound(e, b) = e BY <1>4 DEF HandleInbound
  <2> QED BY <2>1, UndisturbedSame
<1>5. CASE b.src \notin e.departed /\ b.type = "Feed"
  <2>1. HandleInbound(e, b) = [e EXCEPT !.views[b.src] = MarkStale(e.views[b.src], b.gen)]
    BY <1>5 DEF HandleInbound
  <2>2. b.gen \in Generation BY <1>5, BodyKinds DEF FeedBatches
  <2>3. MarkStale(e.views[b.src], b.gen) \in OptEntry
    <3>1. PICK v : v \in View BY DEF DataTyped
    <3> QED BY <1>0, <2>2, <3>1, EntriesWritten
  <2> QED BY <2>1, <2>3, <1>0, ViewWritten
<1> QED BY <1>1, <1>2, <1>3, <1>4, <1>5, BodyKinds

\* What is answered, by whom and of what kind.
LEMMA Answered ==
    ASSUME DataTyped, NEW e \in Engines, NEW b \in Bodies
    PROVE  /\ Replies(e, b) \in Seq(Bodies)
           /\ \A r \in ToSet(Replies(e, b)) :
                 /\ r.src = e.id /\ r \in Bodies
                 /\ \/ r = OwnSnapshot(e) /\ r \in Snapshots /\ b.type = "RequestSnapshot"
                    \/ r = Request(e) /\ r \in Requests /\ b.type = "DeltaUpdate"
<1>1. /\ OwnSnapshot(e) \in Snapshots /\ OwnSnapshot(e).src = e.id
      /\ Request(e) \in Requests /\ Request(e).src = e.id
  <2>1. e.views[e.id].value = Project(e.value) BY DEF Engines, OwnsEntry, OwnEntry
  <2>2. Project(e.value) \in View /\ e.id \in Node /\ e.gen \in Generation BY DEF DataTyped, Engines, EngineRecords
  <2> QED BY <2>1, <2>2, EngineAssumption DEF OwnSnapshot, Sync, Request, Snapshots, Requests, Wires
<1>2. \A r : ToSet(<<r>>) = {r} BY DEF ToSet
<1>3. CASE Replies(e, b) = <<>> BY <1>3, EmptyList
<1>4. CASE Replies(e, b) = <<OwnSnapshot(e)>> /\ b.type = "RequestSnapshot"
  <2>1. OwnSnapshot(e) \in Bodies BY <1>1 DEF Bodies
  <2> QED BY <1>1, <1>2, <1>4, <2>1
<1>5. CASE Replies(e, b) = <<Request(e)>> /\ b.type = "DeltaUpdate"
  <2>1. Request(e) \in Bodies BY <1>1 DEF Bodies
  <2> QED BY <1>1, <1>2, <1>5, <2>1
<1> QED BY <1>3, <1>4, <1>5 DEF Replies

-----------------------------------------------------------------------------
(* Nodes and what they send.                                               *)

Timed(n) == {s \in [body : Snapshots, in : Nat] : s.body.src = n}

MockNodes(n) ==
    {x \in [engine : Engines, scheduled : Seq(Timed(n)),
            counter : 0 .. FeedFlushInterval - 1] : x.engine.id = n}

AnyNode == UNION {MockNodes(n) : n \in Node}

NodeMaps ==
    {ns \in [Node -> AnyNode \cup {Absent}] :
        \A n \in Node : ns[n] # Absent => ns[n] \in MockNodes(n)}

\* A cluster is typed when each of its nodes is.
LEMMA NodeMapMade ==
    ASSUME NEW ns, ns = [n \in Node |-> ns[n]],
           \A n \in Node : ns[n] # Absent => ns[n] \in MockNodes(n)
    PROVE  ns \in NodeMaps
BY DEF NodeMaps, AnyNode

\* The ticks a timer may take.
LEMMA Timing ==
    /\ FeedFlushInterval \in Nat /\ FeedFlushInterval >= 1
    /\ DelayInTicks \in Nat
    /\ LongestTimer \in Nat
    /\ DelayInTicks <= LongestTimer /\ FeedFlushInterval <= LongestTimer
<1>1. TickMs \in Nat /\ BatchMs \in Nat /\ DelayMs \in Nat BY ClusterAssumption
<1> DEFINE t == Max({TickMs, 1})
<1>2. t \in Nat /\ t >= 1 BY <1>1, MaxOfTwo
<1> HIDE DEF t
<1>3. \A ms \in Nat : CeilTicks(ms) \in Nat
  <2> TAKE ms \in Nat
  <2>1. CeilTicks(ms) = (ms + t - 1) \div t BY DEF CeilTicks, t
  <2>2. ms + t - 1 \in Nat BY <1>2
  <2>3. \A x \in Nat : x \div t \in Nat BY <1>2
  <2> QED BY <2>1, <2>2, <2>3
<1>4. FeedFlushInterval \in Nat /\ FeedFlushInterval >= 1 BY <1>1, <1>3, MaxOfTwo DEF FeedFlushInterval
<1>5. DelayInTicks \in Nat BY <1>1, <1>3 DEF DelayInTicks
<1> QED BY <1>4, <1>5, MaxOfTwo DEF LongestTimer

\* What is known of a node that is there.
LEMMA NodeTyped ==
    ASSUME NEW ns \in NodeMaps, NEW n \in Node, ns[n] # Absent
    PROVE  /\ ns[n] \in MockNodes(n)
           /\ ns[n].engine \in Engines /\ ns[n].engine.id = n
           /\ ns[n].scheduled \in Seq(Timed(n))
           /\ ns[n].counter \in 0 .. FeedFlushInterval - 1
BY DEF NodeMaps, MockNodes

\* all_node_ids.
LEMMA PresentNodes ==
    ASSUME NEW ns
    PROVE  /\ Present(ns) \in Seq(Node)
           /\ ToSet(Present(ns)) = {n \in Node : ns[n] # Absent}
BY ClusterAssumption, OnlyOf DEF Present

\* One of the messages of a broadcast.
SentTo(ns, n, b, m) ==
    \E p \in Node : p # n /\ ns[p] # Absent /\ m = Message(n, p, b)

\* broadcast sends the body to every other node that is there, and to none else.
LEMMA BroadcastSent ==
    ASSUME NEW ns, NEW n \in Node, NEW b \in Bodies, b.src = n
    PROVE  /\ Broadcast(ns, n, b) \in Seq(Messages)
           /\ \A m : m \in ToSet(Broadcast(ns, n, b)) <=>
                 SentTo(ns, n, b, m)
<1> DEFINE others == Only(Present(ns), Node \ {n})
           out == [k \in DOMAIN others |-> Message(n, others[k], b)]
<1>1. others \in Seq(Node) /\ ToSet(others) = {p \in Node : p # n /\ ns[p] # Absent}
  BY PresentNodes, OnlyOf
<1>2. Broadcast(ns, n, b) = out BY DEF Broadcast
<1> HIDE DEF others
<1>3. \A p \in Node \ {n} : Message(n, p, b) \in Messages BY DEF Message, Messages
<1>4. DOMAIN others = 1 .. Len(others) /\ Len(others) \in Nat BY <1>1
<1>5. \A k \in DOMAIN others : others[k] \in Node \ {n} BY <1>1 DEF ToSet
<1>6. \A k \in 1 .. Len(others) : out[k] \in Messages BY <1>3, <1>4, <1>5
<1>7. out \in Seq(Messages) BY <1>4, <1>6
<1>8. \A m : m \in ToSet(out) <=> \E k \in DOMAIN others : m = Message(n, others[k], b)
  BY DEF ToSet
<1>9. \A p : p \in ToSet(others) <=> \E k \in DOMAIN others : p = others[k] BY DEF ToSet
<1> QED BY <1>1, <1>2, <1>7, <1>8, <1>9 DEF SentTo

\* Bodies an engine makes.
LEMMA BodiesMade ==
    ASSUME DataTyped, NEW e \in Engines
    PROVE  /\ OwnSnapshot(e) \in Snapshots /\ OwnSnapshot(e) \in Bodies
           /\ OwnSnapshot(e).src = e.id /\ OwnSnapshot(e).type = "FullSnapshot"
           /\ Request(e) \in Requests /\ Request(e) \in Bodies
           /\ Request(e).src = e.id /\ Request(e).type = "RequestSnapshot"
           /\ e.feed # NoGen => /\ FeedBatch(e) \in FeedBatches /\ FeedBatch(e) \in Bodies
                                /\ FeedBatch(e).src = e.id /\ FeedBatch(e).type = "Feed"
<1>1. e.views[e.id].value = Project(e.value) BY DEF Engines, OwnsEntry, OwnEntry
<1>2. Project(e.value) \in View /\ e.id \in Node /\ e.gen \in Generation
      /\ e.feed \in OptGeneration BY DEF DataTyped, Engines, EngineRecords
<1>3. OwnSnapshot(e) \in Snapshots /\ OwnSnapshot(e).src = e.id /\ OwnSnapshot(e).type = "FullSnapshot"
  BY <1>1, <1>2, EngineAssumption DEF OwnSnapshot, Sync, Snapshots, Wires
<1>4. Request(e) \in Requests /\ Request(e).src = e.id /\ Request(e).type = "RequestSnapshot"
  BY <1>2 DEF Request, Requests
<1>5. e.feed # NoGen => FeedBatch(e) \in FeedBatches /\ FeedBatch(e).src = e.id /\ FeedBatch(e).type = "Feed"
  BY <1>2 DEF FeedBatch, FeedBatches, OptGeneration
<1> QED BY <1>3, <1>4, <1>5 DEF Bodies

\* mutate: the next age, the changed state and the owner's entry; the views of
\* peers, their counters and the departed set stay.
LEMMA MutationMade ==
    ASSUME DataTyped, NEW e \in Engines, NEW c \in Change, NEW action
    PROVE  /\ AfterMutation(e, c, action) \in Engines
           /\ AfterMutation(e, c, action).id = e.id
           /\ AfterMutation(e, c, action).gen = NextAge(e.gen)
           /\ AfterMutation(e, c, action).value = ApplyChange(e.value, c)
           /\ AfterMutation(e, c, action).departed = e.departed
           /\ AfterMutation(e, c, action).diag = e.diag
           /\ AfterMutation(e, c, action).feed = e.feed \/ action = "NotifyChangeFeed"
           /\ \A p \in Node \ {e.id} : AfterMutation(e, c, action).views[p] = e.views[p]
           /\ SnapshotBody(e, c) \in Snapshots /\ SnapshotBody(e, c) \in Bodies
           /\ SnapshotBody(e, c).src = e.id
           /\ DeltaBody(e, c, action) \in Bodies /\ DeltaBody(e, c, action).src = e.id
<1> DEFINE g == NextAge(e.gen)
           v == ApplyChange(e.value, c)
           x == Mutated(e, c)
           w == [e.views EXCEPT ![e.id] = OwnEntry(g, Project(v))]
<1>1. e \in EngineRecords /\ e.id \in Node /\ e.gen \in Generation /\ e.value \in State
      /\ e.views \in [Node -> OptEntry] /\ e.feed \in OptGeneration
  BY DEF Engines, EngineRecords
<1>2. g \in Generation /\ v \in State /\ Project(v) \in View /\ ViewDelta(e.value, c) \in Delta
  BY <1>1, NextAgeAdvances DEF DataTyped
<1>3. OwnEntry(g, Project(v)) \in OptEntry BY <1>2 DEF OwnEntry, OptEntry, Entry, OptGeneration
<1>4. w \in [Node -> OptEntry] /\ w[e.id] = OwnEntry(g, Project(v))
      /\ \A p \in Node \ {e.id} : w[p] = e.views[p] BY <1>1, <1>3
<1>5. x = [e EXCEPT !.gen = g, !.value = v, !.views = w]
  BY <1>1 DEF Mutated, EngineRecords
<1> HIDE DEF g, v, w
<1>6. /\ x \in EngineRecords /\ x.id = e.id /\ x.gen = g /\ x.value = v /\ x.views = w
      /\ x.departed = e.departed /\ x.diag = e.diag /\ x.feed = e.feed
  BY <1>1, <1>2, <1>4, <1>5 DEF EngineRecords
<1> HIDE DEF x
<1>7. x \in Engines BY <1>4, <1>6 DEF Engines, OwnsEntry
<1> DEFINE y == Notified(x)
<1>8. /\ y \in Engines /\ y.id = x.id /\ y.gen = x.gen /\ y.value = x.value /\ y.views = x.views
      /\ y.departed = x.departed /\ y.diag = x.diag
  <2>1. \E f \in OptGeneration : y = [x EXCEPT !.feed = f]
    <3>1. y = [x EXCEPT !.feed = x.gen] \/ y = [x EXCEPT !.feed = x.feed] BY <1>6 DEF Notified, EngineRecords
    <3> QED BY <3>1, <1>1, <1>6, <1>2 DEF OptGeneration
  <2>2. PICK f \in OptGeneration : y = [x EXCEPT !.feed = f] BY <2>1
  <2> HIDE DEF y
  <2>3. y \in EngineRecords /\ y.id = x.id /\ y.gen = x.gen /\ y.value = x.value /\ y.views = x.views
       /\ y.departed = x.departed /\ y.diag = x.diag BY <2>2, <1>6 DEF EngineRecords
  <2> QED BY <2>3, <1>7 DEF Engines, OwnsEntry
<1>9. AfterMutation(e, c, action) = x \/ (action = "NotifyChangeFeed" /\ AfterMutation(e, c, action) = y)
  BY DEF AfterMutation, x
<1> HIDE DEF y
<1>10. /\ SnapshotBody(e, c) \in Snapshots /\ SnapshotBody(e, c).src = e.id
       /\ Sync(x, "DeltaUpdate", ViewDelta(e.value, c)) \in Deltas
       /\ Sync(x, "DeltaUpdate", ViewDelta(e.value, c)).src = e.id
  BY <1>1, <1>2, <1>6, EngineAssumption DEF SnapshotBody, Sync, Snapshots, Deltas, Wires, x, v
<1>11. DeltaBody(e, c, action) = SnapshotBody(e, c) \/ DeltaBody(e, c, action) = Sync(x, "DeltaUpdate", ViewDelta(e.value, c))
  BY DEF DeltaBody, x
<1>12. DeltaBody(e, c, action) \in Bodies /\ DeltaBody(e, c, action).src = e.id
       /\ SnapshotBody(e, c) \in Bodies
  BY <1>10, <1>11 DEF Bodies
<1>13. \A p \in Node \ {e.id} : x.views[p] = e.views[p] BY <1>4, <1>6
<1>14. CASE AfterMutation(e, c, action) = x BY <1>6, <1>7, <1>10, <1>12, <1>13, <1>14 DEF g, v
<1>15. CASE action = "NotifyChangeFeed" /\ AfterMutation(e, c, action) = y
  BY <1>6, <1>8, <1>10, <1>12, <1>13, <1>15 DEF g, v
<1> QED BY <1>9, <1>14, <1>15

-----------------------------------------------------------------------------
(* Membership, as an engine sees it.                                       *)

\* A new engine knows its own state only.
LEMMA EngineMade ==
    ASSUME DataTyped, NEW n \in Node, NEW inc \in Nat
    PROVE  /\ NewEngine(n, inc) \in Engines
           /\ NewEngine(n, inc).id = n /\ NewEngine(n, inc).feed = NoGen
           /\ NewEngine(n, inc).departed = {}
           /\ \A p \in Node \ {n} : NewEngine(n, inc).views[p] = NoView
<1> DEFINE gen == NewGeneration(inc, 0)
           own == OwnEntry(gen, Project(InitState))
           views == [p \in Node |-> IF p = n THEN own ELSE NoView]
           diag == [p \in {} |-> DefaultDiagnostics]
<1>1. gen \in Generation BY DEF NewGeneration, Generation
<1>2. own \in Entry BY <1>1 DEF OwnEntry, Entry, OptGeneration, DataTyped
<1>3. views \in [Node -> OptEntry] BY <1>2 DEF OptEntry
<1>4. diag \in Records
  <2>1. diag \in [{} -> PeerDiagnostics] OBVIOUS
  <2> QED BY <2>1 DEF Records
<1>5. NewEngine(n, inc) = [id |-> n, gen |-> gen, value |-> InitState, views |-> views,
                           departed |-> {}, feed |-> NoGen, diag |-> diag]
  BY DEF NewEngine
<1>6. views[n] = own /\ \A p \in Node \ {n} : views[p] = NoView OBVIOUS
<1>7. InitState \in State /\ NoGen \in OptGeneration BY DEF DataTyped, OptGeneration
<1> HIDE DEF gen, views, diag
<1>8. NewEngine(n, inc) \in EngineRecords BY <1>1, <1>3, <1>4, <1>5, <1>7 DEF EngineRecords
<1> QED BY <1>5, <1>6, <1>8 DEF Engines, OwnsEntry

\* What a membership event leaves alone.
SameState(e, x) ==
    /\ x \in Engines
    /\ x.id = e.id /\ x.gen = e.gen /\ x.value = e.value /\ x.feed = e.feed

\* on_node_joined: a placeholder, unless there is an entry; the peer is no longer
\* departed.
LEMMA JoinHandled ==
    ASSUME DataTyped, NEW e \in Engines, NEW p \in Node, p # e.id
    PROVE  /\ SameState(e, OnNodeJoined(e, p))
           /\ OnNodeJoined(e, p).departed = e.departed \ {p}
           /\ OnNodeJoined(e, p).diag = e.diag
           /\ OnNodeJoined(e, p).views[p] = InsertPlaceholder(e.views[p], DefaultView)
           /\ \A q \in Node \ {p} : OnNodeJoined(e, p).views[q] = e.views[q]
<1>1. e \in EngineRecords /\ e.views \in [Node -> OptEntry] /\ e.departed \in SUBSET Node
      /\ e.views[p] \in OptEntry BY DEF Engines, EngineRecords
<1> DEFINE v == InsertPlaceholder(e.views[p], DefaultView)
           x == [e EXCEPT !.views[p] = v]
           y == [x EXCEPT !.departed = e.departed \ {p}]
<1>2. v \in OptEntry
  <2>1. Zero \in Generation BY DEF Zero, NewGeneration, Generation
  <2> QED BY <2>1, <1>1, EntriesWritten DEF DataTyped
<1>3. Undisturbed(e, x, p) /\ x.views[p] = v /\ x.diag = e.diag BY <1>2, ViewWritten
<1>4. OnNodeJoined(e, p) = y BY <1>1 DEF OnNodeJoined, EngineRecords
<1> HIDE DEF x, v
<1>5. x \in Engines /\ x.id = e.id BY <1>3 DEF Undisturbed
<1>6. y \in Engines BY <1>1, <1>5, EngineUpdates
<1>7. /\ y.id = x.id /\ y.gen = x.gen /\ y.value = x.value /\ y.feed = x.feed
      /\ y.views = x.views /\ y.diag = x.diag /\ y.departed = e.departed \ {p}
  BY <1>5 DEF Engines, EngineRecords
<1> HIDE DEF y
<1> QED BY <1>3, <1>4, <1>6, <1>7 DEF Undisturbed, SameState, v

\* on_node_left: entry and counters go, and the peer is departed.
LEMMA LeaveHandled ==
    ASSUME NEW e \in Engines, NEW p \in Node, p # e.id
    PROVE  /\ SameState(e, OnNodeLeft(e, p))
           /\ OnNodeLeft(e, p).departed = e.departed \cup {p}
           /\ OnNodeLeft(e, p).diag = RemovePeer(e.diag, p)
           /\ OnNodeLeft(e, p).views[p] = NoView
           /\ \A q \in Node \ {p} : OnNodeLeft(e, p).views[q] = e.views[q]
<1>1. e \in EngineRecords /\ e.views \in [Node -> OptEntry] /\ e.departed \in SUBSET Node
      /\ e.diag \in Records BY DEF Engines, EngineRecords
<1> DEFINE x == ViewRemoved(e, p)
           y == [x EXCEPT !.departed = e.departed \cup {p}]
           z == [y EXCEPT !.diag = RemovePeer(e.diag, p)]
<1>3. Undisturbed(e, x, p) /\ x.views[p] = NoView /\ x.diag = e.diag
  BY ViewDropped, ViewWritten DEF ViewRemoved, OptEntry
<1> HIDE DEF x
<1>5. x \in Engines /\ x.id = e.id /\ x.departed = e.departed BY <1>3 DEF Undisturbed
<1>4. OnNodeLeft(e, p) = z BY <1>3, <1>5 DEF OnNodeLeft, Engines, EngineRecords, x
<1>6. y \in Engines BY <1>1, <1>5, EngineUpdates
<1>7. /\ y.id = x.id /\ y.gen = x.gen /\ y.value = x.value /\ y.feed = x.feed
      /\ y.views = x.views /\ y.departed = e.departed \cup {p}
  BY <1>5 DEF Engines, EngineRecords
<1> HIDE DEF y
<1>8. RemovePeer(e.diag, p) \in Records BY <1>1, RecordsStored
<1>9. z \in Engines BY <1>5, <1>6, <1>7, <1>8, EngineUpdates
<1>10. /\ z.id = y.id /\ z.gen = y.gen /\ z.value = y.value /\ z.feed = y.feed
       /\ z.views = y.views /\ z.departed = y.departed /\ z.diag = RemovePeer(e.diag, p)
  BY <1>6 DEF Engines, EngineRecords
<1> HIDE DEF z
<1> QED BY <1>3, <1>4, <1>7, <1>9, <1>10 DEF Undisturbed, SameState

\* The newcomer's engine, told of every node that is there.
LEMMA AllJoined ==
    ASSUME DataTyped, NEW e \in Engines, NEW peers \in Seq(Node \ {e.id})
    PROVE  /\ SameState(e, FoldLeft(OnNodeJoined, e, peers))
           /\ FoldLeft(OnNodeJoined, e, peers).departed \subseteq e.departed
           /\ FoldLeft(OnNodeJoined, e, peers).diag = e.diag
           /\ \A q \in Node :
                 IF q \in ToSet(peers) /\ e.views[q] = NoView
                 THEN FoldLeft(OnNodeJoined, e, peers).views[q] = Placeholder(DefaultView)
                 ELSE FoldLeft(OnNodeJoined, e, peers).views[q] = e.views[q]
<1>r. PICK run : JoinRun(e, peers, run) BY JoinRuns
<1>0. /\ Len(peers) \in Nat /\ DOMAIN peers = 1 .. Len(peers)
      /\ \A k \in 1 .. Len(peers) : peers[k] \in Node /\ peers[k] # e.id
  OBVIOUS
<1>1. /\ run[0] = e
      /\ \A k \in 1 .. Len(peers) : run[k] = OnNodeJoined(run[k - 1], peers[k])
      /\ FoldLeft(OnNodeJoined, e, peers) = run[Len(peers)]
  BY <1>r DEF JoinRun
<1> DEFINE Met(k, q) == \E j \in 1 .. k : peers[j] = q
           P(k) == /\ SameState(e, run[k]) /\ run[k].departed \subseteq e.departed
                   /\ run[k].diag = e.diag
                   /\ \A q \in Node :
                         IF Met(k, q) /\ e.views[q] = NoView
                         THEN run[k].views[q] = Placeholder(DefaultView)
                         ELSE run[k].views[q] = e.views[q]
           W == {k \in Nat : k <= Len(peers) => P(k)}
<1>2. 0 \in W
  <2>1. \A q \in Node : ~Met(0, q)
    <3>1. 1 .. 0 = {} OBVIOUS
    <3> QED BY <3>1
  <2>2. SameState(e, e) BY DEF SameState
  <2> HIDE DEF Met
  <2> QED BY <2>1, <2>2, <1>1
<1>3. ASSUME NEW k \in W PROVE k + 1 \in W
  <2> SUFFICES ASSUME k + 1 <= Len(peers) PROVE P(k + 1) OBVIOUS
  <2>1. /\ k \in Nat /\ k + 1 \in 1 .. Len(peers) /\ (k + 1) - 1 = k /\ P(k) BY <1>0
  <2> DEFINE p == peers[k + 1]
             x == run[k]
             y == run[k + 1]
  <2>2. y = OnNodeJoined(x, p) /\ p \in Node /\ p # e.id BY <1>0, <1>1, <2>1
  <2>3. \A q : Met(k + 1, q) <=> Met(k, q) \/ q = p
    <3>1. \A j : j \in 1 .. k + 1 <=> (j \in 1 .. k \/ j = k + 1) BY <2>1
    <3> QED BY <3>1
  <2>4. SameState(e, x) /\ x.departed \subseteq e.departed /\ x.diag = e.diag BY <2>1
  <2>5. \A q \in Node :
            IF Met(k, q) /\ e.views[q] = NoView
            THEN x.views[q] = Placeholder(DefaultView)
            ELSE x.views[q] = e.views[q]
    BY <2>1
  <2>6. x \in Engines /\ x.id = e.id BY <2>4 DEF SameState
  <2> HIDE DEF Met, x, W, p
  <2>7. /\ SameState(x, y)
        /\ y.departed = x.departed \ {p}
        /\ y.diag = x.diag
        /\ y.views[p] = InsertPlaceholder(x.views[p], DefaultView)
        /\ \A q \in Node \ {p} : y.views[q] = x.views[q]
    BY <2>2, <2>6, JoinHandled
  <2> HIDE DEF y
  <2>8. SameState(e, y) BY <2>4, <2>7 DEF SameState
  <2>9. Placeholder(DefaultView) # NoView
    BY NoViewAssumption DEF Placeholder, Zero, PlaceholderPending, NewGeneration, Entry, Generation, OptGeneration, DataTyped
  <2>10. ASSUME NEW q \in Node
         PROVE  IF Met(k + 1, q) /\ e.views[q] = NoView
                THEN y.views[q] = Placeholder(DefaultView)
                ELSE y.views[q] = e.views[q]
    <3>1. CASE q # p BY <3>1, <2>3, <2>5, <2>7
    <3>2. CASE q = p
      <4>1. y.views[q] = IF x.views[q] = NoView THEN Placeholder(DefaultView) ELSE x.views[q]
        BY <3>2, <2>7 DEF InsertPlaceholder
      <4> QED BY <3>2, <4>1, <2>3, <2>5, <2>9
    <3> QED BY <3>1, <3>2
  <2>11. y.departed \subseteq e.departed /\ y.diag = e.diag BY <2>4, <2>7
  <2> QED BY <2>8, <2>10, <2>11 DEF y
<1>4. W \in SUBSET Nat OBVIOUS
<1>5. Len(peers) \in W
  <2> HIDE DEF W
  <2> QED BY <1>0, <1>2, <1>3, <1>4, SetInduction
<1>6. P(Len(peers)) BY <1>0, <1>5
<1>7. \A q : q \in ToSet(peers) <=> Met(Len(peers), q) BY <1>0 DEF ToSet
<1> HIDE DEF Met
<1> QED BY <1>1, <1>6, <1>7

-----------------------------------------------------------------------------
(* Membership, in the cluster.                                             *)

\* A node whose engine is replaced keeps its timers.
LEMMA EngineReplaced ==
    ASSUME NEW n \in Node, NEW x \in MockNodes(n), NEW e \in Engines, e.id = n
    PROVE  /\ [x EXCEPT !.engine = e] \in MockNodes(n)
           /\ [x EXCEPT !.engine = e].engine = e
           /\ [x EXCEPT !.engine = e].scheduled = x.scheduled
           /\ [x EXCEPT !.engine = e].counter = x.counter
BY DEF MockNodes

\* MockNode::new: no timers, the counter at zero.
LEMMA NewNode ==
    ASSUME NEW n \in Node, NEW e \in Engines, e.id = n
    PROVE  /\ MockNode(e) \in MockNodes(n)
           /\ MockNode(e).engine = e /\ MockNode(e).scheduled = <<>> /\ MockNode(e).counter = 0
<1>1. 0 \in 0 .. FeedFlushInterval - 1 BY Timing
<1>2. <<>> \in Seq(Timed(n)) OBVIOUS
<1> QED BY <1>1, <1>2 DEF MockNode, MockNodes

\* The newcomer, and a node that hears of it.
Newcomer(ns, n, inc, x) ==
    /\ x \in MockNodes(n) /\ x.scheduled = <<>> /\ x.counter = 0
    /\ SameState(NewEngine(n, inc), x.engine)
    /\ x.engine.departed = {} /\ x.engine.diag = NewEngine(n, inc).diag
    /\ \A q \in Node \ {n} :
          x.engine.views[q] = IF ns[q] # Absent THEN Placeholder(DefaultView) ELSE NoView

Welcomes(ns, n, p, x) ==
    /\ x \in MockNodes(p)
    /\ x.engine = OnNodeJoined(ns[p].engine, n)
    /\ x.scheduled = ns[p].scheduled /\ x.counter = ns[p].counter

\* add_node, for the newcomer and for every node that hears of it.
LEMMA NodeAdmitted ==
    ASSUME DataTyped, NEW ns \in NodeMaps, NEW n \in Node, ns[n] = Absent, NEW inc \in Nat
    PROVE  /\ Admitted(ns, n, inc) \in NodeMaps
           /\ Newcomer(ns, n, inc, Admitted(ns, n, inc)[n])
           /\ \A p \in Node \ {n} :
                 IF ns[p] = Absent THEN Admitted(ns, n, inc)[p] = Absent
                 ELSE Welcomes(ns, n, p, Admitted(ns, n, inc)[p])
<1> DEFINE peers == Present(ns)
           e0 == NewEngine(n, inc)
           e == FoldLeft(OnNodeJoined, e0, peers)
           A == Admitted(ns, n, inc)
<1>1. peers \in Seq(Node) /\ ToSet(peers) = {q \in Node : ns[q] # Absent} BY PresentNodes
<1>2. peers \in Seq(Node \ {n})
  <2>1. \A k \in 1 .. Len(peers) : peers[k] \in ToSet(peers) BY <1>1 DEF ToSet
  <2> HIDE DEF peers
  <2> QED BY <1>1, <2>1
<1>3. /\ e0 \in Engines /\ e0.id = n /\ e0.feed = NoGen /\ e0.departed = {}
      /\ \A p \in Node \ {n} : e0.views[p] = NoView BY EngineMade
<1> HIDE DEF peers, e0
<1>4. /\ SameState(e0, e) /\ e.departed \subseteq e0.departed /\ e.diag = e0.diag
      /\ \A q \in Node :
             IF q \in ToSet(peers) /\ e0.views[q] = NoView
             THEN e.views[q] = Placeholder(DefaultView)
             ELSE e.views[q] = e0.views[q]
  BY <1>2, <1>3, AllJoined
<1>5. /\ A[n] = MockNode(e) /\ A = [p \in Node |-> A[p]]
      /\ \A p \in Node \ {n} : A[p] = IF ns[p] = Absent THEN Absent
                                      ELSE [ns[p] EXCEPT !.engine = OnNodeJoined(ns[p].engine, n)]
  BY DEF Admitted, e0, peers
<1> HIDE DEF e, A
<1>6. e \in Engines /\ e.id = n BY <1>3, <1>4 DEF SameState
<1>7. \A q \in Node \ {n} : e.views[q] = IF ns[q] # Absent THEN Placeholder(DefaultView) ELSE NoView
  BY <1>1, <1>3, <1>4
<1>8. e.departed = {} BY <1>3, <1>4
<1>9. /\ A[n] \in MockNodes(n) /\ A[n].engine = e /\ A[n].scheduled = <<>> /\ A[n].counter = 0
  BY <1>5, <1>6, NewNode
<1>10. ASSUME NEW p \in Node \ {n}, ns[p] # Absent
       PROVE  Welcomes(ns, n, p, A[p])
  <2>1. ns[p] \in MockNodes(p) /\ ns[p].engine \in Engines /\ ns[p].engine.id = p BY <1>10, NodeTyped
  <2>2. SameState(ns[p].engine, OnNodeJoined(ns[p].engine, n)) BY <2>1, JoinHandled
  <2>3. OnNodeJoined(ns[p].engine, n) \in Engines /\ OnNodeJoined(ns[p].engine, n).id = p
    BY <2>1, <2>2 DEF SameState
  <2>4. A[p] = [ns[p] EXCEPT !.engine = OnNodeJoined(ns[p].engine, n)] BY <1>5, <1>10
  <2> QED BY <2>1, <2>3, <2>4, EngineReplaced DEF Welcomes
<1>11. A \in NodeMaps
  <2>1. \A p \in Node : A[p] # Absent => A[p] \in MockNodes(p) BY <1>5, <1>9, <1>10 DEF Welcomes
  <2> QED BY <1>5, <2>1, NodeMapMade
<1>12. \A p \in Node \ {n} : ns[p] = Absent => A[p] = Absent BY <1>5
<1>13. Newcomer(ns, n, inc, A[n])
  BY <1>4, <1>7, <1>8, <1>9 DEF Newcomer, e0
<1> QED BY <1>10, <1>11, <1>12, <1>13 DEF A

\* A list made of another one, member by member.
MapList(list, f) == [k \in DOMAIN list |-> f[list[k]]]

\* The elements of a list made member by member.
LEMMA ListMade ==
    ASSUME NEW S, NEW T, NEW list \in Seq(S), NEW f, \A x \in ToSet(list) : f[x] \in T
    PROVE  /\ MapList(list, f) \in Seq(T)
           /\ \A y : y \in ToSet(MapList(list, f)) <=> \E x \in ToSet(list) : y = f[x]
<1> DEFINE out == MapList(list, f)
<1>1. DOMAIN list = 1 .. Len(list) /\ Len(list) \in Nat OBVIOUS
<1>2. \A k \in DOMAIN list : list[k] \in ToSet(list) BY DEF ToSet
<1>3. \A k \in 1 .. Len(list) : f[list[k]] \in T BY <1>1, <1>2
<1>4. out \in Seq(T) BY <1>1, <1>3 DEF MapList
<1>5. \A y : y \in ToSet(out) <=> \E k \in DOMAIN list : y = f[list[k]] BY DEF ToSet, MapList
<1>6. \A x : x \in ToSet(list) <=> \E k \in DOMAIN list : x = list[k] BY DEF ToSet
<1> QED BY <1>4, <1>5, <1>6

Greeting(ns, n, inc, m) ==
    \E p \in Node \ {n} :
       /\ ns[p] # Absent
       /\ \/ m = Message(p, n, OwnSnapshot(ns[p].engine))
          \/ m = Message(n, p, OwnSnapshot(NewEngine(n, inc)))

\* The snapshots add_node sends both ways.
LEMMA GreetingsSent ==
    ASSUME DataTyped, NEW ns \in NodeMaps, NEW n \in Node, ns[n] = Absent, NEW inc \in Nat
    PROVE  /\ Greetings(ns, n, inc) \in Seq(Messages)
           /\ \A m : m \in ToSet(Greetings(ns, n, inc)) <=> Greeting(ns, n, inc, m)
<1> DEFINE existing == Present(ns)
           f == [p \in ToSet(existing) |-> Message(p, n, OwnSnapshot(ns[p].engine))]
           g == [p \in ToSet(existing) |-> Message(n, p, OwnSnapshot(NewEngine(n, inc)))]
           one == [k \in DOMAIN existing |-> Message(existing[k], n, OwnSnapshot(ns[existing[k]].engine))]
           two == [k \in DOMAIN existing |-> Message(n, existing[k], OwnSnapshot(NewEngine(n, inc)))]
<1>1. existing \in Seq(Node) /\ ToSet(existing) = {q \in Node : ns[q] # Absent} BY PresentNodes
<1>2. Greetings(ns, n, inc) = one \o two BY DEF Greetings
<1>3. \A k \in DOMAIN existing : existing[k] \in ToSet(existing) BY DEF ToSet
<1> HIDE DEF existing
<1>4. one = MapList(existing, f) BY <1>3 DEF MapList
<1>5. two = MapList(existing, g) BY <1>3 DEF MapList
<1>6. NewEngine(n, inc) \in Engines /\ NewEngine(n, inc).id = n BY EngineMade
<1>7. OwnSnapshot(NewEngine(n, inc)) \in Bodies /\ OwnSnapshot(NewEngine(n, inc)).src = n
  BY <1>6, BodiesMade
<1>8. ASSUME NEW p \in ToSet(existing) PROVE f[p] \in Messages /\ g[p] \in Messages
  <2>1. p \in Node /\ p # n /\ ns[p] # Absent BY <1>1
  <2>2. ns[p].engine \in Engines /\ ns[p].engine.id = p BY <2>1, NodeTyped
  <2>3. OwnSnapshot(ns[p].engine) \in Bodies /\ OwnSnapshot(ns[p].engine).src = p BY <2>2, BodiesMade
  <2> QED BY <2>1, <2>3, <1>7 DEF Message, Messages
<1>9. /\ one \in Seq(Messages)
      /\ \A y : y \in ToSet(one) <=> \E x \in ToSet(existing) : y = f[x]
  <2>1. \A x \in ToSet(existing) : f[x] \in Messages BY <1>8
  <2> HIDE DEF f
  <2>2. /\ MapList(existing, f) \in Seq(Messages)
        /\ \A y : y \in ToSet(MapList(existing, f)) <=> \E x \in ToSet(existing) : y = f[x]
    BY <1>1, <2>1, ListMade
  <2> QED BY <1>4, <2>2
<1>10. /\ two \in Seq(Messages)
      /\ \A y : y \in ToSet(two) <=> \E x \in ToSet(existing) : y = g[x]
  <2>1. \A x \in ToSet(existing) : g[x] \in Messages BY <1>8
  <2> HIDE DEF g
  <2>2. /\ MapList(existing, g) \in Seq(Messages)
        /\ \A y : y \in ToSet(MapList(existing, g)) <=> \E x \in ToSet(existing) : y = g[x]
    BY <1>1, <2>1, ListMade
  <2> QED BY <1>5, <2>2
<1> HIDE DEF one, two
<1>11. one \o two \in Seq(Messages) /\ ToSet(one \o two) = ToSet(one) \cup ToSet(two)
  BY <1>9, <1>10, JoinedLists
<1>12. \A m : m \in ToSet(one) <=>
           \E p \in Node \ {n} : ns[p] # Absent /\ m = Message(p, n, OwnSnapshot(ns[p].engine))
  BY <1>1, <1>9
<1>13. \A m : m \in ToSet(two) <=>
           \E p \in Node \ {n} : ns[p] # Absent /\ m = Message(n, p, OwnSnapshot(NewEngine(n, inc)))
  BY <1>1, <1>10
<1> QED BY <1>2, <1>11, <1>12, <1>13 DEF Greeting

\* The cluster without n, over a rigid map.
Left(ns, n) ==
    [p \in Node |-> IF p = n \/ ns[p] = Absent THEN Absent
                    ELSE [ns[p] EXCEPT !.engine = OnNodeLeft(@, n)]]

Bereft(ns, n, p, x) ==
    /\ x \in MockNodes(p)
    /\ x.engine = OnNodeLeft(ns[p].engine, n)
    /\ x.scheduled = ns[p].scheduled /\ x.counter = ns[p].counter

\* remove_node, for the node and for every other one.
LEMMA NodeLeft ==
    ASSUME NEW ns \in NodeMaps, NEW n \in Node
    PROVE  /\ Left(ns, n) \in NodeMaps
           /\ Left(ns, n)[n] = Absent
           /\ \A p \in Node \ {n} :
                 IF ns[p] = Absent THEN Left(ns, n)[p] = Absent
                 ELSE Bereft(ns, n, p, Left(ns, n)[p])
<1> DEFINE A == Left(ns, n)
<1>5. /\ A[n] = Absent /\ A = [p \in Node |-> A[p]]
      /\ \A p \in Node \ {n} : A[p] = IF ns[p] = Absent THEN Absent
                                      ELSE [ns[p] EXCEPT !.engine = OnNodeLeft(ns[p].engine, n)]
  BY DEF Left
<1> HIDE DEF A
<1>10. ASSUME NEW p \in Node \ {n}, ns[p] # Absent
       PROVE  Bereft(ns, n, p, A[p])
  <2>1. ns[p] \in MockNodes(p) /\ ns[p].engine \in Engines /\ ns[p].engine.id = p BY <1>10, NodeTyped
  <2>2. SameState(ns[p].engine, OnNodeLeft(ns[p].engine, n)) BY <2>1, LeaveHandled
  <2>3. OnNodeLeft(ns[p].engine, n) \in Engines /\ OnNodeLeft(ns[p].engine, n).id = p
    BY <2>1, <2>2 DEF SameState
  <2>4. A[p] = [ns[p] EXCEPT !.engine = OnNodeLeft(ns[p].engine, n)] BY <1>5, <1>10
  <2> QED BY <2>1, <2>3, <2>4, EngineReplaced DEF Bereft
<1>11. A \in NodeMaps
  <2>1. \A p \in Node : A[p] # Absent => A[p] \in MockNodes(p) BY <1>5, <1>10 DEF Bereft
  <2> QED BY <1>5, <2>1, NodeMapMade
<1>12. \A p \in Node \ {n} : ns[p] = Absent => A[p] = Absent BY <1>5
<1> QED BY <1>5, <1>10, <1>11, <1>12 DEF A

\* One node's engine or timers replaced.
LEMMA NodeReplaced ==
    ASSUME NEW ns \in NodeMaps, NEW n \in Node, NEW x \in MockNodes(n)
    PROVE  [ns EXCEPT ![n] = x] \in NodeMaps /\ [ns EXCEPT ![n] = x][n] = x
           /\ \A p \in Node \ {n} : [ns EXCEPT ![n] = x][p] = ns[p]
<1>1. ns \in [Node -> AnyNode \cup {Absent}] BY DEF NodeMaps
<1>2. x \in AnyNode BY DEF AnyNode
<1>3. [ns EXCEPT ![n] = x] \in [Node -> AnyNode \cup {Absent}] BY <1>1, <1>2
<1>4. \A p \in Node : [ns EXCEPT ![n] = x][p] = IF p = n THEN x ELSE ns[p] BY <1>1
<1> QED BY <1>3, <1>4 DEF NodeMaps

-----------------------------------------------------------------------------
(* tick: deliveries.                                                       *)

\* Frames that decode.
Arrivals == {f \in Frames : f.data # Garbage}

\* A frame that decodes names its sender.
LEMMA ArrivalTyped ==
    ASSUME NEW f \in Arrivals
    PROVE  /\ f.from \in Node /\ f.to \in Node /\ f.from # f.to
           /\ f.data \in Bodies /\ f.data.src = f.from
BY DEF Arrivals, Frames

Touched(frames, n, p) == \E f \in ToSet(frames) : f.to = n /\ f.from = p

\* What the deliveries of a tick leave alone at a node.
KeptAt(ns, frames, n, x) ==
    /\ x \in MockNodes(n)
    /\ x.scheduled = ns[n].scheduled /\ x.counter = ns[n].counter
    /\ x.engine.gen = ns[n].engine.gen /\ x.engine.value = ns[n].engine.value
    /\ x.engine.departed = ns[n].engine.departed /\ x.engine.feed = ns[n].engine.feed
    /\ \A p \in Node : ~Touched(frames, n, p) =>
          /\ x.engine.views[p] = ns[n].engine.views[p]
          /\ DiagnosticsOf(x.engine.diag, p) = DiagnosticsOf(ns[n].engine.diag, p)

\* An answer to a delivered frame.
Answers(ns, f, m) ==
    /\ ns[f.to] # Absent
    /\ m.from = f.to /\ m.to = f.from
    /\ \/ f.data.type = "RequestSnapshot" /\ m.body = OwnSnapshot(ns[f.to].engine)
          /\ m.body.type = "FullSnapshot"
       \/ f.data.type = "DeltaUpdate" /\ m.body = Request(ns[f.to].engine)
          /\ m.body.type = "RequestSnapshot"

Handled(ns, frames, acc) ==
    /\ acc.nodes \in NodeMaps
    /\ \A n \in Node : IF ns[n] = Absent THEN acc.nodes[n] = Absent
                       ELSE KeptAt(ns, frames, n, acc.nodes[n])
    /\ acc.out \in Seq(Messages)
    /\ \A m \in ToSet(acc.out) : \E f \in ToSet(frames) : Answers(ns, f, m)

\* An answer depends on the engine's own state only.
LEMMA SameOwnSnapshot ==
    ASSUME NEW e \in Engines, NEW x \in Engines,
           x.id = e.id, x.gen = e.gen, x.value = e.value
    PROVE  OwnSnapshot(x) = OwnSnapshot(e) /\ Request(x) = Request(e)
<1>1. x.views[x.id].value = Project(x.value) /\ e.views[e.id].value = Project(e.value)
  BY DEF Engines, OwnsEntry, OwnEntry
<1> QED BY <1>1 DEF OwnSnapshot, Sync, Request

\* The answers to one frame: a request gets the owner's snapshot, a delta at most
\* a request.
LEMMA AnswersSent ==
    ASSUME DataTyped, NEW e \in Engines, NEW f \in Arrivals, e.id = f.to
    PROVE  /\ [k \in DOMAIN Replies(e, f.data) |-> Message(f.to, f.data.src, Replies(e, f.data)[k])]
                 \in Seq(Messages)
           /\ \A m \in ToSet([k \in DOMAIN Replies(e, f.data) |->
                                Message(f.to, f.data.src, Replies(e, f.data)[k])]) :
                 /\ m.from = f.to /\ m.to = f.from
                 /\ \/ f.data.type = "RequestSnapshot" /\ m.body = OwnSnapshot(e)
                       /\ m.body.type = "FullSnapshot"
                    \/ f.data.type = "DeltaUpdate" /\ m.body = Request(e)
                       /\ m.body.type = "RequestSnapshot"
<1> DEFINE list == Replies(e, f.data)
           g == [b \in ToSet(list) |-> Message(f.to, f.data.src, b)]
           out == [k \in DOMAIN list |-> Message(f.to, f.data.src, list[k])]
<1>0. /\ f.from \in Node /\ f.to \in Node /\ f.from # f.to
      /\ f.data \in Bodies /\ f.data.src = f.from BY ArrivalTyped
<1>1. /\ list \in Seq(Bodies)
      /\ \A r \in ToSet(list) :
             /\ r.src = e.id /\ r \in Bodies
             /\ \/ r = OwnSnapshot(e) /\ r \in Snapshots /\ f.data.type = "RequestSnapshot"
                \/ r = Request(e) /\ r \in Requests /\ f.data.type = "DeltaUpdate"
  BY <1>0, Answered
<1>2. \A r : (r \in Snapshots => r.type = "FullSnapshot") /\ (r \in Requests => r.type = "RequestSnapshot")
  BY DEF Snapshots, Requests
<1>3. \A k \in DOMAIN list : list[k] \in ToSet(list) BY DEF ToSet
<1> HIDE DEF list
<1>4. out = MapList(list, g) BY <1>3 DEF MapList
<1>5. \A b \in ToSet(list) : g[b] \in Messages BY <1>0, <1>1 DEF Message, Messages
<1>6. \A b \in ToSet(list) : g[b].from = f.to /\ g[b].to = f.from /\ g[b].body = b
  BY <1>0 DEF Message
<1> HIDE DEF g, out
<1>7. /\ MapList(list, g) \in Seq(Messages)
      /\ \A y : y \in ToSet(MapList(list, g)) <=> \E x \in ToSet(list) : y = g[x]
  BY <1>1, <1>5, ListMade
<1>8. \A m \in ToSet(out) :
                 /\ m.from = f.to /\ m.to = f.from
                 /\ \/ f.data.type = "RequestSnapshot" /\ m.body = OwnSnapshot(e)
                       /\ m.body.type = "FullSnapshot"
                    \/ f.data.type = "DeltaUpdate" /\ m.body = Request(e)
                       /\ m.body.type = "RequestSnapshot"
  <2> TAKE m \in ToSet(out)
  <2>1. PICK b \in ToSet(list) : m = g[b] BY <1>4, <1>7
  <2> QED BY <2>1, <1>1, <1>2, <1>6
<1> QED BY <1>4, <1>7, <1>8 DEF list, out

\* One delivery.
LEMMA OneHandled ==
    ASSUME DataTyped, NEW ns \in NodeMaps, NEW frames \in Seq(Arrivals),
           NEW f \in ToSet(frames), NEW acc, Handled(ns, frames, acc)
    PROVE  Handled(ns, frames, Handle(acc, f))
<1>0. f \in Arrivals BY DEF ToSet
<1>1. /\ f.from \in Node /\ f.to \in Node /\ f.from # f.to
      /\ f.data \in Bodies /\ f.data.src = f.from BY <1>0, ArrivalTyped
<1>2. CASE acc.nodes[f.to] = Absent BY <1>2 DEF Handle
<1>3. CASE acc.nodes[f.to] # Absent
  <2> DEFINE n == f.to
             old == acc.nodes[n]
             e == old.engine
             x == HandleInbound(e, f.data)
             new == [old EXCEPT !.engine = x]
             answers == [k \in DOMAIN Replies(e, f.data) |-> Message(f.to, f.data.src, Replies(e, f.data)[k])]
             y == Handle(acc, f)
  <2>1. acc.nodes \in NodeMaps BY DEF Handled
  <2>2. old \in MockNodes(n) /\ e \in Engines /\ e.id = n BY <1>1, <1>3, <2>1, NodeTyped
  <2>3. ns[n] # Absent /\ KeptAt(ns, frames, n, old) BY <1>1, <1>3 DEF Handled
  <2>4. Undisturbed(e, x, f.from) BY <1>1, <2>2, InboundHandled
  <2>5. /\ answers \in Seq(Messages)
        /\ \A m \in ToSet(answers) :
             /\ m.from = f.to /\ m.to = f.from
             /\ \/ f.data.type = "RequestSnapshot" /\ m.body = OwnSnapshot(e)
                   /\ m.body.type = "FullSnapshot"
                \/ f.data.type = "DeltaUpdate" /\ m.body = Request(e)
                   /\ m.body.type = "RequestSnapshot"
    BY <1>0, <2>2, AnswersSent
  <2>6. y.nodes = [acc.nodes EXCEPT ![n] = new] /\ y.out = acc.out \o answers
    BY <1>3, <2>1 DEF Handle, NodeMaps
  <2> HIDE DEF x, answers, y
  <2>7. x \in Engines /\ x.id = n BY <2>2, <2>4 DEF Undisturbed
  <2>8. /\ new \in MockNodes(n) /\ new.engine = x
        /\ new.scheduled = old.scheduled /\ new.counter = old.counter
    BY <1>1, <2>2, <2>7, EngineReplaced
  <2> HIDE DEF old, new
  <2>9. Touched(frames, n, f.from) BY DEF Touched
  <2>10. KeptAt(ns, frames, n, new)
    <3>1. \A p \in Node : ~Touched(frames, n, p) => p # f.from BY <2>9
    <3> QED BY <2>3, <2>4, <2>8, <3>1 DEF KeptAt, Undisturbed
  <2>11. /\ y.nodes \in NodeMaps /\ y.nodes[n] = new
         /\ \A p \in Node \ {n} : y.nodes[p] = acc.nodes[p]
    <3> HIDE DEF n
    <3>1. n \in Node BY <1>1 DEF n
    <3> QED BY <2>1, <2>6, <2>8, <3>1, NodeReplaced
  <2>12. \A p \in Node : IF ns[p] = Absent THEN y.nodes[p] = Absent
                         ELSE KeptAt(ns, frames, p, y.nodes[p])
    BY <2>3, <2>10, <2>11 DEF Handled
  <2>13. /\ y.out \in Seq(Messages) /\ ToSet(y.out) = ToSet(acc.out) \cup ToSet(answers)
    BY <2>5, <2>6, JoinedLists DEF Handled
  <2>14. OwnSnapshot(e) = OwnSnapshot(ns[n].engine) /\ Request(e) = Request(ns[n].engine)
    <3>1. ns[n].engine \in Engines /\ ns[n].engine.id = n BY <1>1, <2>3, NodeTyped
    <3>2. e.gen = ns[n].engine.gen /\ e.value = ns[n].engine.value BY <2>3 DEF KeptAt
    <3> QED BY <2>2, <3>1, <3>2, SameOwnSnapshot
  <2>15. \A m \in ToSet(answers) : Answers(ns, f, m)
    BY <2>3, <2>5, <2>14 DEF Answers
  <2>16. \A m \in ToSet(y.out) : \E g \in ToSet(frames) : Answers(ns, g, m)
    BY <2>13, <2>15 DEF Handled
  <2> QED BY <2>11, <2>12, <2>13, <2>16 DEF Handled, y
<1> QED BY <1>2, <1>3

\* Phase 1 of tick: no node changes its own state, and every message that goes
\* out answers a delivered frame.
LEMMA AllHandled ==
    ASSUME DataTyped, NEW ns \in NodeMaps, NEW frames \in Seq(Arrivals)
    PROVE  Handled(ns, frames, FoldLeft(Handle, [nodes |-> ns, out |-> <<>>], frames))
<1> DEFINE base == [nodes |-> ns, out |-> <<>>]
<1>b. base.nodes = ns /\ base.out = <<>> OBVIOUS
<1> HIDE DEF base
<1>r. PICK run : HandleRun(base, frames, run) BY HandleRuns
<1>0. /\ Len(frames) \in Nat /\ \A k \in 1 .. Len(frames) : frames[k] \in ToSet(frames)
  BY DEF ToSet
<1>1. /\ run[0] = base
      /\ \A k \in 1 .. Len(frames) : run[k] = Handle(run[k - 1], frames[k])
      /\ FoldLeft(Handle, base, frames) = run[Len(frames)]
  BY <1>r DEF HandleRun
<1> DEFINE W == {k \in Nat : k <= Len(frames) => Handled(ns, frames, run[k])}
<1>2. 0 \in W
  <2>1. Handled(ns, frames, base)
    <3>1. \A n \in Node : ns[n] # Absent => KeptAt(ns, frames, n, ns[n])
      BY NodeTyped DEF KeptAt
    <3>2. base.out \in Seq(Messages) /\ ToSet(base.out) = {} BY <1>b, EmptyList
    <3> QED BY <1>b, <3>1, <3>2 DEF Handled
  <2> QED BY <2>1, <1>1
<1>3. ASSUME NEW k \in W PROVE k + 1 \in W
  <2> SUFFICES ASSUME k + 1 <= Len(frames) PROVE Handled(ns, frames, run[k + 1]) OBVIOUS
  <2>1. /\ k \in Nat /\ k + 1 \in 1 .. Len(frames) /\ (k + 1) - 1 = k
        /\ Handled(ns, frames, run[k]) BY <1>0
  <2>2. run[k + 1] = Handle(run[k], frames[k + 1]) /\ frames[k + 1] \in ToSet(frames)
    BY <1>0, <1>1, <2>1
  <2> QED BY <2>1, <2>2, OneHandled
<1>4. W \in SUBSET Nat OBVIOUS
<1>5. Len(frames) \in W
  <2> HIDE DEF W
  <2> QED BY <1>0, <1>2, <1>3, <1>4, SetInduction
<1>6. Handled(ns, frames, run[Len(frames)]) BY <1>0, <1>5
<1> QED BY <1>1, <1>6 DEF base

-----------------------------------------------------------------------------
(* tick: timers.                                                           *)

\* A delayed send or an announcement made by a timer of a node that is there.
TimerSends(ns, m) ==
    /\ m.from \in Node /\ ns[m.from] # Absent
    /\ \E s \in ToSet(ns[m.from].scheduled) : s.in = 0 /\ m.body = s.body
    /\ m.body.type = "FullSnapshot"

FeedSends(ns, m) ==
    /\ m.from \in Node /\ ns[m.from] # Absent
    /\ Flushes(ns, m.from) /\ m.body = FeedBatch(ns[m.from].engine)
    /\ m.body.type = "Feed"

ToOthers(ns, m) == m.to \in Node /\ m.to # m.from /\ ns[m.to] # Absent

\* Phase 2: the delayed sends of a node whose tick has come.
LEMMA TimersSent ==
    ASSUME NEW ns \in NodeMaps, NEW n \in Node, ns[n] # Absent
    PROVE  /\ Timers(ns, n) \in Seq(Messages)
           /\ \A m \in ToSet(Timers(ns, n)) : TimerSends(ns, m) /\ ToOthers(ns, m)
<1> DEFINE S == {s \in ToSet(ns[n].scheduled) : s.in = 0}
           due == Only(ns[n].scheduled, S)
           lists == [k \in DOMAIN due |-> Broadcast(ns, n, due[k].body)]
<1>1. ns[n].scheduled \in Seq(Timed(n)) BY NodeTyped
<1>2. due \in Seq(Timed(n)) /\ ToSet(due) \subseteq S BY <1>1, OnlyOf
<1>3. Timers(ns, n) = FlattenSeq(lists) BY DEF Timers, ForEach
<1>4. \A k \in DOMAIN due : due[k] \in ToSet(due) BY DEF ToSet
<1>5. DOMAIN due = 1 .. Len(due) /\ Len(due) \in Nat BY <1>2
<1> HIDE DEF due
<1>6. ASSUME NEW k \in DOMAIN due
      PROVE  /\ Broadcast(ns, n, due[k].body) \in Seq(Messages)
             /\ \A m \in ToSet(Broadcast(ns, n, due[k].body)) : TimerSends(ns, m) /\ ToOthers(ns, m)
  <2>1. due[k] \in Timed(n) /\ due[k] \in S BY <1>2, <1>4, <1>5
  <2>2. due[k].body \in Snapshots /\ due[k].body.src = n BY <2>1 DEF Timed
  <2>3. due[k].body \in Bodies /\ due[k].body.type = "FullSnapshot" BY <2>2 DEF Bodies, Snapshots
  <2>4. /\ Broadcast(ns, n, due[k].body) \in Seq(Messages)
        /\ \A m : m \in ToSet(Broadcast(ns, n, due[k].body)) <=>
             SentTo(ns, n, due[k].body, m)
    <3> DEFINE b == due[k].body
    <3>1. b \in Bodies /\ b.src = n BY <2>2, <2>3
    <3> HIDE DEF b
    <3>2. /\ Broadcast(ns, n, b) \in Seq(Messages)
          /\ \A m : m \in ToSet(Broadcast(ns, n, b)) <=>
               SentTo(ns, n, b, m)
      BY ONLY <3>1, BroadcastSent, n \in Node
    <3> QED BY <3>2 DEF b
  <2>5. ASSUME NEW p \in Node, p # n, ns[p] # Absent
        PROVE  TimerSends(ns, Message(n, p, due[k].body)) /\ ToOthers(ns, Message(n, p, due[k].body))
    BY <2>1, <2>3, <2>5 DEF TimerSends, ToOthers, Message
  <2> QED BY <2>4, <2>5 DEF SentTo
<1>7. lists \in Seq(Seq(Messages)) BY <1>5, <1>6
<1>8. \A k \in DOMAIN lists : k \in DOMAIN due /\ lists[k] = Broadcast(ns, n, due[k].body) OBVIOUS
<1> HIDE DEF lists
<1>9. /\ FlattenSeq(lists) \in Seq(Messages)
      /\ \A x : x \in ToSet(FlattenSeq(lists)) <=> \E i \in DOMAIN lists : x \in ToSet(lists[i])
  BY <1>7, Flattened
<1> QED BY <1>3, <1>6, <1>8, <1>9

\* Phase 3: the announcement of a node that flushes.
LEMMA FeedsSent ==
    ASSUME DataTyped, NEW ns \in NodeMaps, NEW n \in Node, ns[n] # Absent
    PROVE  /\ Feeds(ns, n) \in Seq(Messages)
           /\ \A m \in ToSet(Feeds(ns, n)) : FeedSends(ns, m) /\ ToOthers(ns, m)
<1>1. CASE ~Flushes(ns, n)
  <2>1. Feeds(ns, n) = <<>> BY <1>1 DEF Feeds
  <2> QED BY <2>1, EmptyList
<1>2. CASE Flushes(ns, n)
  <2> DEFINE b == FeedBatch(ns[n].engine)
  <2>1. Feeds(ns, n) = Broadcast(ns, n, b) BY <1>2 DEF Feeds
  <2>2. ns[n].engine \in Engines /\ ns[n].engine.id = n /\ ns[n].engine.feed # NoGen
    BY <1>2, NodeTyped DEF Flushes
  <2>3. b \in Bodies /\ b.src = n /\ b.type = "Feed" BY <2>2, BodiesMade
  <2> HIDE DEF b
  <2>4. /\ Broadcast(ns, n, b) \in Seq(Messages)
        /\ \A m : m \in ToSet(Broadcast(ns, n, b)) <=>
             SentTo(ns, n, b, m)
    BY <2>3, BroadcastSent
  <2>5. ASSUME NEW p \in Node, p # n, ns[p] # Absent
        PROVE  FeedSends(ns, Message(n, p, b)) /\ ToOthers(ns, Message(n, p, b))
    BY <1>2, <2>3, <2>5 DEF FeedSends, ToOthers, Message, b
  <2> QED BY <2>1, <2>4, <2>5 DEF SentTo
<1> QED BY <1>1, <1>2

AllTimers(ns) == ForEach(Present(ns), LAMBDA n : Timers(ns, n))
AllFeeds(ns) == ForEach(Present(ns), LAMBDA n : Feeds(ns, n))

\* Phases 2 and 3 at all nodes.
LEMMA AllTimersSent ==
    ASSUME DataTyped, NEW ns \in NodeMaps
    PROVE  /\ AllTimers(ns) \in Seq(Messages)
           /\ \A m \in ToSet(AllTimers(ns)) : TimerSends(ns, m) /\ ToOthers(ns, m)
           /\ AllFeeds(ns) \in Seq(Messages)
           /\ \A m \in ToSet(AllFeeds(ns)) : FeedSends(ns, m) /\ ToOthers(ns, m)
<1> DEFINE list == Present(ns)
           one == [k \in DOMAIN list |-> Timers(ns, list[k])]
           two == [k \in DOMAIN list |-> Feeds(ns, list[k])]
<1>1. list \in Seq(Node) /\ ToSet(list) = {n \in Node : ns[n] # Absent} BY PresentNodes
<1>2. AllTimers(ns) = FlattenSeq(one) /\ AllFeeds(ns) = FlattenSeq(two)
  BY DEF AllTimers, AllFeeds, ForEach
<1>3. \A k \in DOMAIN list : list[k] \in ToSet(list) BY DEF ToSet
<1>4. DOMAIN list = 1 .. Len(list) /\ Len(list) \in Nat BY <1>1
<1> HIDE DEF list
<1>5. ASSUME NEW k \in DOMAIN list
      PROVE  /\ Timers(ns, list[k]) \in Seq(Messages) /\ Feeds(ns, list[k]) \in Seq(Messages)
             /\ \A m \in ToSet(Timers(ns, list[k])) : TimerSends(ns, m) /\ ToOthers(ns, m)
             /\ \A m \in ToSet(Feeds(ns, list[k])) : FeedSends(ns, m) /\ ToOthers(ns, m)
  <2>1. list[k] \in Node /\ ns[list[k]] # Absent BY <1>1, <1>3
  <2> QED BY <2>1, TimersSent, FeedsSent
<1>6. one \in Seq(Seq(Messages)) /\ two \in Seq(Seq(Messages)) BY <1>4, <1>5
<1>7. /\ \A k \in DOMAIN one : k \in DOMAIN list /\ one[k] = Timers(ns, list[k])
      /\ \A k \in DOMAIN two : k \in DOMAIN list /\ two[k] = Feeds(ns, list[k]) OBVIOUS
<1> HIDE DEF one, two
<1>8. /\ FlattenSeq(one) \in Seq(Messages)
      /\ \A x : x \in ToSet(FlattenSeq(one)) <=> \E i \in DOMAIN one : x \in ToSet(one[i])
  BY <1>6, Flattened
<1>9. /\ FlattenSeq(two) \in Seq(Messages)
      /\ \A x : x \in ToSet(FlattenSeq(two)) <=> \E i \in DOMAIN two : x \in ToSet(two[i])
  BY <1>6, Flattened
<1> QED BY <1>2, <1>5, <1>7, <1>8, <1>9

\* The delayed sends that are not due come one tick closer.
LEMMA LaterTimers ==
    ASSUME NEW n \in Node, NEW list \in Seq(Timed(n)),
           NEW out, out = [k \in DOMAIN Later(list) |-> [Later(list)[k] EXCEPT !.in = @ - 1]]
    PROVE  /\ out \in Seq(Timed(n))
           /\ \A t \in ToSet(out) : \E s \in ToSet(list) :
                 s.in # 0 /\ t.body = s.body /\ t.in = s.in - 1
           /\ \A s \in ToSet(list) : s.in # 0 =>
                 \E t \in ToSet(out) : t.body = s.body /\ t.in = s.in - 1
<1> DEFINE later == Later(list)
           f == [s \in ToSet(later) |-> [s EXCEPT !.in = @ - 1]]
<1>1. later \in Seq(Timed(n)) /\ ToSet(later) = {s \in ToSet(list) : s.in # 0}
  <2>1. ToSet(list) \cap {s \in ToSet(list) : s.in # 0} = {s \in ToSet(list) : s.in # 0} OBVIOUS
  <2> QED BY <2>1, OnlyOf DEF Later
<1>2. \A k \in DOMAIN later : later[k] \in ToSet(later) BY DEF ToSet
<1> HIDE DEF later
<1>3. out = MapList(later, f) BY <1>2 DEF MapList, later
<1>4. \A s \in ToSet(list) : s \in Timed(n) BY DEF ToSet
<1>5. ASSUME NEW s \in ToSet(later)
      PROVE  f[s] \in Timed(n) /\ f[s].body = s.body /\ f[s].in = s.in - 1
  <2>1. s \in Timed(n) /\ s.in # 0 BY <1>1, <1>4
  <2> QED BY <2>1 DEF Timed
<1>6. \A s \in ToSet(later) : f[s] \in Timed(n) BY <1>5
<1> HIDE DEF f
<1>7. /\ MapList(later, f) \in Seq(Timed(n))
      /\ \A y : y \in ToSet(MapList(later, f)) <=> \E x \in ToSet(later) : y = f[x]
  BY <1>1, <1>6, ListMade
<1>8. \A t \in ToSet(out) : \E s \in ToSet(list) :
                 s.in # 0 /\ t.body = s.body /\ t.in = s.in - 1
  <2> TAKE t \in ToSet(out)
  <2>1. PICK s \in ToSet(later) : t = f[s] BY <1>3, <1>7
  <2>2. s \in ToSet(list) /\ s.in # 0 BY <1>1
  <2>3. t.body = s.body /\ t.in = s.in - 1 BY <2>1, <1>5
  <2> QED BY <2>2, <2>3
<1>9. \A s \in ToSet(list) : s.in # 0 =>
                 \E t \in ToSet(out) : t.body = s.body /\ t.in = s.in - 1
  BY <1>1, <1>3, <1>5, <1>7
<1> QED BY <1>3, <1>7, <1>8, <1>9

\* Phases 2 to 4 at one node.
LEMMA TimersRun ==
    ASSUME NEW ns \in NodeMaps, NEW n \in Node, ns[n] # Absent
    PROVE  /\ AfterTimers(ns, n) \in MockNodes(n)
           /\ \A t \in ToSet(AfterTimers(ns, n).scheduled) : \E s \in ToSet(ns[n].scheduled) :
                 s.in # 0 /\ t.body = s.body /\ t.in = s.in - 1
           /\ \A s \in ToSet(ns[n].scheduled) : s.in # 0 =>
                 \E t \in ToSet(AfterTimers(ns, n).scheduled) : t.body = s.body /\ t.in = s.in - 1
           /\ AfterTimers(ns, n).engine =
                 IF Flushes(ns, n) THEN Flushed(ns[n].engine) ELSE ns[n].engine
           /\ AfterTimers(ns, n).counter =
                 IF ns[n].engine.feed = NoGen \/ Flushes(ns, n) THEN 0 ELSE ns[n].counter + 1
           /\ AfterTimers(ns, n).engine.id = n
           /\ AfterTimers(ns, n).engine.gen = ns[n].engine.gen
           /\ AfterTimers(ns, n).engine.value = ns[n].engine.value
           /\ AfterTimers(ns, n).engine.views = ns[n].engine.views
           /\ AfterTimers(ns, n).engine.departed = ns[n].engine.departed
           /\ AfterTimers(ns, n).engine.diag = ns[n].engine.diag
           /\ AfterTimers(ns, n).engine.feed = IF Flushes(ns, n) THEN NoGen ELSE ns[n].engine.feed
<1> DEFINE old == ns[n]
           e == old.engine
           later == [k \in DOMAIN Later(old.scheduled) |-> [Later(old.scheduled)[k] EXCEPT !.in = @ - 1]]
           x == IF Flushes(ns, n) THEN Flushed(e) ELSE e
           c == IF e.feed = NoGen \/ Flushes(ns, n) THEN 0 ELSE old.counter + 1
           y == AfterTimers(ns, n)
<1>1. e \in Engines /\ e.id = n /\ old.scheduled \in Seq(Timed(n))
      /\ old.counter \in 0 .. FeedFlushInterval - 1 BY NodeTyped
<1>2. y = [engine |-> x, scheduled |-> later, counter |-> c] BY DEF AfterTimers
<1>3. /\ x \in Engines /\ x.id = n /\ x.gen = e.gen /\ x.value = e.value /\ x.views = e.views
      /\ x.departed = e.departed /\ x.diag = e.diag
      /\ x.feed = IF Flushes(ns, n) THEN NoGen ELSE e.feed
  <2>1. Flushed(e) \in Engines
    <3>1. NoGen \in OptGeneration BY DEF OptGeneration
    <3> QED BY <1>1, <3>1 DEF Flushed, Engines, EngineRecords, OwnsEntry
  <2> QED BY <2>1, <1>1 DEF Flushed, Engines, EngineRecords
<1>4. c \in 0 .. FeedFlushInterval - 1 BY <1>1, Timing DEF Flushes
<1>5. /\ later \in Seq(Timed(n))
      /\ \A t \in ToSet(later) : \E s \in ToSet(old.scheduled) :
            s.in # 0 /\ t.body = s.body /\ t.in = s.in - 1
      /\ \A s \in ToSet(old.scheduled) : s.in # 0 =>
            \E t \in ToSet(later) : t.body = s.body /\ t.in = s.in - 1
  BY <1>1, LaterTimers
<1> HIDE DEF x, later, c, y
<1>6. y.engine = x /\ y.scheduled = later /\ y.counter = c BY <1>2
<1>7. y \in MockNodes(n) BY <1>2, <1>3, <1>4, <1>5 DEF MockNodes
<1>8. x = IF Flushes(ns, n) THEN Flushed(e) ELSE e BY DEF x
<1>9. c = IF e.feed = NoGen \/ Flushes(ns, n) THEN 0 ELSE old.counter + 1 BY DEF c
<1> QED BY <1>3, <1>5, <1>6, <1>7, <1>8, <1>9 DEF y

-----------------------------------------------------------------------------
(* with_test_state.                                                        *)

BuildStep(c, d, acc, n) ==
    [nodes |-> Admitted(acc.nodes, n, 1), sent |-> acc.sent \o Greetings(acc.nodes, n, 1)]
Building == INSTANCE FoldProofs WITH Op <- BuildStep

NoNodes == [nodes |-> [n \in Node |-> Absent], sent |-> <<>>]

\* with_test_state, as the fold of Init.
Built ==
    LET Build(c, n) ==
            [nodes |-> Admitted(c.nodes, n, 1),
             sent |-> c.sent \o Greetings(c.nodes, n, 1)]
    IN  FoldLeft(Build, [nodes |-> [n \in Node |-> Absent], sent |-> <<>>], NodeOrder)

BuildRun(run) ==
    /\ run[0] = NoNodes
    /\ \A k \in 1 .. Len(NodeOrder) :
          /\ run[k].nodes = Admitted(run[k - 1].nodes, NodeOrder[k], 1)
          /\ run[k].sent = run[k - 1].sent \o Greetings(run[k - 1].nodes, NodeOrder[k], 1)
    /\ Built = run[Len(NodeOrder)]

\* with_test_state adds one node after the other.
LEMMA BuildRuns == \E run : BuildRun(run)
<1> DEFINE n == Len(NodeOrder)
<1>1. n \in Nat /\ DOMAIN NodeOrder = 1 .. n /\ NodeOrder \in Seq(Node)
    BY ClusterAssumption
<1>2. Built = Building!Folded(NoNodes, NoNodes, NoNodes, NodeOrder)
    BY DEF Built, NoNodes, BuildStep, FoldLeft, MapThenFoldSet, Max, Building!Folded, Building!Iterate, Building!Top
<1> HIDE DEF n
<1>3. PICK run : /\ Building!IsRun(NoNodes, NoNodes, NoNodes, NodeOrder, run)
                 /\ run[n] = Building!Folded(NoNodes, NoNodes, NoNodes, NodeOrder)
    BY <1>1, Building!FoldLeftRuns
<1>4. /\ run[0] = NoNodes
      /\ \A k \in 1 .. n : run[k] = BuildStep(NoNodes, NoNodes, run[k - 1], NodeOrder[k])
    BY <1>1, <1>3 DEF Building!IsRun
<1>5. ASSUME NEW k \in 1 .. n
      PROVE  /\ run[k].nodes = Admitted(run[k - 1].nodes, NodeOrder[k], 1)
             /\ run[k].sent = run[k - 1].sent \o Greetings(run[k - 1].nodes, NodeOrder[k], 1)
  <2> DEFINE A == Admitted(run[k - 1].nodes, NodeOrder[k], 1)
             S == run[k - 1].sent \o Greetings(run[k - 1].nodes, NodeOrder[k], 1)
  <2>1. run[k] = [nodes |-> A, sent |-> S]
    BY <1>4 DEF BuildStep
  <2> HIDE DEF A, S
  <2>2. run[k].nodes = A /\ run[k].sent = S BY <2>1
  <2> QED BY <2>2 DEF A, S
<1>6. BuildRun(run)
    BY <1>2, <1>3, <1>4, <1>5 DEF n, BuildRun
<1> QED BY <1>6

\* A node of a cluster no call has touched yet.
FreshAt(M, n, x) ==
    /\ x \in MockNodes(n)
    /\ x.scheduled = <<>>
    /\ SameState(NewEngine(n, 1), x.engine)
    /\ x.engine.departed = {} /\ x.engine.diag = NewEngine(n, 1).diag
    /\ \A q \in Node \ {n} : x.engine.views[q] = IF q \in M THEN Placeholder(DefaultView) ELSE NoView

FirstGreeting(M, m) ==
    \E p \in M, q \in M : p # q /\ m = Message(p, q, OwnSnapshot(NewEngine(p, 1)))

Fresh(M, acc) ==
    /\ acc.nodes \in NodeMaps
    /\ \A n \in Node \ M : acc.nodes[n] = Absent
    /\ \A n \in M : FreshAt(M, n, acc.nodes[n]) /\ acc.nodes[n] # Absent
    /\ acc.sent \in Seq(Messages)
    /\ \A m : m \in ToSet(acc.sent) <=> FirstGreeting(M, m)

AbsentIsNoNode == Absent \notin AnyNode

\* One more node added to a cluster no call has touched.
LEMMA FreshJoined ==
    ASSUME DataTyped, AbsentIsNoNode,
           NEW M \in SUBSET Node, NEW n \in Node \ M, NEW acc, Fresh(M, acc),
           NEW y, y.nodes = Admitted(acc.nodes, n, 1),
           y.sent = acc.sent \o Greetings(acc.nodes, n, 1)
    PROVE  Fresh(M \cup {n}, y)
<1>0. PICK ns : ns = acc.nodes OBVIOUS
<1> DEFINE A == Admitted(ns, n, 1)
           G == Greetings(ns, n, 1)
<1>1. /\ ns \in NodeMaps /\ ns[n] = Absent /\ acc.sent \in Seq(Messages)
      /\ y.nodes = A /\ y.sent = acc.sent \o G
  BY <1>0 DEF Fresh
<1>f. /\ \A p \in Node \ M : ns[p] = Absent
      /\ \A p \in M : FreshAt(M, p, ns[p]) /\ ns[p] # Absent BY <1>0 DEF Fresh
<1>2. /\ A \in NodeMaps
      /\ Newcomer(ns, n, 1, A[n])
      /\ \A p \in Node \ {n} :
            IF ns[p] = Absent THEN A[p] = Absent ELSE Welcomes(ns, n, p, A[p])
  BY <1>1, NodeAdmitted
<1>3. /\ G \in Seq(Messages)
      /\ \A m : m \in ToSet(G) <=> Greeting(ns, n, 1, m)
  BY <1>1, GreetingsSent
<1> HIDE DEF A, G
<1>4. \A p \in Node \ (M \cup {n}) : A[p] = Absent BY <1>2, <1>f
<1>5. ASSUME NEW p \in M PROVE FreshAt(M \cup {n}, p, A[p])
  <2>1. FreshAt(M, p, ns[p]) /\ p \in Node /\ p # n /\ ns[p] # Absent BY <1>f
  <2>2. ns[p].engine \in Engines /\ ns[p].engine.id = p BY <1>1, <2>1, NodeTyped
  <2> DEFINE x == OnNodeJoined(ns[p].engine, n)
  <2>3. /\ SameState(ns[p].engine, x)
        /\ x.departed = ns[p].engine.departed \ {n}
        /\ x.diag = ns[p].engine.diag
        /\ x.views[n] = InsertPlaceholder(ns[p].engine.views[n], DefaultView)
        /\ \A q \in Node \ {n} : x.views[q] = ns[p].engine.views[q]
    BY <2>1, <2>2, JoinHandled
  <2>4. A[p] \in MockNodes(p) /\ A[p].engine = x /\ A[p].scheduled = ns[p].scheduled
    BY <1>2, <2>1 DEF Welcomes
  <2> HIDE DEF x
  <2>5. SameState(NewEngine(p, 1), x) BY <2>1, <2>3 DEF FreshAt, SameState
  <2>6. x.departed = {} /\ x.diag = NewEngine(p, 1).diag BY <2>1, <2>3 DEF FreshAt
  <2>7. ASSUME NEW q \in Node \ {p}
        PROVE  x.views[q] = IF q \in M \cup {n} THEN Placeholder(DefaultView) ELSE NoView
    <3>1. ns[p].engine.views[q] = IF q \in M THEN Placeholder(DefaultView) ELSE NoView BY <2>1 DEF FreshAt
    <3>2. CASE q = n BY <2>3, <3>1, <3>2 DEF InsertPlaceholder
    <3>3. CASE q # n BY <2>3, <3>1, <3>3
    <3> QED BY <3>2, <3>3
  <2>8. A[p].scheduled = <<>> BY <2>1, <2>4 DEF FreshAt
  <2> QED BY <2>4, <2>5, <2>6, <2>7, <2>8 DEF FreshAt
<1>6. FreshAt(M \cup {n}, n, A[n])
  <2>1. \A q \in Node \ {n} : (ns[q] # Absent) <=> q \in M \cup {n} BY <1>f
  <2> QED BY <1>2, <2>1 DEF Newcomer, FreshAt
<1>7. \A p \in M \cup {n} : A[p] \in MockNodes(p) /\ A[p] # Absent
  <2>1. \A p \in M \cup {n} : A[p] \in MockNodes(p) BY <1>5, <1>6 DEF FreshAt
  <2> QED BY <2>1 DEF AbsentIsNoNode, AnyNode
<1>8. y.sent \in Seq(Messages) /\ ToSet(y.sent) = ToSet(acc.sent) \cup ToSet(G)
  <2>1. PICK old : old = acc.sent OBVIOUS
  <2>2. old \o G \in Seq(Messages) /\ ToSet(old \o G) = ToSet(old) \cup ToSet(G)
    BY <1>1, <1>3, <2>1, JoinedLists
  <2> QED BY <1>1, <2>1, <2>2
<1>9. \A p \in M : OwnSnapshot(ns[p].engine) = OwnSnapshot(NewEngine(p, 1))
  <2> TAKE p \in M
  <2>1. FreshAt(M, p, ns[p]) /\ p \in Node /\ ns[p] # Absent BY <1>f
  <2>2. NewEngine(p, 1) \in Engines BY <2>1, EngineMade
  <2>3. ns[p].engine \in Engines BY <1>1, <2>1, NodeTyped
  <2> QED BY <2>1, <2>2, <2>3, SameOwnSnapshot DEF FreshAt, SameState
<1>10. \A m : m \in ToSet(acc.sent) <=> FirstGreeting(M, m) BY DEF Fresh
<1>11. \A m : Greeting(ns, n, 1, m) <=>
            \E p \in M : \/ m = Message(p, n, OwnSnapshot(NewEngine(p, 1)))
                         \/ m = Message(n, p, OwnSnapshot(NewEngine(n, 1)))
  BY <1>9, <1>f DEF Greeting
<1>12. \A m : FirstGreeting(M \cup {n}, m) <=> FirstGreeting(M, m) \/
            \E p \in M : \/ m = Message(p, n, OwnSnapshot(NewEngine(p, 1)))
                         \/ m = Message(n, p, OwnSnapshot(NewEngine(n, 1)))
  <2> TAKE m
  <2>1. ASSUME FirstGreeting(M \cup {n}, m)
        PROVE  FirstGreeting(M, m) \/
            \E p \in M : \/ m = Message(p, n, OwnSnapshot(NewEngine(p, 1)))
                         \/ m = Message(n, p, OwnSnapshot(NewEngine(n, 1)))
    <3>1. PICK p \in M \cup {n}, q \in M \cup {n} : p # q /\ m = Message(p, q, OwnSnapshot(NewEngine(p, 1)))
      BY <2>1 DEF FirstGreeting
    <3> QED BY <3>1 DEF FirstGreeting
  <2>2. ASSUME FirstGreeting(M, m) PROVE FirstGreeting(M \cup {n}, m) BY <2>2 DEF FirstGreeting
  <2>3. ASSUME NEW p \in M, \/ m = Message(p, n, OwnSnapshot(NewEngine(p, 1)))
                            \/ m = Message(n, p, OwnSnapshot(NewEngine(n, 1)))
        PROVE FirstGreeting(M \cup {n}, m)
    BY <2>3 DEF FirstGreeting
  <2> QED BY <2>1, <2>2, <2>3
<1>13. \A m : m \in ToSet(y.sent) <=> FirstGreeting(M \cup {n}, m)
  BY <1>3, <1>8, <1>10, <1>11, <1>12
<1> QED BY <1>1, <1>2, <1>4, <1>5, <1>6, <1>7, <1>8, <1>13 DEF Fresh

\* with_test_state: each node knows of every other, and each has sent every other
\* its first snapshot.
LEMMA BuiltFresh ==
    ASSUME DataTyped, AbsentIsNoNode PROVE Fresh(Node, Built)
<1>1. PICK run : BuildRun(run) BY BuildRuns
<1> DEFINE N == Len(NodeOrder)
           M(k) == {NodeOrder[j] : j \in 1 .. k}
           W == {k \in Nat : k <= N => Fresh(M(k), run[k])}
<1>0. /\ N \in Nat /\ DOMAIN NodeOrder = 1 .. N
      /\ \A j \in 1 .. N : NodeOrder[j] \in Node
      /\ \A i, j \in 1 .. N : NodeOrder[i] = NodeOrder[j] => i = j
      /\ M(N) = Node
  <2>1. NodeOrder \in Seq(Node) /\ ToSet(NodeOrder) = Node /\ IsInjective(NodeOrder)
    BY ClusterAssumption
  <2>2. N \in Nat /\ DOMAIN NodeOrder = 1 .. N BY <2>1
  <2>3. \A i, j \in 1 .. N : NodeOrder[i] = NodeOrder[j] => i = j BY <2>1, <2>2 DEF IsInjective
  <2> QED BY <2>1, <2>2, <2>3 DEF ToSet
<1>2. 0 \in W
  <2>1. M(0) = {}
    <3>1. 1 .. 0 = {} OBVIOUS
    <3> QED BY <3>1
  <2>2. run[0].nodes = [n \in Node |-> Absent] /\ run[0].sent = <<>> BY <1>1 DEF BuildRun, NoNodes
  <2>3. run[0].nodes \in NodeMaps
    <3>1. \A n \in Node : run[0].nodes[n] = Absent BY <2>2
    <3>2. run[0].nodes = [n \in Node |-> run[0].nodes[n]] BY <2>2
    <3> QED BY <3>1, <3>2, NodeMapMade
  <2>4. run[0].sent \in Seq(Messages) /\ ToSet(run[0].sent) = {} BY <2>2, EmptyList
  <2>5. Fresh({}, run[0]) BY <2>2, <2>3, <2>4 DEF Fresh, FirstGreeting
  <2> QED BY <2>1, <2>5
<1>3. ASSUME NEW k \in W PROVE k + 1 \in W
  <2> SUFFICES ASSUME k + 1 <= N PROVE Fresh(M(k + 1), run[k + 1]) OBVIOUS
  <2>1. k \in Nat /\ k + 1 \in 1 .. N /\ (k + 1) - 1 = k /\ Fresh(M(k), run[k]) BY <1>0
  <2> DEFINE n == NodeOrder[k + 1]
  <2>2. M(k) \in SUBSET Node /\ n \in Node \ M(k) BY <1>0, <2>1
  <2>3. M(k + 1) = M(k) \cup {n}
    <3>1. 1 .. k + 1 = (1 .. k) \cup {k + 1} BY <2>1
    <3> QED BY <3>1
  <2>4. /\ run[k + 1].nodes = Admitted(run[k].nodes, n, 1)
        /\ run[k + 1].sent = run[k].sent \o Greetings(run[k].nodes, n, 1)
    BY <1>1, <2>1 DEF BuildRun
  <2> HIDE DEF M, n, W
  <2> QED BY <2>1, <2>2, <2>3, <2>4, FreshJoined
<1>4. W \in SUBSET Nat OBVIOUS
<1>5. N \in W
  <2> HIDE DEF W
  <2> QED BY <1>0, <1>2, <1>3, <1>4, SetInduction
<1>6. Fresh(M(N), run[N])
  <2> HIDE DEF M, N
  <2>1. N <= N BY <1>0
  <2> QED BY <1>5, <2>1
<1> QED BY <1>0, <1>1, <1>6 DEF BuildRun

-----------------------------------------------------------------------------
(* The state, and a tick as a whole.                                       *)

NodesTyped == nodes \in NodeMaps
QueueTyped == in_flight \in Seq(Frames)
TestTyped ==
    /\ interceptors \in Seq(Interceptor)
    /\ lives \in [Node -> Nat]
    /\ calls \in 0 .. MaxCalls
    /\ waited \in Nat
    /\ stamped \in SUBSET Node
    /\ excused \in SUBSET (Node \X Node)
    /\ withheld \in SUBSET Node
    /\ crashed \in SUBSET Node

TypeInv == NodesTyped /\ QueueTyped /\ TestTyped

GarbageIsNoBody == Garbage \notin Bodies

Typed == DataTyped /\ AbsentIsNoNode /\ GarbageIsNoBody

\* The queue and the ghost as one network.
LEMMA NetworkTyped == ASSUME TypeInv PROVE Network \in Networks /\ Network.queue = in_flight /\ Network.excused = excused
BY DEF TypeInv, QueueTyped, TestTyped, Network, Networks

\* What a call's sends make of the queue.
LEMMA CallSends ==
    ASSUME TypeInv, NEW messages \in Seq(Messages), NEW news \in BOOLEAN,
           Into(SendAll(Network, messages, news))
    PROVE  \E net \in SendAll(Network, messages, news) :
              /\ Grown(Network, messages, net)
              /\ in_flight' = net.queue /\ excused' = net.excused
              /\ in_flight' \in Seq(Frames) /\ excused' \in SUBSET (Node \X Node)
<1>1. PICK net \in SendAll(Network, messages, news) : in_flight' = net.queue /\ excused' = net.excused
  BY DEF Into
<1>2. Network \in Networks BY NetworkTyped
<1>3. interceptors \in Seq(Interceptor) BY DEF TypeInv, TestTyped
<1>4. PICK old : old = Network OBVIOUS
<1>5. Grown(old, messages, net) BY <1>1, <1>2, <1>3, <1>4, SendAllGrows
<1>6. net.queue \in Seq(Frames) /\ net.excused \in SUBSET (Node \X Node) BY <1>5 DEF Grown, Networks
<1> QED BY <1>1, <1>4, <1>5, <1>6

\* The queue after a tick.
LEMMA QueueAdvanced ==
    ASSUME NEW q \in Seq(Frames), \A f \in ToSet(q) : f.due >= 1
    PROVE  /\ AdvanceTick(q) \in Seq(Frames)
           /\ DOMAIN AdvanceTick(q) = DOMAIN q
           /\ \A k \in DOMAIN q : /\ AdvanceTick(q)[k].from = q[k].from /\ AdvanceTick(q)[k].to = q[k].to
                                  /\ AdvanceTick(q)[k].data = q[k].data
                                  /\ AdvanceTick(q)[k].due = q[k].due - 1
           /\ \A f : f \in ToSet(AdvanceTick(q)) <=> \E g \in ToSet(q) : f = [g EXCEPT !.due = @ - 1]
           /\ \A f \in ToSet(AdvanceTick(q)) : \E g \in ToSet(q) :
                 f.from = g.from /\ f.to = g.to /\ f.data = g.data /\ f.due = g.due - 1
<1>1. DOMAIN q = 1 .. Len(q) /\ Len(q) \in Nat OBVIOUS
<1>2. \A k \in DOMAIN q : q[k] \in ToSet(q) /\ q[k] \in Frames BY DEF ToSet
<1>3. \A f \in ToSet(q) : f \in Frames BY DEF ToSet
<1>4. ASSUME NEW g \in ToSet(q)
      PROVE  /\ [g EXCEPT !.due = @ - 1] \in Frames
             /\ [g EXCEPT !.due = @ - 1].from = g.from /\ [g EXCEPT !.due = @ - 1].to = g.to
             /\ [g EXCEPT !.due = @ - 1].data = g.data /\ [g EXCEPT !.due = @ - 1].due = g.due - 1
  <2>1. g \in Frames /\ g.due >= 1 BY <1>3
  <2> QED BY <2>1 DEF Frames
<1>5. /\ DOMAIN AdvanceTick(q) = DOMAIN q
      /\ \A k \in DOMAIN q : AdvanceTick(q)[k] = [q[k] EXCEPT !.due = @ - 1]
  BY DEF AdvanceTick
<1>6. AdvanceTick(q) \in Seq(Frames)
  <2>1. \A k \in 1 .. Len(q) : [q[k] EXCEPT !.due = @ - 1] \in Frames BY <1>1, <1>2, <1>4
  <2> QED BY <1>1, <2>1 DEF AdvanceTick
<1>7. \A f : f \in ToSet(AdvanceTick(q)) <=> \E g \in ToSet(q) : f = [g EXCEPT !.due = @ - 1]
  <2>1. \A f : f \in ToSet(AdvanceTick(q)) <=> \E k \in DOMAIN q : f = [q[k] EXCEPT !.due = @ - 1]
    BY <1>5 DEF ToSet
  <2>2. \A g : g \in ToSet(q) <=> \E k \in DOMAIN q : g = q[k] BY DEF ToSet
  <2> QED BY <2>1, <2>2
<1>8. \A k \in DOMAIN q : /\ AdvanceTick(q)[k].from = q[k].from /\ AdvanceTick(q)[k].to = q[k].to
                          /\ AdvanceTick(q)[k].data = q[k].data
                          /\ AdvanceTick(q)[k].due = q[k].due - 1
  BY <1>2, <1>4, <1>5
<1>9. \A f \in ToSet(AdvanceTick(q)) : \E g \in ToSet(q) :
         f.from = g.from /\ f.to = g.to /\ f.data = g.data /\ f.due = g.due - 1
  <2> TAKE f \in ToSet(AdvanceTick(q))
  <2>1. PICK g \in ToSet(q) : f = [g EXCEPT !.due = @ - 1] BY <1>7
  <2> QED BY <1>4, <2>1
<1> QED BY <1>5, <1>6, <1>7, <1>8, <1>9

\* The deliveries of a tick, and what waits on.
LEMMA QueueParted ==
    ASSUME NEW q \in Seq(Frames)
    PROVE  /\ Delivered(q) \in Seq(Arrivals)
           /\ ToSet(Delivered(q)) = {f \in ToSet(q) : f.due = 0 /\ f.data # Garbage}
           /\ StillWaiting(q) \in Seq(Frames)
           /\ ToSet(StillWaiting(q)) = {f \in ToSet(q) : f.due >= 1}
<1>1. \A f \in ToSet(q) : f \in Frames BY DEF ToSet
<1>2. \A f \in ToSet(q) : (IsDue(f) <=> f.due = 0) /\ (~IsDue(f) <=> f.due >= 1)
  <2> TAKE f \in ToSet(q)
  <2>1. f.due \in Nat BY <1>1 DEF Frames
  <2> QED BY <2>1 DEF IsDue
<1> DEFINE D == {f \in ToSet(q) : IsDue(f) /\ f.data # Garbage}
           S == {f \in ToSet(q) : ~IsDue(f)}
<1>3. Delivered(q) \in Seq(Frames) /\ ToSet(Delivered(q)) = ToSet(q) \cap D
  BY OnlyOf DEF Delivered
<1>4. StillWaiting(q) \in Seq(Frames) /\ ToSet(StillWaiting(q)) = ToSet(q) \cap S
  BY OnlyOf DEF StillWaiting
<1>5. \A f \in ToSet(Delivered(q)) : f \in Arrivals BY <1>1, <1>3 DEF Arrivals
<1>6. Delivered(q) \in Seq(Arrivals)
  <2>1. \A k \in 1 .. Len(Delivered(q)) : Delivered(q)[k] \in ToSet(Delivered(q)) BY <1>3 DEF ToSet
  <2> QED BY <1>3, <1>5, <2>1
<1> QED BY <1>2, <1>3, <1>4, <1>6

\* A tick: what is handled, sent and left.
TickSends(acc) == acc.out \o AllTimers(acc.nodes) \o AllFeeds(acc.nodes)

Waiting == [queue |-> StillWaiting(in_flight), excused |-> excused \cup Unheard]

TickTaken(acc, net) ==
    /\ acc = FoldLeft(Handle, [nodes |-> nodes, out |-> <<>>], Delivered(in_flight))
    /\ Handled(nodes, Delivered(in_flight), acc)
    /\ TickSends(acc) \in Seq(Messages)
    /\ ToSet(TickSends(acc)) =
          ToSet(acc.out) \cup ToSet(AllTimers(acc.nodes)) \cup ToSet(AllFeeds(acc.nodes))
    /\ \A m \in ToSet(TickSends(acc)) :
          \/ \E f \in ToSet(Delivered(in_flight)) : Answers(nodes, f, m)
          \/ TimerSends(acc.nodes, m) /\ ToOthers(acc.nodes, m)
          \/ FeedSends(acc.nodes, m) /\ ToOthers(acc.nodes, m)
    /\ Waiting \in Networks /\ Waiting.queue = StillWaiting(in_flight)
    /\ Waiting.excused = excused \cup Unheard
    /\ net \in SendAll(Waiting, TickSends(acc), FALSE)
    /\ Grown(Waiting, TickSends(acc), net)
    /\ \A f \in ToSet(net.queue) : f.due >= 1
    /\ in_flight' = AdvanceTick(net.queue) /\ excused' = net.excused
    /\ in_flight' \in Seq(Frames) /\ excused' \in SUBSET (Node \X Node)
    /\ nodes' \in NodeMaps
    /\ \A n \in Node : nodes'[n] = IF acc.nodes[n] = Absent THEN Absent
                                   ELSE AfterTimers(acc.nodes, n)

\* What a tick does, phase by phase.
LEMMA TickUnfolds ==
    ASSUME DataTyped, TypeInv, Tick PROVE \E acc, net : TickTaken(acc, net)
<1> DEFINE frames == Delivered(in_flight)
<1>0. /\ nodes \in NodeMaps /\ in_flight \in Seq(Frames)
      /\ interceptors \in Seq(Interceptor) /\ excused \in SUBSET (Node \X Node)
  BY DEF TypeInv, NodesTyped, QueueTyped, TestTyped
<1>1. /\ frames \in Seq(Arrivals)
      /\ ToSet(frames) = {f \in ToSet(in_flight) : f.due = 0 /\ f.data # Garbage}
      /\ StillWaiting(in_flight) \in Seq(Frames)
      /\ ToSet(StillWaiting(in_flight)) = {f \in ToSet(in_flight) : f.due >= 1}
  BY <1>0, QueueParted
<1>2. PICK acc : acc = FoldLeft(Handle, [nodes |-> nodes, out |-> <<>>], frames) OBVIOUS
<1>3. Handled(nodes, frames, acc)
  <2>1. PICK ns : ns = nodes OBVIOUS
  <2> HIDE DEF frames
  <2> QED BY <1>0, <1>1, <1>2, <2>1, AllHandled
<1> DEFINE ns == acc.nodes
           sends == TickSends(acc)
<1>4. ns \in NodeMaps /\ acc.out \in Seq(Messages) BY <1>3 DEF Handled
<1>5. /\ AllTimers(ns) \in Seq(Messages)
      /\ \A m \in ToSet(AllTimers(ns)) : TimerSends(ns, m) /\ ToOthers(ns, m)
      /\ AllFeeds(ns) \in Seq(Messages)
      /\ \A m \in ToSet(AllFeeds(ns)) : FeedSends(ns, m) /\ ToOthers(ns, m)
  BY <1>4, AllTimersSent
<1>6. /\ sends \in Seq(Messages)
      /\ ToSet(sends) = ToSet(acc.out) \cup ToSet(AllTimers(ns)) \cup ToSet(AllFeeds(ns))
  <2>1. PICK a, b, c : a = acc.out /\ b = AllTimers(ns) /\ c = AllFeeds(ns) OBVIOUS
  <2>2. a \in Seq(Messages) /\ b \in Seq(Messages) /\ c \in Seq(Messages) BY <1>4, <1>5, <2>1
  <2>3. a \o b \in Seq(Messages) /\ ToSet(a \o b) = ToSet(a) \cup ToSet(b) BY <2>2, JoinedLists
  <2>4. PICK d : d = a \o b OBVIOUS
  <2>7. d \in Seq(Messages) BY <2>3, <2>4
  <2>5. d \o c \in Seq(Messages) /\ ToSet(d \o c) = ToSet(d) \cup ToSet(c) BY <2>2, <2>7, JoinedLists
  <2>6. sends = d \o c BY <2>1, <2>4 DEF TickSends
  <2> QED BY <2>1, <2>3, <2>4, <2>5, <2>6
<1>7. \A m \in ToSet(sends) :
          \/ \E f \in ToSet(frames) : Answers(nodes, f, m)
          \/ TimerSends(ns, m) /\ ToOthers(ns, m)
          \/ FeedSends(ns, m) /\ ToOthers(ns, m)
  BY <1>3, <1>5, <1>6 DEF Handled
<1>8. /\ Waiting \in Networks /\ Waiting.queue = StillWaiting(in_flight)
      /\ Waiting.excused = excused \cup Unheard
  <2>1. \A f \in ToSet(frames) : f.from \in Node /\ f.to \in Node
    BY <1>1, ArrivalTyped DEF ToSet
  <2>2. Unheard \in SUBSET (Node \X Node) BY <2>1 DEF Unheard
  <2> QED BY <1>0, <1>1, <2>2 DEF Waiting, Networks
<1>9. Into({[net EXCEPT !.queue = AdvanceTick(@)] : net \in SendAll(Waiting, sends, FALSE)})
  BY <1>2 DEF Tick, Waiting, TickSends, AllTimers, AllFeeds
<1>10. nodes' = [n \in Node |-> IF ns[n] = Absent THEN Absent ELSE AfterTimers(ns, n)]
  BY <1>2 DEF Tick
<1> HIDE DEF sends, frames
<1>11. PICK net \in SendAll(Waiting, sends, FALSE) :
          LET x == [net EXCEPT !.queue = AdvanceTick(@)] IN in_flight' = x.queue /\ excused' = x.excused
  BY <1>9 DEF Into
<1>12. PICK w : w = Waiting OBVIOUS
<1>13. Grown(w, sends, net) BY <1>0, <1>6, <1>8, <1>11, <1>12, SendAllGrows
<1>14. net \in Networks /\ net.queue \in Seq(Frames) /\ net.excused \in SUBSET (Node \X Node)
  BY <1>13 DEF Grown, Networks
<1>15. in_flight' = AdvanceTick(net.queue) /\ excused' = net.excused BY <1>11, <1>14 DEF Networks
<1>16. \A f \in ToSet(net.queue) : f.due >= 1
  <2> TAKE f \in ToSet(net.queue)
  <2>1. f \in ToSet(w.queue) \/ \E m \in ToSet(sends) : Carries(f, m) BY <1>13 DEF Grown
  <2>2. CASE f \in ToSet(w.queue) BY <1>1, <1>8, <1>12, <2>2
  <2>3. CASE \E m \in ToSet(sends) : Carries(f, m) BY <2>3, BoundedHop DEF Carries
  <2> QED BY <2>1, <2>2, <2>3
<1>17. AdvanceTick(net.queue) \in Seq(Frames)
  <2>1. PICK q : q = net.queue OBVIOUS
  <2> QED BY <1>14, <1>16, <2>1, QueueAdvanced
<1>18. /\ nodes' \in NodeMaps
       /\ \A n \in Node : nodes'[n] = IF ns[n] = Absent THEN Absent ELSE AfterTimers(ns, n)
  <2>1. PICK x : x = nodes' OBVIOUS
  <2>2. x = [n \in Node |-> x[n]] BY <1>10, <2>1
  <2>3. \A n \in Node : x[n] = IF ns[n] = Absent THEN Absent ELSE AfterTimers(ns, n) BY <1>10, <2>1
  <2>4. \A n \in Node : x[n] # Absent => x[n] \in MockNodes(n) BY <1>4, <2>3, TimersRun
  <2>5. x \in NodeMaps BY <2>2, <2>4, NodeMapMade
  <2> QED BY <2>1, <2>3, <2>5
<1>19. TickTaken(acc, net)
  BY <1>2, <1>3, <1>6, <1>7, <1>8, <1>11, <1>12, <1>13, <1>14, <1>15, <1>16, <1>17, <1>18 DEF TickTaken, sends, frames
<1> QED BY <1>19

-----------------------------------------------------------------------------
(* Mutations.                                                              *)

Announces(action) == action \in {"BroadcastSnapshot", "BroadcastDelta"}

\* A mutation: node n becomes y, and body b is sent to the others, scheduled,
\* announced or held back.
MutationTaken(n, c, action, b, y) ==
    /\ nodes[n] # Absent
    /\ y \in MockNodes(n) /\ y.counter = nodes[n].counter
    /\ y.engine = AfterMutation(nodes[n].engine, c, action)
    /\ nodes' = [nodes EXCEPT ![n] = y]
    /\ b = SnapshotBody(nodes[n].engine, c) \/ b = DeltaBody(nodes[n].engine, c, action)
    /\ \/ /\ Announces(action) /\ y.scheduled = nodes[n].scheduled
          /\ Into(SendAll(Network, Broadcast(nodes, n, b), TRUE))
          /\ withheld' = withheld \ {n}
       \/ /\ action = "ScheduleDelayed"
          /\ y.scheduled = Append(nodes[n].scheduled,
                                  [body |-> SnapshotBody(nodes[n].engine, c), in |-> DelayInTicks])
          /\ withheld' = withheld \ {n}
          /\ UNCHANGED <<in_flight, excused>>
       \/ /\ action = "NotifyChangeFeed" /\ y.scheduled = nodes[n].scheduled
          /\ withheld' = withheld \ {n}
          /\ UNCHANGED <<in_flight, excused>>
       \/ /\ action \in {"ScheduleDelayed", "Suppress"} /\ y.scheduled = nodes[n].scheduled
          /\ withheld' = withheld \cup {n}
          /\ UNCHANGED <<in_flight, excused>>
    /\ Call
    /\ UNCHANGED testVars

\* Replacing an engine, and setting a timer, change one node.
LEMMA NodeChanged ==
    ASSUME NEW ns \in NodeMaps, NEW n \in Node, ns[n] # Absent,
           NEW e \in Engines, e.id = n, NEW s \in Timed(n)
    PROVE  /\ [ns EXCEPT ![n].engine = e] = [ns EXCEPT ![n] = [ns[n] EXCEPT !.engine = e]]
           /\ [[ns EXCEPT ![n].engine = e] EXCEPT ![n].scheduled = Append(@, s)]
                = [ns EXCEPT ![n] = [[ns[n] EXCEPT !.engine = e] EXCEPT !.scheduled = Append(@, s)]]
           /\ [ns[n] EXCEPT !.engine = e] \in MockNodes(n)
           /\ [[ns[n] EXCEPT !.engine = e] EXCEPT !.scheduled = Append(@, s)] \in MockNodes(n)
<1>1. ns[n] \in MockNodes(n) /\ ns[n].scheduled \in Seq(Timed(n)) BY NodeTyped
<1>2. ns \in [Node -> AnyNode \cup {Absent}] BY DEF NodeMaps
<1> DEFINE x == [ns[n] EXCEPT !.engine = e]
           y == [x EXCEPT !.scheduled = Append(@, s)]
<1>3. x \in MockNodes(n) /\ x.scheduled = ns[n].scheduled BY <1>1, EngineReplaced
<1>4. Append(ns[n].scheduled, s) \in Seq(Timed(n)) BY <1>1
<1>5. [ns EXCEPT ![n].engine = e] = [ns EXCEPT ![n] = x] BY <1>2
<1> HIDE DEF x
<1>6. y \in MockNodes(n) BY <1>3, <1>4 DEF MockNodes
<1>7. [[ns EXCEPT ![n] = x] EXCEPT ![n].scheduled = Append(@, s)] = [ns EXCEPT ![n] = y]
  BY <1>2
<1> QED BY <1>3, <1>5, <1>6, <1>7 DEF x

\* mutate and mutate_with_delta take the same course, but for delayed sends.
LEMMA MutateUnfolds ==
    ASSUME DataTyped, TypeInv, NEW n \in Node, NEW c \in Change, NEW u \in SyncUrgency,
           Mutate(n, c, u) \/ MutateWithDelta(n, c, u)
    PROVE  \E b, y : MutationTaken(n, c, ResolveAction(u), b, y)
<1>1. PICK ns : ns = nodes OBVIOUS
<1>2. ns \in NodeMaps /\ ns[n] # Absent BY <1>1 DEF TypeInv, NodesTyped, Mutate, MutateWithDelta
<1>3. PICK e : e = ns[n].engine OBVIOUS
<1>4. e \in Engines /\ e.id = n /\ ns[n].scheduled \in Seq(Timed(n)) /\ ns[n] \in MockNodes(n)
  BY <1>2, <1>3, NodeTyped
<1>5. PICK action : action = ResolveAction(u) OBVIOUS
<1>6. PICK x : x = AfterMutation(e, c, action) OBVIOUS
<1>7. PICK s : s = [body |-> SnapshotBody(e, c), in |-> DelayInTicks] OBVIOUS
<1>8. x \in Engines /\ x.id = n /\ SnapshotBody(e, c) \in Snapshots /\ SnapshotBody(e, c).src = n
  BY <1>4, <1>6, MutationMade
<1>9. s \in Timed(n) BY <1>7, <1>8, Timing DEF Timed
<1> DEFINE y == [ns[n] EXCEPT !.engine = x]
           z == [y EXCEPT !.scheduled = Append(@, s)]
<1>10. /\ [ns EXCEPT ![n].engine = x] = [ns EXCEPT ![n] = y]
       /\ [[ns EXCEPT ![n].engine = x] EXCEPT ![n].scheduled = Append(@, s)] = [ns EXCEPT ![n] = z]
       /\ y \in MockNodes(n) /\ z \in MockNodes(n)
  BY <1>2, <1>8, <1>9, NodeChanged
<1>11. y.engine = x /\ y.scheduled = ns[n].scheduled /\ y.counter = ns[n].counter
  BY <1>4, <1>8, EngineReplaced
<1> HIDE DEF y
<1>12. z.engine = x /\ z.scheduled = Append(ns[n].scheduled, s) /\ z.counter = ns[n].counter
  BY <1>10, <1>11 DEF MockNodes
<1> HIDE DEF z
<1>13. CASE Mutate(n, c, u)
  <2>1. /\ Call /\ UNCHANGED testVars
        /\ \/ /\ Announces(action)
              /\ nodes' = [nodes EXCEPT ![n].engine = x]
              /\ Into(SendAll(Network, Broadcast(nodes, n, SnapshotBody(e, c)), TRUE))
              /\ withheld' = withheld \ {n}
           \/ /\ action = "ScheduleDelayed"
              /\ nodes' = [[nodes EXCEPT ![n].engine = x] EXCEPT ![n].scheduled = Append(@, s)]
              /\ withheld' = withheld \ {n}
              /\ UNCHANGED <<in_flight, excused>>
           \/ /\ action = "NotifyChangeFeed"
              /\ nodes' = [nodes EXCEPT ![n].engine = x]
              /\ withheld' = withheld \ {n}
              /\ UNCHANGED <<in_flight, excused>>
           \/ /\ action = "Suppress"
              /\ nodes' = [nodes EXCEPT ![n].engine = x]
              /\ withheld' = withheld \cup {n}
              /\ UNCHANGED <<in_flight, excused>>
    BY <1>1, <1>3, <1>5, <1>6, <1>7, <1>13 DEF Mutate, Announces, Shares, Withholds
  <2>2. CASE action = "ScheduleDelayed"
    <3>1. MutationTaken(n, c, action, SnapshotBody(e, c), z)
      BY <1>1, <1>2, <1>3, <1>6, <1>7, <1>10, <1>12, <2>1, <2>2 DEF MutationTaken, Announces
    <3> QED BY <1>5, <3>1
  <2>3. CASE action # "ScheduleDelayed"
    <3>1. MutationTaken(n, c, action, SnapshotBody(e, c), y)
      BY <1>1, <1>2, <1>3, <1>6, <1>10, <1>11, <2>1, <2>3 DEF MutationTaken, Announces
    <3> QED BY <1>5, <3>1
  <2> QED BY <2>2, <2>3
<1>14. CASE MutateWithDelta(n, c, u)
  <2>1. /\ Call /\ UNCHANGED testVars
        /\ nodes' = [nodes EXCEPT ![n].engine = x]
        /\ \/ /\ Announces(action)
              /\ Into(SendAll(Network, Broadcast(nodes, n, DeltaBody(e, c, action)), TRUE))
              /\ withheld' = withheld \ {n}
           \/ /\ action = "NotifyChangeFeed"
              /\ withheld' = withheld \ {n}
              /\ UNCHANGED <<in_flight, excused>>
           \/ /\ action \in {"ScheduleDelayed", "Suppress"}
              /\ withheld' = withheld \cup {n}
              /\ UNCHANGED <<in_flight, excused>>
    BY <1>1, <1>3, <1>5, <1>6, <1>14 DEF MutateWithDelta, Announces, Shares, Withholds
  <2>2. MutationTaken(n, c, action, DeltaBody(e, c, action), y)
    BY <1>1, <1>2, <1>3, <1>6, <1>10, <1>11, <2>1 DEF MutationTaken
  <2> QED BY <1>5, <2>2
<1> QED BY <1>13, <1>14

-----------------------------------------------------------------------------
(* Type correctness.                                                       *)

\* The messages of a mutation that is sent at once.
LEMMA MessagesOfMutation ==
    ASSUME DataTyped, TypeInv, NEW n \in Node, NEW c \in Change, NEW action, NEW b, NEW y,
           MutationTaken(n, c, action, b, y)
    PROVE  /\ Broadcast(nodes, n, b) \in Seq(Messages)
           /\ b \in Bodies /\ b.src = n
           /\ \A m : m \in ToSet(Broadcast(nodes, n, b)) <=>
                 SentTo(nodes, n, b, m)
<1>1. PICK ns : ns = nodes OBVIOUS
<1>2. ns \in NodeMaps /\ ns[n] # Absent BY <1>1 DEF TypeInv, NodesTyped, MutationTaken
<1>3. ns[n].engine \in Engines /\ ns[n].engine.id = n BY <1>2, NodeTyped
<1>4. b = SnapshotBody(ns[n].engine, c) \/ b = DeltaBody(ns[n].engine, c, action) BY <1>1 DEF MutationTaken
<1>5. b \in Bodies /\ b.src = n BY <1>3, <1>4, MutationMade
<1> QED BY <1>1, <1>5, BroadcastSent

\* The requests a query sends.
LEMMA PulledSent ==
    ASSUME DataTyped, TypeInv, NEW n \in Node, nodes[n] # Absent, NEW aged
    PROVE  LET e == nodes[n].engine
               pulled == Only(NodeOrder, Pulled(e, aged))
               out == [k \in DOMAIN pulled |-> Message(n, pulled[k], Request(e))]
           IN  /\ out \in Seq(Messages)
               /\ \A m : m \in ToSet(out) <=>
                    \E p \in Node : p \in Pulled(e, aged) /\ m = Message(n, p, Request(e))
<1>0. PICK e : e = nodes[n].engine OBVIOUS
<1> DEFINE pulled == Only(NodeOrder, Pulled(e, aged))
           out == [k \in DOMAIN pulled |-> Message(n, pulled[k], Request(e))]
           f == [p \in ToSet(pulled) |-> Message(n, p, Request(e))]
<1>1. e \in Engines /\ e.id = n
  <2>1. PICK ns : ns = nodes OBVIOUS
  <2> QED BY <1>0, <2>1, NodeTyped DEF TypeInv, NodesTyped
<1>2. Pulled(e, aged) \subseteq Node \ {n}
  BY <1>1 DEF Pulled, KnownPeers, Engines, EngineRecords
<1>3. pulled \in Seq(Node) /\ ToSet(pulled) = ToSet(NodeOrder) \cap Pulled(e, aged)
  BY ClusterAssumption, OnlyOf
<1>4. ToSet(pulled) = Pulled(e, aged) BY <1>2, <1>3, ClusterAssumption
<1>5. Request(e) \in Bodies /\ Request(e).src = n BY <1>1, BodiesMade
<1>6. \A k \in DOMAIN pulled : pulled[k] \in ToSet(pulled) BY DEF ToSet
<1> HIDE DEF pulled
<1>7. \A p \in ToSet(pulled) : f[p] \in Messages BY <1>2, <1>4, <1>5 DEF Message, Messages
<1>8. out = MapList(pulled, f) BY <1>6 DEF MapList
<1>9. \A p \in ToSet(pulled) : f[p] = Message(n, p, Request(e)) OBVIOUS
<1> HIDE DEF f, out
<1>10. /\ MapList(pulled, f) \in Seq(Messages)
       /\ \A y : y \in ToSet(MapList(pulled, f)) <=> \E x \in ToSet(pulled) : y = f[x]
  BY <1>3, <1>7, ListMade
<1>11. \A m : m \in ToSet(out) <=>
         \E p \in Node : p \in Pulled(e, aged) /\ m = Message(n, p, Request(e))
  BY <1>2, <1>4, <1>8, <1>9, <1>10
<1> QED BY <1>0, <1>8, <1>10, <1>11 DEF out, pulled

\* A cluster with_test_state has built is typed.
LEMMA InitTyped == ASSUME Typed, Init PROVE TypeInv
<1>1. Fresh(Node, Built) BY BuiltFresh DEF Typed
<1>2. nodes = Built.nodes BY DEF Init, Built
<1>3. in_flight = [k \in DOMAIN Built.sent |->
            Frame(Built.sent[k].from, Built.sent[k].to, Built.sent[k].body, 1)]
  BY DEF Init, Built
<1>4. NodesTyped BY <1>1, <1>2 DEF Fresh, NodesTyped
<1>5. QueueTyped
  <2>1. PICK sent : sent = Built.sent OBVIOUS
  <2>2. sent \in Seq(Messages) BY <1>1, <2>1 DEF Fresh
  <2>3. DOMAIN sent = 1 .. Len(sent) /\ Len(sent) \in Nat /\ \A k \in 1 .. Len(sent) : sent[k] \in Messages
    BY <2>2
  <2>4. \A m \in Messages : Frame(m.from, m.to, m.body, 1) \in Frames BY DEF Messages, Frame, Frames
  <2>5. \A k \in 1 .. Len(sent) : Frame(sent[k].from, sent[k].to, sent[k].body, 1) \in Frames
    BY <2>3, <2>4
  <2>6. [k \in DOMAIN sent |-> Frame(sent[k].from, sent[k].to, sent[k].body, 1)] \in Seq(Frames)
    BY <2>3, <2>5
  <2> QED BY <1>3, <2>1, <2>6 DEF QueueTyped
<1>6. TestTyped
  <2>1. MaxCalls \in Nat BY ClusterAssumption
  <2>2. /\ interceptors = <<>> /\ lives = [n \in Node |-> 1] /\ stamped = Node
        /\ calls = 0 /\ waited = 0 /\ excused = {} /\ withheld = {} /\ crashed = {}
    BY Zenon DEF Init
  <2> QED BY <2>1, <2>2 DEF TestTyped
<1> QED BY <1>4, <1>5, <1>6 DEF TypeInv

\* No call of a test and no tick leaves the types.
LEMMA StepTyped == ASSUME DataTyped, TypeInv, [Next]_vars PROVE TypeInv'
<1>0. /\ nodes \in NodeMaps /\ in_flight \in Seq(Frames)
      /\ interceptors \in Seq(Interceptor) /\ lives \in [Node -> Nat]
      /\ calls \in 0 .. MaxCalls /\ waited \in Nat /\ stamped \in SUBSET Node
      /\ excused \in SUBSET (Node \X Node) /\ withheld \in SUBSET Node /\ crashed \in SUBSET Node
  BY DEF TypeInv, NodesTyped, QueueTyped, TestTyped
<1>c. Call => calls' \in 0 .. MaxCalls /\ waited' \in Nat BY <1>0, ClusterAssumption DEF Call
<1>m. MaxCalls \in Nat BY ClusterAssumption
<1> DEFINE Kept == nodes' \in NodeMaps /\ in_flight' \in Seq(Frames) /\ TestTyped'
<1>k. ASSUME Kept PROVE TypeInv' BY <1>k DEF TypeInv, NodesTyped, QueueTyped
<1>1. ASSUME NEW n \in Node, AddNode(n) PROVE Kept
  <2>1. nodes' = Admitted(nodes, n, lives[n] + 1) /\ nodes[n] = Absent /\ lives[n] + 1 \in Nat
    BY <1>0, <1>1 DEF AddNode
  <2>2. PICK ns, inc : ns = nodes /\ inc = lives[n] + 1 OBVIOUS
  <2>3. Admitted(ns, n, inc) \in NodeMaps BY <1>0, <2>1, <2>2, NodeAdmitted
  <2>4. Greetings(ns, n, inc) \in Seq(Messages) BY <1>0, <2>1, <2>2, GreetingsSent
  <2>5. in_flight' \in Seq(Frames) /\ excused' \in SUBSET (Node \X Node)
    BY <1>1, <2>2, <2>4, CallSends DEF AddNode
  <2>6. TestTyped' BY <1>0, <1>1, <1>c, <2>5 DEF AddNode, Stamp, TestTyped
  <2> QED BY <2>1, <2>2, <2>3, <2>5, <2>6
<1>2. ASSUME NEW n \in Node, RemoveNode(n) \/ RemoveNodeHard(n) PROVE Kept
  <2>1. nodes' = Left(nodes, n) BY <1>2 DEF RemoveNode, RemoveNodeHard, Without, Left
  <2>2. PICK ns : ns = nodes OBVIOUS
  <2>3. Left(ns, n) \in NodeMaps BY <1>0, <2>2, NodeLeft
  <2>4. DropInFlightFor(in_flight, n) \in Seq(Frames) BY <1>0, OnlyOf DEF DropInFlightFor
  <2>5. in_flight' \in Seq(Frames) BY <1>0, <1>2, <2>4 DEF RemoveNode, RemoveNodeHard
  <2>6. TestTyped' BY <1>0, <1>2, <1>c DEF RemoveNode, RemoveNodeHard, testVars, TestTyped
  <2> QED BY <2>1, <2>2, <2>3, <2>5, <2>6
<1>3. ASSUME NEW n \in Node, NEW c \in Change, NEW u \in SyncUrgency,
             Mutate(n, c, u) \/ MutateWithDelta(n, c, u)
      PROVE  Kept
  <2>1. PICK b, y : MutationTaken(n, c, ResolveAction(u), b, y) BY <1>3, MutateUnfolds
  <2>2. PICK action : action = ResolveAction(u) OBVIOUS
  <2>3. MutationTaken(n, c, action, b, y) BY <2>1, <2>2
  <2>4. nodes' \in NodeMaps
    <3>1. PICK ns : ns = nodes OBVIOUS
    <3>2. [ns EXCEPT ![n] = y] \in NodeMaps BY <1>0, <2>3, <3>1, NodeReplaced DEF MutationTaken
    <3> QED BY <2>3, <3>1, <3>2 DEF MutationTaken
  <2>5. in_flight' \in Seq(Frames) /\ excused' \in SUBSET (Node \X Node)
    <3>1. CASE Into(SendAll(Network, Broadcast(nodes, n, b), TRUE))
      <4>1. PICK list : list = Broadcast(nodes, n, b) OBVIOUS
      <4>2. list \in Seq(Messages) BY <2>3, <4>1, MessagesOfMutation
      <4> QED BY <3>1, <4>1, <4>2, CallSends
    <3>2. CASE UNCHANGED <<in_flight, excused>> BY <1>0, <3>2
    <3> QED BY <2>3, <3>1, <3>2 DEF MutationTaken
  <2>6. withheld' \in SUBSET Node BY <1>0, <2>3 DEF MutationTaken
  <2>7. TestTyped' BY <1>0, <1>c, <2>3, <2>5, <2>6 DEF MutationTaken, testVars, TestTyped
  <2> QED BY <2>4, <2>5, <2>7
<1>4. ASSUME NEW n \in Node, NEW aged, Query(n, aged) PROVE Kept
  <2> DEFINE e == nodes[n].engine
             pulled == Only(NodeOrder, Pulled(e, aged))
             out == [k \in DOMAIN pulled |-> Message(n, pulled[k], Request(e))]
  <2>1. nodes[n] # Absent /\ Into(SendAll(Network, out, FALSE)) BY <1>4 DEF Query
  <2>2. out \in Seq(Messages) BY <2>1, PulledSent
  <2>3. PICK list : list = out OBVIOUS
  <2> HIDE DEF out
  <2>4. in_flight' \in Seq(Frames) /\ excused' \in SUBSET (Node \X Node)
    BY <2>1, <2>2, <2>3, CallSends
  <2> QED BY <1>0, <1>4, <1>c, <2>4 DEF Query, testVars, TestTyped
<1>5. ASSUME NEW n \in Node, PeriodicSync(n) PROVE Kept
  <2>1. PICK ns : ns = nodes OBVIOUS
  <2>2. ns[n] # Absent /\ Into(SendAll(Network, Broadcast(ns, n, OwnSnapshot(ns[n].engine)), FALSE))
    BY <1>5, <2>1 DEF PeriodicSync
  <2>3. ns[n].engine \in Engines /\ ns[n].engine.id = n BY <1>0, <2>1, <2>2, NodeTyped
  <2>4. OwnSnapshot(ns[n].engine) \in Bodies /\ OwnSnapshot(ns[n].engine).src = n
    BY <2>3, BodiesMade
  <2>5. PICK list : list = Broadcast(ns, n, OwnSnapshot(ns[n].engine)) OBVIOUS
  <2>6. list \in Seq(Messages) BY <2>4, <2>5, BroadcastSent
  <2>7. in_flight' \in Seq(Frames) /\ excused' \in SUBSET (Node \X Node)
    BY <2>2, <2>5, <2>6, CallSends
  <2> QED BY <1>0, <1>5, <1>c, <2>7 DEF PeriodicSync, testVars, TestTyped
<1>6. ASSUME NEW i \in Interceptor, AddInterceptor(i) PROVE Kept
  <2>1. interceptors' \in Seq(Interceptor) BY <1>0, <1>6 DEF AddInterceptor
  <2> QED BY <1>0, <1>6, <1>c, <2>1 DEF AddInterceptor, TestTyped
<1>7. CASE ClearInterceptors
  <2>1. Kept BY <1>0, <1>7, <1>c DEF ClearInterceptors, TestTyped
  <2> QED BY <2>1, <1>k
<1>8. CASE Tick
  <2>1. PICK acc, net : TickTaken(acc, net) BY <1>8, TickUnfolds
  <2>2. nodes' \in NodeMaps /\ in_flight' \in Seq(Frames) /\ excused' \in SUBSET (Node \X Node)
    BY <2>1 DEF TickTaken
  <2>3. waited' \in Nat
    <3>1. waited' = 0 \/ waited' = waited + 1 BY <1>8 DEF Tick
    <3> QED BY <1>0, <3>1
  <2>4. UNCHANGED <<interceptors, lives, calls, withheld, crashed>> /\ stamped' = {}
    BY <1>8 DEF Tick, AdvanceClock
  <2>5. TestTyped' BY <1>0, <2>2, <2>3, <2>4 DEF TestTyped
  <2>6. Kept BY <2>2, <2>5
  <2> QED BY <2>6, <1>k
<1>9. CASE UNCHANGED vars
  BY <1>9 DEF vars, TypeInv, NodesTyped, QueueTyped, TestTyped
<1> HIDE DEF Kept
<1> QED BY <1>1, <1>2, <1>3, <1>4, <1>5, <1>6, <1>7, <1>8, <1>9, <1>k DEF Next

\* The types the provers need are those TLC checks.
LEMMA TypeInvGivesTypeOK == ASSUME TypeInv PROVE ClusterTypeOK
<1>0. /\ nodes \in NodeMaps /\ in_flight \in Seq(Frames) /\ TestTyped
  BY DEF TypeInv, NodesTyped, QueueTyped
<1>1. \A f \in ToSet(in_flight) : f.from \in Node /\ f.to \in Node /\ f.due \in Nat
  BY <1>0 DEF ToSet, Frames
<1>2. ASSUME NEW n \in Node, nodes[n] # Absent
      PROVE  LET e == nodes[n].engine IN
          /\ e.id = n
          /\ e.gen \in Generation
          /\ e.value \in State
          /\ e.views \in [Node -> OptEntry]
          /\ e.departed \subseteq Node
          /\ e.feed \in OptGeneration
          /\ DOMAIN e.diag \subseteq Node
          /\ \A p \in DOMAIN e.diag : e.diag[p] \in PeerDiagnostics
          /\ \A s \in ToSet(nodes[n].scheduled) : s.in \in Nat
          /\ nodes[n].counter \in 0 .. FeedFlushInterval - 1
  <2>1. PICK x : x = nodes[n] OBVIOUS
  <2>2. x.engine \in Engines /\ x.engine.id = n /\ x.scheduled \in Seq(Timed(n))
        /\ x.counter \in 0 .. FeedFlushInterval - 1
    <3>1. PICK ns : ns = nodes OBVIOUS
    <3> QED BY <1>0, <1>2, <2>1, <3>1, NodeTyped
  <2>3. \A s \in ToSet(x.scheduled) : s.in \in Nat BY <2>2 DEF ToSet, Timed
  <2>4. DOMAIN x.engine.diag \subseteq Node /\ \A p \in DOMAIN x.engine.diag : x.engine.diag[p] \in PeerDiagnostics
    BY <2>2 DEF Engines, EngineRecords, Records
  <2> QED BY <2>1, <2>2, <2>3, <2>4 DEF Engines, EngineRecords
<1>3. ToSet(interceptors) \subseteq Interceptor BY <1>0 DEF TestTyped, ToSet
<1> QED BY <1>0, <1>1, <1>2, <1>3 DEF ClusterTypeOK, TestTyped

\* The nodes, the queue and the pipeline stay in their types and no timer waits
\* past its tick, for every test: any nodes, pipeline, timing and sequence of
\* calls (MockCluster, MockTransport).
THEOREM ClusterTyped == ASSUME Typed PROVE Spec => []ClusterTypeOK
<1>1. Init => TypeInv BY InitTyped
<1>2. TypeInv /\ [Next]_vars => TypeInv' BY StepTyped DEF Typed
<1>3. TypeInv => ClusterTypeOK BY TypeInvGivesTypeOK
<1> QED BY <1>1, <1>2, <1>3, PTL DEF Spec

-----------------------------------------------------------------------------
(* A hard crash is silent.                                                 *)

\* Nothing is under way from c or to c.
QuietFor(c) == \A f \in ToSet(in_flight) : f.from # c /\ f.to # c

\* A crashed node is gone, and no node keeps a view of it it could pull.
CrashInv ==
    \A c \in crashed :
        /\ nodes[c] = Absent
        /\ \A n \in Node : nodes[n] # Absent => nodes[n].engine.views[c] = NoView
        /\ QuietFor(c)

\* Sends between other nodes leave c alone.
LEMMA QuietSends ==
    ASSUME NEW net, NEW messages, NEW x, Grown(net, messages, x), NEW c,
           \A f \in ToSet(net.queue) : f.from # c /\ f.to # c,
           \A m \in ToSet(messages) : m.from # c /\ m.to # c
    PROVE  \A f \in ToSet(x.queue) : f.from # c /\ f.to # c
BY DEF Grown, Carries

\* So does a call whose messages are between other nodes.
LEMMA CallQuiet ==
    ASSUME TypeInv, NEW messages \in Seq(Messages), NEW news \in BOOLEAN,
           Into(SendAll(Network, messages, news)), NEW c, QuietFor(c),
           \A m \in ToSet(messages) : m.from # c /\ m.to # c
    PROVE  QuietFor(c)'
<1>1. PICK net \in SendAll(Network, messages, news) :
              Grown(Network, messages, net) /\ in_flight' = net.queue
  BY CallSends
<1>2. PICK old : old = Network OBVIOUS
<1>3. \A f \in ToSet(old.queue) : f.from # c /\ f.to # c BY <1>2, NetworkTyped DEF QuietFor
<1>4. \A f \in ToSet(net.queue) : f.from # c /\ f.to # c BY <1>1, <1>2, <1>3, QuietSends
<1> QED BY <1>1, <1>4 DEF QuietFor

\* No step writes to a crashed node or for it.
LEMMA StepCrash == ASSUME DataTyped, TypeInv, CrashInv, [Next]_vars PROVE CrashInv'
<1>0. /\ nodes \in NodeMaps /\ in_flight \in Seq(Frames) /\ crashed \in SUBSET Node
      /\ lives \in [Node -> Nat]
  BY DEF TypeInv, NodesTyped, QueueTyped, TestTyped
<1> DEFINE Gone(c) == /\ nodes'[c] = Absent
                      /\ \A p \in Node : nodes'[p] # Absent => nodes'[p].engine.views[c] = NoView
                      /\ QuietFor(c)'
<1>k. ASSUME \A c \in crashed' : Gone(c) PROVE CrashInv' BY <1>k DEF CrashInv
<1>o. \A c \in crashed :
        /\ c \in Node /\ nodes[c] = Absent
        /\ \A n \in Node : nodes[n] # Absent => nodes[n].engine.views[c] = NoView
        /\ QuietFor(c)
  BY <1>0 DEF CrashInv
<1>1. ASSUME NEW n \in Node, AddNode(n), NEW c \in crashed' PROVE Gone(c)
  <2>1. nodes' = Admitted(nodes, n, lives[n] + 1) /\ nodes[n] = Absent /\ lives[n] + 1 \in Nat
        /\ c \in crashed /\ c # n
    BY <1>0, <1>1 DEF AddNode
  <2>2. PICK ns, inc : ns = nodes /\ inc = lives[n] + 1 OBVIOUS
  <2>3. /\ Newcomer(ns, n, inc, nodes'[n])
        /\ \A p \in Node \ {n} :
             IF ns[p] = Absent THEN nodes'[p] = Absent
             ELSE Welcomes(ns, n, p, nodes'[p])
    <3> DEFINE A == Admitted(ns, n, inc)
    <3>1. /\ Newcomer(ns, n, inc, A[n])
          /\ \A p \in Node \ {n} : IF ns[p] = Absent THEN A[p] = Absent ELSE Welcomes(ns, n, p, A[p])
      BY <1>0, <2>1, <2>2, NodeAdmitted
    <3> QED BY <3>1, <2>1, <2>2
  <2>4. nodes'[c] = Absent BY <1>o, <2>1, <2>2, <2>3
  <2>5. ASSUME NEW p \in Node, nodes'[p] # Absent PROVE nodes'[p].engine.views[c] = NoView
    <3>1. CASE p = n BY <1>o, <2>1, <2>2, <2>3, <3>1 DEF Newcomer
    <3>2. CASE p # n
      <4>1. ns[p] # Absent /\ nodes'[p].engine = OnNodeJoined(ns[p].engine, n)
        BY <2>3, <2>5, <3>2 DEF Welcomes
      <4>2. ns[p].engine \in Engines /\ ns[p].engine.id = p BY <1>0, <2>2, <4>1, NodeTyped
      <4>3. OnNodeJoined(ns[p].engine, n).views[c] = ns[p].engine.views[c]
        BY <1>o, <2>1, <3>2, <4>2, JoinHandled
      <4> QED BY <1>o, <2>1, <2>2, <4>1, <4>3
    <3> QED BY <3>1, <3>2
  <2>6. PICK list : list = Greetings(ns, n, inc) OBVIOUS
  <2>7. list \in Seq(Messages) /\ \A m : m \in ToSet(list) <=> Greeting(ns, n, inc, m)
    BY <1>0, <2>1, <2>2, <2>6, GreetingsSent
  <2>8. \A m \in ToSet(list) : m.from # c /\ m.to # c
    BY <1>o, <2>1, <2>2, <2>7 DEF Greeting, Message
  <2>9. QuietFor(c)' BY <1>1, <1>o, <2>1, <2>2, <2>6, <2>7, <2>8, CallQuiet DEF AddNode
  <2> QED BY <2>4, <2>5, <2>9
<1>2. ASSUME NEW n \in Node, RemoveNode(n) \/ RemoveNodeHard(n), NEW c \in crashed' PROVE Gone(c)
  <2>1. nodes' = Left(nodes, n) BY <1>2 DEF RemoveNode, RemoveNodeHard, Without, Left
  <2>2. PICK ns : ns = nodes OBVIOUS
  <2>3. /\ nodes'[n] = Absent
        /\ \A p \in Node \ {n} :
              IF ns[p] = Absent THEN nodes'[p] = Absent ELSE Bereft(ns, n, p, nodes'[p])
    <3> DEFINE A == Left(ns, n)
    <3>1. /\ A[n] = Absent
          /\ \A p \in Node \ {n} : IF ns[p] = Absent THEN A[p] = Absent ELSE Bereft(ns, n, p, A[p])
      BY <1>0, <2>2, NodeLeft
    <3> QED BY <3>1, <2>1, <2>2
  <2>4. c \in Node /\ (c = n \/ c \in crashed)
    BY <1>0, <1>2 DEF RemoveNode, RemoveNodeHard, testVars
  <2>5. nodes'[c] = Absent BY <1>o, <2>2, <2>3, <2>4
  <2>6. ASSUME NEW p \in Node, nodes'[p] # Absent PROVE nodes'[p].engine.views[c] = NoView
    <3>1. p # n /\ ns[p] # Absent /\ nodes'[p].engine = OnNodeLeft(ns[p].engine, n)
      BY <2>3, <2>6 DEF Bereft
    <3>2. ns[p].engine \in Engines /\ ns[p].engine.id = p BY <1>0, <2>2, <3>1, NodeTyped
    <3>3. /\ OnNodeLeft(ns[p].engine, n).views[n] = NoView
          /\ \A q \in Node \ {n} : OnNodeLeft(ns[p].engine, n).views[q] = ns[p].engine.views[q]
      BY <3>1, <3>2, LeaveHandled
    <3> QED BY <1>o, <2>2, <2>4, <3>1, <3>3
  <2>7. QuietFor(c)'
    <3>1. CASE RemoveNode(n)
      <4>1. in_flight' = in_flight /\ c \in crashed BY <1>2, <3>1 DEF RemoveNode, testVars
      <4> QED BY <1>o, <4>1 DEF QuietFor
    <3>2. CASE RemoveNodeHard(n)
      <4>1. in_flight' = DropInFlightFor(in_flight, n) BY <3>2 DEF RemoveNodeHard
      <4> DEFINE S == {f \in ToSet(in_flight) : f.from # n /\ f.to # n}
      <4>2. ToSet(in_flight') = ToSet(in_flight) \cap S
        BY <1>0, <4>1, OnlyOf DEF DropInFlightFor
      <4> QED BY <1>o, <2>4, <4>2 DEF QuietFor
    <3> QED BY <1>2, <3>1, <3>2
  <2> QED BY <2>5, <2>6, <2>7
<1>3. ASSUME NEW n \in Node, NEW d \in Change, NEW u \in SyncUrgency,
             Mutate(n, d, u) \/ MutateWithDelta(n, d, u), NEW c \in crashed'
      PROVE  Gone(c)
  <2>1. PICK b, y : MutationTaken(n, d, ResolveAction(u), b, y) BY <1>3, MutateUnfolds
  <2>2. PICK action : action = ResolveAction(u) OBVIOUS
  <2>3. MutationTaken(n, d, action, b, y) BY <2>1, <2>2
  <2>4. PICK ns : ns = nodes OBVIOUS
  <2>5. /\ ns[n] # Absent /\ y \in MockNodes(n) /\ y.engine = AfterMutation(ns[n].engine, d, action)
        /\ nodes' = [ns EXCEPT ![n] = y] /\ c \in crashed /\ ns \in NodeMaps
    BY <1>0, <1>3, <2>3, <2>4 DEF MutationTaken, testVars
  <2>6. /\ nodes'[n] = y /\ \A p \in Node \ {n} : nodes'[p] = ns[p] BY <2>5, NodeReplaced
  <2>7. c # n /\ nodes'[c] = Absent BY <1>o, <2>4, <2>5, <2>6
  <2>8. y.engine.views[c] = NoView
    <3>1. ns[n].engine \in Engines /\ ns[n].engine.id = n BY <2>5, NodeTyped
    <3>2. y.engine.views[c] = ns[n].engine.views[c] BY <1>o, <2>5, <2>7, <3>1, MutationMade
    <3> QED BY <1>o, <2>4, <2>5, <3>2
  <2>9. QuietFor(c)'
    <3>1. CASE Into(SendAll(Network, Broadcast(nodes, n, b), TRUE))
      <4>1. PICK list : list = Broadcast(nodes, n, b) OBVIOUS
      <4>2. /\ list \in Seq(Messages)
            /\ \A m : m \in ToSet(list) <=>
                 SentTo(nodes, n, b, m)
        BY <2>3, <4>1, MessagesOfMutation
      <4>3. \A m \in ToSet(list) : m.from # c /\ m.to # c BY <1>o, <2>5, <2>7, <4>2 DEF Message, SentTo
      <4> QED BY <1>o, <2>5, <3>1, <4>1, <4>2, <4>3, CallQuiet
    <3>2. CASE UNCHANGED <<in_flight, excused>> BY <1>o, <2>5, <3>2 DEF QuietFor
    <3> QED BY <2>3, <3>1, <3>2 DEF MutationTaken
  <2> QED BY <1>o, <2>4, <2>5, <2>6, <2>7, <2>8, <2>9
<1>4. ASSUME NEW n \in Node, NEW aged, Query(n, aged), NEW c \in crashed' PROVE Gone(c)
  <2> DEFINE e == nodes[n].engine
             pulled == Only(NodeOrder, Pulled(e, aged))
             out == [k \in DOMAIN pulled |-> Message(n, pulled[k], Request(e))]
  <2>1. /\ nodes[n] # Absent /\ Into(SendAll(Network, out, FALSE)) /\ nodes' = nodes /\ c \in crashed
    BY <1>4 DEF Query, testVars
  <2>2. /\ out \in Seq(Messages)
        /\ \A m : m \in ToSet(out) <=>
              \E p \in Node : p \in Pulled(e, aged) /\ m = Message(n, p, Request(e))
    BY <2>1, PulledSent
  <2>3. PICK list : list = out OBVIOUS
  <2> HIDE DEF out
  <2>4. c \notin Pulled(e, aged) BY <1>o, <2>1 DEF Pulled, KnownPeers
  <2>5. \A m \in ToSet(list) : m.from # c /\ m.to # c BY <1>o, <2>1, <2>2, <2>3, <2>4 DEF Message
  <2>6. QuietFor(c)' BY <1>o, <2>1, <2>2, <2>3, <2>5, CallQuiet
  <2> QED BY <1>o, <2>1, <2>6
<1>5. ASSUME NEW n \in Node, PeriodicSync(n), NEW c \in crashed' PROVE Gone(c)
  <2>1. PICK ns : ns = nodes OBVIOUS
  <2>2. /\ ns[n] # Absent /\ Into(SendAll(Network, Broadcast(ns, n, OwnSnapshot(ns[n].engine)), FALSE))
        /\ nodes' = nodes /\ c \in crashed
    BY <1>5, <2>1 DEF PeriodicSync, testVars
  <2>3. ns[n].engine \in Engines /\ ns[n].engine.id = n BY <1>0, <2>1, <2>2, NodeTyped
  <2>4. PICK b : b = OwnSnapshot(ns[n].engine) OBVIOUS
  <2>5. b \in Bodies /\ b.src = n BY <2>3, <2>4, BodiesMade
  <2>6. PICK list : list = Broadcast(ns, n, b) OBVIOUS
  <2>7. /\ list \in Seq(Messages)
        /\ \A m : m \in ToSet(list) <=>
              SentTo(ns, n, b, m)
    <3>1. /\ Broadcast(ns, n, b) \in Seq(Messages)
          /\ \A m : m \in ToSet(Broadcast(ns, n, b)) <=>
                SentTo(ns, n, b, m)
      BY ONLY <2>5, BroadcastSent, n \in Node
    <3> QED BY <2>6, <3>1
  <2>8. \A m \in ToSet(list) : m.from # c /\ m.to # c BY <1>o, <2>1, <2>2, <2>7 DEF Message, SentTo
  <2>9. QuietFor(c)' BY <1>o, <2>2, <2>4, <2>6, <2>7, <2>8, CallQuiet
  <2> QED BY <1>o, <2>2, <2>9
<1>6. CASE (\E i \in Interceptor : AddInterceptor(i)) \/ ClearInterceptors \/ UNCHANGED vars
  <2>1. UNCHANGED <<nodes, in_flight, crashed>> BY <1>6 DEF AddInterceptor, ClearInterceptors, vars
  <2> QED BY <2>1 DEF CrashInv, QuietFor
<1>7. ASSUME Tick, NEW c \in crashed' PROVE Gone(c)
  <2>1. PICK acc, net : TickTaken(acc, net) BY <1>7, TickUnfolds
  <2>2. c \in crashed BY <1>7 DEF Tick
  <2>c. /\ c \in Node /\ nodes[c] = Absent /\ QuietFor(c)
        /\ \A n \in Node : nodes[n] # Absent => nodes[n].engine.views[c] = NoView
    BY <1>o, <2>2
  <2>3. PICK frames : frames = Delivered(in_flight) OBVIOUS
  <2>4. ToSet(frames) \subseteq ToSet(in_flight) BY <1>0, <2>3, QueueParted
  <2>5. Handled(nodes, frames, acc) BY <2>1, <2>3 DEF TickTaken
  <2>6. acc.nodes[c] = Absent BY <2>c, <2>5 DEF Handled
  <2>7. nodes'[c] = Absent BY <2>1, <2>6, <2>c DEF TickTaken
  <2>8. ASSUME NEW p \in Node, nodes'[p] # Absent PROVE nodes'[p].engine.views[c] = NoView
    <3>1. acc.nodes[p] # Absent /\ nodes'[p] = AfterTimers(acc.nodes, p) BY <2>1, <2>8 DEF TickTaken
    <3>2. nodes[p] # Absent /\ KeptAt(nodes, frames, p, acc.nodes[p]) BY <2>5, <3>1 DEF Handled
    <3>3. ~Touched(frames, p, c) BY <2>4, <2>c DEF Touched, QuietFor
    <3>4. acc.nodes[p].engine.views[c] = NoView BY <2>c, <3>2, <3>3 DEF KeptAt
    <3>5. acc.nodes \in NodeMaps BY <2>5 DEF Handled
    <3>6. AfterTimers(acc.nodes, p).engine.views = acc.nodes[p].engine.views BY <3>1, <3>5, TimersRun
    <3> QED BY <3>1, <3>4, <3>6
  <2>9. \A m \in ToSet(TickSends(acc)) : m.from # c /\ m.to # c
    <3> TAKE m \in ToSet(TickSends(acc))
    <3>1. \/ \E f \in ToSet(frames) : Answers(nodes, f, m)
          \/ TimerSends(acc.nodes, m) /\ ToOthers(acc.nodes, m)
          \/ FeedSends(acc.nodes, m) /\ ToOthers(acc.nodes, m)
      BY <2>1, <2>3 DEF TickTaken
    <3>2. CASE \E f \in ToSet(frames) : Answers(nodes, f, m)
      BY <2>4, <2>c, <3>2 DEF Answers, QuietFor
    <3>3. CASE (TimerSends(acc.nodes, m) \/ FeedSends(acc.nodes, m)) /\ ToOthers(acc.nodes, m)
      BY <2>6, <3>3 DEF TimerSends, FeedSends, ToOthers
    <3> QED BY <3>1, <3>2, <3>3
  <2>10. PICK q, w, sends : q = net.queue /\ w = Waiting /\ sends = TickSends(acc) OBVIOUS
  <2>11. /\ Grown(w, sends, net) /\ w.queue = StillWaiting(in_flight)
         /\ in_flight' = AdvanceTick(q) /\ \A f \in ToSet(q) : f.due >= 1
         /\ q \in Seq(Frames)
    BY <2>1, <2>10 DEF TickTaken, Grown, Networks
  <2>12. \A f \in ToSet(w.queue) : f.from # c /\ f.to # c
    BY <1>0, <2>11, <2>c, QueueParted DEF QuietFor
  <2>13. \A f \in ToSet(q) : f.from # c /\ f.to # c
    BY <2>9, <2>10, <2>11, <2>12, QuietSends
  <2>14. \A f \in ToSet(in_flight') : f.from # c /\ f.to # c
    BY <2>11, <2>13, QueueAdvanced
  <2> QED BY <2>7, <2>8, <2>14 DEF QuietFor
<1> HIDE DEF Gone
<1>8. CASE \E n \in Node : AddNode(n) \/ RemoveNode(n) \/ RemoveNodeHard(n)
  BY <1>1, <1>2, <1>8, <1>k
<1>9. CASE \E n \in Node, d \in Change, u \in SyncUrgency : Mutate(n, d, u) \/ MutateWithDelta(n, d, u)
  BY <1>3, <1>9, <1>k
<1>10. CASE \E n \in Node : PeriodicSync(n) \/ \E aged \in {{}, Node} : Query(n, aged)
  BY <1>4, <1>5, <1>10, <1>k
<1>11. CASE Tick BY <1>7, <1>11, <1>k
<1> QED BY <1>6, <1>8, <1>9, <1>10, <1>11 DEF Next

\* After remove_node_hard nothing is under way from the node or to it until it is
\* added again, whatever the test does meanwhile: no node has an entry to pull it
\* by, no broadcast names it and no frame survives (drop_in_flight_for,
\* on_node_left).
THEOREM CrashIsSilent == ASSUME Typed PROVE Spec => []CrashSilences
<1>1. Init => TypeInv /\ CrashInv
  <2>1. Init => crashed = {} BY Zenon DEF Init
  <2> QED BY <2>1, InitTyped DEF CrashInv
<1>2. TypeInv /\ CrashInv /\ [Next]_vars => TypeInv' /\ CrashInv' BY StepTyped, StepCrash DEF Typed
<1>3. TypeInv /\ CrashInv => CrashSilences BY DEF CrashInv, QuietFor, CrashSilences
<1> QED BY <1>1, <1>2, <1>3, PTL DEF Spec

-----------------------------------------------------------------------------
(* The time to settle.                                                     *)

Bound == Max({LongestTimer + LongestHop, 3 * LongestHop})

\* The bound on settling, and what is below it.
LEMMA Bounds ==
    /\ Bound \in Nat /\ LongestHop \in Nat /\ LongestHop >= 1
    /\ LongestTimer \in Nat /\ DelayInTicks \in Nat /\ FeedFlushInterval \in Nat
    /\ DelayInTicks <= LongestTimer /\ FeedFlushInterval <= LongestTimer
    /\ LongestTimer + LongestHop <= Bound /\ 3 * LongestHop <= Bound
<1>1. LongestTimer + LongestHop \in Nat /\ 3 * LongestHop \in Nat BY BoundedHop, Timing
<1> QED BY <1>1, BoundedHop, Timing, MaxOfTwo DEF Bound

\* The hops a message may still set off.
Rest(d) ==
    IF d = Garbage THEN 0
    ELSE IF d.type = "DeltaUpdate" THEN 2 * LongestHop
    ELSE IF d.type = "RequestSnapshot" THEN LongestHop ELSE 0

FrameInTime(w, f) == f.due <= LongestHop /\ w + f.due + Rest(f.data) <= Bound

NodeInTime(w, x) ==
    /\ \A s \in ToSet(x.scheduled) : w + s.in <= DelayInTicks
    /\ x.engine.feed # NoGen => w <= x.counter

FramesInTime == \A f \in ToSet(in_flight) : FrameInTime(waited, f)
NodesInTime == \A n \in Node : nodes[n] # Absent => NodeInTime(waited, nodes[n])
QuietAtRest == IsSettled => waited = 0

TimeInv == FramesInTime /\ NodesInTime /\ QuietAtRest

\* Damage on the way makes a message set off no more hops than it would.
LEMMA RestBounds ==
    /\ \A d : Rest(d) \in Nat /\ Rest(d) <= 2 * LongestHop
    /\ \A b, d : d \in Readings(b) => Rest(d) <= Rest(b)
<1>1. \A d : Rest(d) \in Nat /\ Rest(d) <= 2 * LongestHop BY BoundedHop DEF Rest
<1>2. ASSUME NEW b, NEW d \in Readings(b) PROVE Rest(d) <= Rest(b)
  <2>1. CASE d = Garbage BY <1>1, <2>1 DEF Rest
  <2>2. CASE d # Garbage /\ b # Garbage BY <2>2, <1>1 DEF Rest, Readings
  <2>3. CASE d # Garbage /\ b = Garbage BY <2>3, <1>1 DEF Rest, Readings, IsSync
  <2> QED BY <2>1, <2>2, <2>3
<1> QED BY <1>1, <1>2

\* A call's sends, and what was under way before it, have the whole time left.
LEMMA CallInTime ==
    ASSUME TypeInv, FramesInTime, waited' = 0,
           NEW messages \in Seq(Messages), NEW news \in BOOLEAN,
           Into(SendAll(Network, messages, news))
    PROVE  FramesInTime'
<1>1. PICK net \in SendAll(Network, messages, news) :
              Grown(Network, messages, net) /\ in_flight' = net.queue /\ in_flight' \in Seq(Frames)
  BY CallSends
<1>2. PICK old : old = Network OBVIOUS
<1>3. \A f \in ToSet(old.queue) : f.due <= LongestHop
  BY <1>2, NetworkTyped DEF FramesInTime, FrameInTime
<1>4. \A f \in ToSet(net.queue) : f.due <= LongestHop
  BY <1>1, <1>2, <1>3 DEF Grown, Carries
<1>5. \A f \in ToSet(net.queue) : f.due \in Nat BY <1>1 DEF ToSet, Frames
<1>6. \A f \in ToSet(net.queue) : 0 + f.due + Rest(f.data) <= Bound
  BY <1>4, <1>5, Bounds, RestBounds
<1> QED BY <1>1, <1>4, <1>6 DEF FramesInTime, FrameInTime

\* Nor does a call that sends nothing take time away.
LEMMA CallKeepsFrames ==
    ASSUME TypeInv, FramesInTime, waited' = 0, ToSet(in_flight') \subseteq ToSet(in_flight)
    PROVE  FramesInTime'
<1>1. \A f \in ToSet(in_flight') : f.due <= LongestHop BY DEF FramesInTime, FrameInTime
<1>2. \A f \in ToSet(in_flight') : f.due \in Nat BY DEF ToSet, Frames, TypeInv, QueueTyped
<1>3. \A f \in ToSet(in_flight') : 0 + f.due + Rest(f.data) <= Bound
  BY <1>1, <1>2, Bounds, RestBounds
<1> QED BY <1>1, <1>3 DEF FramesInTime, FrameInTime

\* A node that keeps its timers keeps them in time when the count starts anew.
LEMMA RestartInTime ==
    ASSUME NEW n \in Node, NEW x \in MockNodes(n), NEW w \in Nat, NodeInTime(w, x)
    PROVE  NodeInTime(0, x)
<1>1. x.scheduled \in Seq(Timed(n)) /\ x.counter \in 0 .. FeedFlushInterval - 1 BY DEF MockNodes
<1>2. \A s \in ToSet(x.scheduled) : s.in \in Nat BY <1>1 DEF ToSet, Timed
<1>3. 0 <= x.counter BY <1>1
<1>4. \A s \in ToSet(x.scheduled) : 0 + s.in <= DelayInTicks
  BY <1>2, Bounds DEF NodeInTime
<1> QED BY <1>3, <1>4 DEF NodeInTime

\* A call of the test starts the count anew, with the whole time left.
LEMMA CallTime == ASSUME DataTyped, TypeInv, TimeInv, Next, Call PROVE TimeInv'
<1>0. /\ nodes \in NodeMaps /\ in_flight \in Seq(Frames) /\ lives \in [Node -> Nat] /\ waited \in Nat
      /\ waited' = 0 /\ FramesInTime
  BY DEF TypeInv, NodesTyped, QueueTyped, TestTyped, Call, TimeInv
<1>q. QuietAtRest' BY <1>0 DEF QuietAtRest
<1>n. \A n \in Node : nodes[n] # Absent => nodes[n] \in MockNodes(n) /\ NodeInTime(0, nodes[n])
  <2> TAKE n \in Node
  <2> SUFFICES ASSUME nodes[n] # Absent PROVE nodes[n] \in MockNodes(n) /\ NodeInTime(0, nodes[n]) OBVIOUS
  <2>1. PICK ns, w : ns = nodes /\ w = waited OBVIOUS
  <2>2. ns[n] \in MockNodes(n) /\ NodeInTime(w, ns[n]) BY <1>0, <2>1, NodeTyped DEF TimeInv, NodesInTime
  <2> QED BY <1>0, <2>1, <2>2, RestartInTime
<1>u. ASSUME nodes' = nodes PROVE NodesInTime' BY <1>0, <1>n, <1>u DEF NodesInTime
<1>1. ASSUME NEW n \in Node, AddNode(n) PROVE FramesInTime' /\ NodesInTime'
  <2>1. nodes' = Admitted(nodes, n, lives[n] + 1) /\ nodes[n] = Absent /\ lives[n] + 1 \in Nat
    BY <1>0, <1>1 DEF AddNode
  <2>2. PICK ns, inc : ns = nodes /\ inc = lives[n] + 1 OBVIOUS
  <2>3. /\ Newcomer(ns, n, inc, nodes'[n])
        /\ \A p \in Node \ {n} :
             IF ns[p] = Absent THEN nodes'[p] = Absent
             ELSE Welcomes(ns, n, p, nodes'[p])
    <3> DEFINE A == Admitted(ns, n, inc)
    <3>1. /\ Newcomer(ns, n, inc, A[n])
          /\ \A p \in Node \ {n} : IF ns[p] = Absent THEN A[p] = Absent ELSE Welcomes(ns, n, p, A[p])
      BY <1>0, <2>1, <2>2, NodeAdmitted
    <3> QED BY <3>1, <2>1, <2>2
  <2>4. ASSUME NEW p \in Node, nodes'[p] # Absent PROVE NodeInTime(0, nodes'[p])
    <3>1. CASE p = n
      <4>1. nodes'[n].scheduled = <<>> /\ nodes'[n].engine.feed = NewEngine(n, inc).feed
        BY <2>3 DEF Newcomer, SameState
      <4>2. NewEngine(n, inc).feed = NoGen BY <2>1, <2>2, EngineMade
      <4> QED BY <3>1, <4>1, <4>2, EmptyList DEF NodeInTime
    <3>2. CASE p # n
      <4>1. ns[p] # Absent /\ Welcomes(ns, n, p, nodes'[p]) BY <2>3, <2>4, <3>2
      <4>2. ns[p].engine \in Engines /\ ns[p].engine.id = p BY <1>0, <2>2, <4>1, NodeTyped
      <4>3. OnNodeJoined(ns[p].engine, n).feed = ns[p].engine.feed
        BY <3>2, <4>2, JoinHandled DEF SameState
      <4> QED BY <1>n, <2>2, <4>1, <4>3 DEF NodeInTime, Welcomes
    <3> QED BY <3>1, <3>2
  <2>6. PICK list : list = Greetings(ns, n, inc) OBVIOUS
  <2>7. list \in Seq(Messages) BY <1>0, <2>1, <2>2, <2>6, GreetingsSent
  <2>8. FramesInTime' BY <1>0, <1>1, <2>2, <2>6, <2>7, CallInTime DEF AddNode
  <2> QED BY <1>0, <2>4, <2>8 DEF NodesInTime
<1>2. ASSUME NEW n \in Node, RemoveNode(n) \/ RemoveNodeHard(n) PROVE FramesInTime' /\ NodesInTime'
  <2>1. nodes' = Left(nodes, n) BY <1>2 DEF RemoveNode, RemoveNodeHard, Without, Left
  <2>2. PICK ns : ns = nodes OBVIOUS
  <2>3. /\ nodes'[n] = Absent
        /\ \A p \in Node \ {n} :
              IF ns[p] = Absent THEN nodes'[p] = Absent ELSE Bereft(ns, n, p, nodes'[p])
    <3> DEFINE A == Left(ns, n)
    <3>1. /\ A[n] = Absent
          /\ \A p \in Node \ {n} : IF ns[p] = Absent THEN A[p] = Absent ELSE Bereft(ns, n, p, A[p])
      BY <1>0, <2>2, NodeLeft
    <3> QED BY <3>1, <2>1, <2>2
  <2>4. ASSUME NEW p \in Node, nodes'[p] # Absent PROVE NodeInTime(0, nodes'[p])
    <3>1. p # n /\ ns[p] # Absent /\ Bereft(ns, n, p, nodes'[p]) BY <2>3, <2>4
    <3>2. ns[p].engine \in Engines /\ ns[p].engine.id = p BY <1>0, <2>2, <3>1, NodeTyped
    <3>3. OnNodeLeft(ns[p].engine, n).feed = ns[p].engine.feed BY <3>1, <3>2, LeaveHandled DEF SameState
    <3> QED BY <1>n, <2>2, <3>1, <3>3 DEF NodeInTime, Bereft
  <2>5. ToSet(in_flight') \subseteq ToSet(in_flight)
    <3>1. CASE RemoveNode(n) BY <3>1 DEF RemoveNode
    <3>2. CASE RemoveNodeHard(n)
      <4> DEFINE S == {f \in ToSet(in_flight) : f.from # n /\ f.to # n}
      <4>1. in_flight' = Only(in_flight, S) BY <3>2 DEF RemoveNodeHard, DropInFlightFor
      <4>2. ToSet(in_flight') = ToSet(in_flight) \cap S BY <1>0, <4>1, OnlyOf
      <4> QED BY <4>2
    <3> QED BY <1>2, <3>1, <3>2
  <2>6. FramesInTime' BY <1>0, <2>5, CallKeepsFrames
  <2> QED BY <1>0, <2>4, <2>6 DEF NodesInTime
<1>3. ASSUME NEW n \in Node, NEW d \in Change, NEW u \in SyncUrgency,
             Mutate(n, d, u) \/ MutateWithDelta(n, d, u)
      PROVE  FramesInTime' /\ NodesInTime'
  <2>1. PICK b, y : MutationTaken(n, d, ResolveAction(u), b, y) BY <1>3, MutateUnfolds
  <2>2. PICK action : action = ResolveAction(u) OBVIOUS
  <2>3. MutationTaken(n, d, action, b, y) BY <2>1, <2>2
  <2>4. PICK ns : ns = nodes OBVIOUS
  <2>5. /\ ns[n] # Absent /\ y \in MockNodes(n) /\ nodes' = [ns EXCEPT ![n] = y] /\ ns \in NodeMaps
    BY <1>0, <2>3, <2>4 DEF MutationTaken
  <2>6. /\ nodes'[n] = y /\ \A p \in Node \ {n} : nodes'[p] = ns[p] BY <2>5, NodeReplaced
  <2>7. NodeInTime(0, y)
    <3>1. y.counter \in 0 .. FeedFlushInterval - 1 BY <2>5 DEF MockNodes
    <3>2. 0 <= y.counter BY <3>1
    <3>3. NodeInTime(0, ns[n]) BY <1>n, <2>4, <2>5
    <3>4. CASE y.scheduled = ns[n].scheduled BY <3>2, <3>3, <3>4 DEF NodeInTime
    <3>5. CASE y.scheduled # ns[n].scheduled
      <4>1. PICK s : /\ y.scheduled = Append(ns[n].scheduled, s) /\ s.in = DelayInTicks
                     /\ s = [body |-> SnapshotBody(ns[n].engine, d), in |-> DelayInTicks]
        BY <2>3, <2>4, <3>5 DEF MutationTaken
      <4>2. ns[n].scheduled \in Seq(Timed(n)) /\ ns[n].engine \in Engines /\ ns[n].engine.id = n
        BY <2>5, NodeTyped
      <4>3. SnapshotBody(ns[n].engine, d) \in Snapshots /\ SnapshotBody(ns[n].engine, d).src = n
        BY <4>2, MutationMade
      <4>4. s \in Timed(n) BY <4>1, <4>3, Bounds DEF Timed
      <4>5. ToSet(y.scheduled) = ToSet(ns[n].scheduled) \cup {s} BY <4>1, <4>2, <4>4, AppendedList
      <4>6. 0 + s.in <= DelayInTicks BY <4>1, Bounds
      <4> QED BY <3>2, <3>3, <4>5, <4>6 DEF NodeInTime
    <3> QED BY <3>4, <3>5
  <2>8. NodesInTime' BY <1>0, <1>n, <2>4, <2>6, <2>7 DEF NodesInTime
  <2>9. FramesInTime'
    <3>1. CASE Into(SendAll(Network, Broadcast(nodes, n, b), TRUE))
      <4>1. PICK list : list = Broadcast(nodes, n, b) OBVIOUS
      <4>2. list \in Seq(Messages) BY <2>3, <4>1, MessagesOfMutation
      <4> QED BY <1>0, <3>1, <4>1, <4>2, CallInTime
    <3>2. CASE UNCHANGED <<in_flight, excused>> BY <1>0, <3>2, CallKeepsFrames
    <3> QED BY <2>3, <3>1, <3>2 DEF MutationTaken
  <2> QED BY <2>8, <2>9
<1>4. ASSUME NEW n \in Node, NEW aged, Query(n, aged) PROVE FramesInTime' /\ NodesInTime'
  <2> DEFINE e == nodes[n].engine
             pulled == Only(NodeOrder, Pulled(e, aged))
             out == [k \in DOMAIN pulled |-> Message(n, pulled[k], Request(e))]
  <2>1. /\ nodes[n] # Absent /\ Into(SendAll(Network, out, FALSE)) /\ nodes' = nodes
    BY <1>4 DEF Query
  <2>2. out \in Seq(Messages) BY <2>1, PulledSent
  <2>3. PICK list : list = out OBVIOUS
  <2> HIDE DEF out
  <2>4. FramesInTime' BY <1>0, <2>1, <2>2, <2>3, CallInTime
  <2> QED BY <1>u, <2>1, <2>4
<1>5. ASSUME NEW n \in Node, PeriodicSync(n) PROVE FramesInTime' /\ NodesInTime'
  <2>1. PICK ns : ns = nodes OBVIOUS
  <2>2. /\ ns[n] # Absent /\ Into(SendAll(Network, Broadcast(ns, n, OwnSnapshot(ns[n].engine)), FALSE))
        /\ nodes' = nodes
    BY <1>5, <2>1 DEF PeriodicSync
  <2>3. ns[n].engine \in Engines /\ ns[n].engine.id = n BY <1>0, <2>1, <2>2, NodeTyped
  <2>4. PICK b : b = OwnSnapshot(ns[n].engine) OBVIOUS
  <2>5. b \in Bodies /\ b.src = n BY <2>3, <2>4, BodiesMade
  <2>6. PICK list : list = Broadcast(ns, n, b) OBVIOUS
  <2>7. list \in Seq(Messages) BY <2>5, <2>6, BroadcastSent
  <2>8. FramesInTime' BY <1>0, <2>2, <2>4, <2>6, <2>7, CallInTime
  <2> QED BY <1>u, <2>2, <2>8
<1>6. CASE (\E i \in Interceptor : AddInterceptor(i)) \/ ClearInterceptors
  <2>1. nodes' = nodes /\ in_flight' = in_flight BY <1>6 DEF AddInterceptor, ClearInterceptors
  <2>2. FramesInTime' BY <1>0, <2>1, CallKeepsFrames
  <2> QED BY <1>q, <1>u, <2>1, <2>2 DEF TimeInv
<1>7. ~Tick
  <2>1. Tick => calls' = calls BY DEF Tick
  <2>2. calls \in Nat /\ calls' = calls + 1 BY DEF Call, TypeInv, TestTyped
  <2> QED BY <2>1, <2>2
<1>8. CASE \E n \in Node : AddNode(n) \/ RemoveNode(n) \/ RemoveNodeHard(n)
  BY <1>1, <1>2, <1>8, <1>q DEF TimeInv
<1>9. CASE \E n \in Node, d \in Change, u \in SyncUrgency : Mutate(n, d, u) \/ MutateWithDelta(n, d, u)
  BY <1>3, <1>9, <1>q DEF TimeInv
<1>10. CASE \E n \in Node : PeriodicSync(n) \/ \E aged \in {{}, Node} : Query(n, aged)
  BY <1>4, <1>5, <1>10, <1>q DEF TimeInv
<1> QED BY <1>6, <1>7, <1>8, <1>9, <1>10 DEF Next

\* A tick takes a tick of the time that is left, and no more.
LEMMA TickTime == ASSUME DataTyped, TypeInv, TimeInv, Tick PROVE TimeInv'
<1>0. /\ nodes \in NodeMaps /\ in_flight \in Seq(Frames) /\ waited \in Nat
  BY DEF TypeInv, NodesTyped, QueueTyped, TestTyped
<1>1. waited' = IF IsSettled' THEN 0 ELSE waited + 1 BY DEF Tick
<1>2. QuietAtRest' BY <1>1 DEF QuietAtRest
<1>3. PICK acc, net : TickTaken(acc, net) BY TickUnfolds
<1>4. PICK ns, q, w, v : ns = nodes /\ q = in_flight /\ w = waited /\ v = waited' OBVIOUS
<1>5. w \in Nat /\ v \in Nat /\ v <= w + 1 BY <1>0, <1>1, <1>4
<1>6. /\ \A f \in ToSet(q) : FrameInTime(w, f)
      /\ \A n \in Node : ns[n] # Absent => NodeInTime(w, ns[n])
  BY <1>4 DEF TimeInv, FramesInTime, NodesInTime
<1>7. /\ Handled(ns, Delivered(q), acc)
      /\ \A m \in ToSet(TickSends(acc)) :
          \/ \E f \in ToSet(Delivered(q)) : Answers(ns, f, m)
          \/ TimerSends(acc.nodes, m) /\ ToOthers(acc.nodes, m)
          \/ FeedSends(acc.nodes, m) /\ ToOthers(acc.nodes, m)
      /\ Waiting.queue = StillWaiting(q)
      /\ Grown(Waiting, TickSends(acc), net)
      /\ net.queue \in Seq(Frames)
      /\ \A f \in ToSet(net.queue) : f.due >= 1
      /\ in_flight' = AdvanceTick(net.queue)
      /\ \A n \in Node : nodes'[n] = IF acc.nodes[n] = Absent THEN Absent
                                     ELSE AfterTimers(acc.nodes, n)
  BY <1>3, <1>4 DEF TickTaken, Grown, Networks
<1>8. /\ ToSet(Delivered(q)) = {f \in ToSet(q) : f.due = 0 /\ f.data # Garbage}
      /\ ToSet(StillWaiting(q)) = {f \in ToSet(q) : f.due >= 1}
  BY <1>0, <1>4, QueueParted
<1>9. /\ acc.nodes \in NodeMaps
      /\ \A n \in Node : IF ns[n] = Absent THEN acc.nodes[n] = Absent
                         ELSE KeptAt(ns, Delivered(q), n, acc.nodes[n])
  BY <1>7 DEF Handled
<1>10. \A n \in Node : acc.nodes[n] # Absent =>
          /\ ns[n] # Absent
          /\ NodeInTime(w, ns[n])
          /\ acc.nodes[n].scheduled = ns[n].scheduled /\ acc.nodes[n].counter = ns[n].counter
          /\ acc.nodes[n].engine.feed = ns[n].engine.feed
          /\ acc.nodes[n].counter \in 0 .. FeedFlushInterval - 1
          /\ acc.nodes[n].scheduled \in Seq(Timed(n))
  BY <1>6, <1>9, NodeTyped DEF KeptAt
<1>11. ASSUME NEW m \in ToSet(TickSends(acc))
       PROVE  w + LongestHop + Rest(m.body) <= Bound
  <2>1. CASE \E f \in ToSet(Delivered(q)) : Answers(ns, f, m)
    <3>1. PICK f \in ToSet(Delivered(q)) : Answers(ns, f, m) BY <2>1
    <3>2. f.due = 0 /\ f.data # Garbage /\ FrameInTime(w, f) BY <1>6, <1>8, <3>1
    <3>3. w + Rest(f.data) <= Bound BY <1>5, <3>2, RestBounds DEF FrameInTime
    <3>4. LongestHop + Rest(m.body) <= Rest(f.data)
      <4>1. CASE f.data.type = "RequestSnapshot" /\ m.body.type = "FullSnapshot"
        BY <3>2, <4>1, Bounds DEF Rest
      <4>2. CASE f.data.type = "DeltaUpdate" /\ m.body.type = "RequestSnapshot"
        BY <3>2, <4>2, Bounds DEF Rest
      <4> QED BY <3>1, <4>1, <4>2 DEF Answers
    <3> QED BY <1>5, <3>3, <3>4, RestBounds, Bounds
  <2>2. CASE TimerSends(acc.nodes, m)
    <3>1. /\ m.from \in Node /\ acc.nodes[m.from] # Absent
          /\ \E s \in ToSet(acc.nodes[m.from].scheduled) : s.in = 0
          /\ m.body.type = "FullSnapshot"
      BY <2>2 DEF TimerSends
    <3>2. w <= DelayInTicks BY <1>5, <1>10, <3>1 DEF NodeInTime
    <3>3. Rest(m.body) = 0 BY <3>1 DEF Rest
    <3> QED BY <1>5, <3>2, <3>3, Bounds
  <2>3. CASE FeedSends(acc.nodes, m)
    <3>1. /\ m.from \in Node /\ acc.nodes[m.from] # Absent
          /\ acc.nodes[m.from].engine.feed # NoGen
          /\ m.body.type = "Feed"
      BY <2>3 DEF FeedSends, Flushes
    <3>2. w <= ns[m.from].counter /\ ns[m.from].counter \in 0 .. FeedFlushInterval - 1
      BY <1>10, <3>1 DEF NodeInTime
    <3>3. Rest(m.body) = 0 BY <3>1 DEF Rest
    <3> QED BY <1>5, <3>2, <3>3, Bounds
  <2> QED BY <1>7, <2>1, <2>2, <2>3
<1>12. ASSUME NEW f \in ToSet(AdvanceTick(net.queue)) PROVE FrameInTime(v, f)
  <2>0. PICK out : out = net.queue OBVIOUS
  <2>1. PICK g \in ToSet(out) : f.data = g.data /\ f.due = g.due - 1
    BY <1>7, <2>0, QueueAdvanced
  <2>2. g.due \in Nat /\ g.due >= 1 BY <1>7, <2>0, <2>1 DEF ToSet, Frames
  <2>3. CASE g \in ToSet(Waiting.queue)
    <3>1. FrameInTime(w, g) BY <1>6, <1>7, <1>8, <2>3
    <3> QED BY <1>5, <2>1, <2>2, <3>1, RestBounds, Bounds DEF FrameInTime
  <2>4. CASE \E m \in ToSet(TickSends(acc)) : Carries(g, m)
    <3>1. PICK m \in ToSet(TickSends(acc)) : Carries(g, m) BY <2>4
    <3>2. g.due <= LongestHop /\ Rest(g.data) <= Rest(m.body) BY <3>1, RestBounds, Bounds DEF Carries
    <3>3. w + LongestHop + Rest(m.body) <= Bound BY <1>11, <3>1
    <3>4. Rest(g.data) \in Nat /\ Rest(m.body) \in Nat BY RestBounds
    <3> QED BY <1>5, <2>1, <2>2, <3>2, <3>3, <3>4, Bounds DEF FrameInTime
  <2> QED BY <1>7, <2>0, <2>1, <2>3, <2>4 DEF Grown
<1>13. FramesInTime' BY <1>4, <1>7, <1>12 DEF FramesInTime
<1>14. ASSUME NEW n \in Node, acc.nodes[n] # Absent PROVE NodeInTime(v, AfterTimers(acc.nodes, n))
  <2> DEFINE x == AfterTimers(acc.nodes, n)
  <2>1. ASSUME NEW t \in ToSet(x.scheduled) PROVE v + t.in <= DelayInTicks
    <3>1. PICK s \in ToSet(acc.nodes[n].scheduled) : s.in # 0 /\ t.in = s.in - 1
      BY <1>9, <1>14, TimersRun
    <3>0. acc.nodes[n].scheduled \in Seq(Timed(n)) BY <1>10, <1>14
    <3>2. s.in \in Nat BY <3>0, <3>1 DEF ToSet, Timed
    <3>3. w + s.in <= DelayInTicks BY <1>10, <1>14, <3>1 DEF NodeInTime
    <3> QED BY <1>5, <3>1, <3>2, <3>3, Bounds
  <2>2. ASSUME x.engine.feed # NoGen PROVE v <= x.counter
    <3>1. /\ x.engine.feed = IF Flushes(acc.nodes, n) THEN NoGen ELSE acc.nodes[n].engine.feed
          /\ x.counter = IF acc.nodes[n].engine.feed = NoGen \/ Flushes(acc.nodes, n) THEN 0
                         ELSE acc.nodes[n].counter + 1
      BY <1>9, <1>14, TimersRun
    <3>2. acc.nodes[n].engine.feed # NoGen /\ x.counter = acc.nodes[n].counter + 1 BY <2>2, <3>1
    <3>3. w <= acc.nodes[n].counter /\ acc.nodes[n].counter \in 0 .. FeedFlushInterval - 1
      BY <1>10, <1>14, <3>2 DEF NodeInTime
    <3> QED BY <1>5, <3>2, <3>3, Bounds
  <2> QED BY <2>1, <2>2 DEF NodeInTime
<1>15. NodesInTime'
  <2> SUFFICES ASSUME NEW n \in Node, nodes'[n] # Absent PROVE NodeInTime(v, nodes'[n])
    BY <1>4 DEF NodesInTime
  <2>1. acc.nodes[n] # Absent /\ nodes'[n] = AfterTimers(acc.nodes, n) BY <1>7
  <2> QED BY <1>14, <2>1
<1> QED BY <1>2, <1>13, <1>15 DEF TimeInv

\* The greetings of a new cluster are in time.
LEMMA InitTime == ASSUME Typed, Init PROVE TimeInv
<1>1. Fresh(Node, Built) BY BuiltFresh DEF Typed
<1>2. /\ nodes = Built.nodes /\ waited = 0
      /\ in_flight = [k \in DOMAIN Built.sent |->
            Frame(Built.sent[k].from, Built.sent[k].to, Built.sent[k].body, 1)]
  BY Zenon DEF Init, Built
<1>3. Built.sent \in Seq(Messages) BY <1>1 DEF Fresh
<1>4. ASSUME NEW f \in ToSet(in_flight) PROVE FrameInTime(0, f)
  <2>1. f.due = 1 BY <1>2, <1>4 DEF ToSet, Frame
  <2>2. Rest(f.data) \in Nat /\ Rest(f.data) <= 2 * LongestHop BY RestBounds
  <2> QED BY <2>1, <2>2, Bounds DEF FrameInTime
<1>5. ASSUME NEW n \in Node PROVE NodeInTime(0, nodes[n])
  <2>1. PICK x : x = nodes[n] OBVIOUS
  <2>2. FreshAt(Node, n, x) BY <1>1, <1>2, <2>1 DEF Fresh
  <2>3. x.scheduled = <<>> /\ x.engine.feed = NewEngine(n, 1).feed BY <2>2 DEF FreshAt, SameState
  <2>4. NewEngine(n, 1).feed = NoGen BY EngineMade DEF Typed
  <2> QED BY <2>1, <2>3, <2>4, EmptyList DEF NodeInTime
<1> QED BY <1>2, <1>4, <1>5 DEF TimeInv, FramesInTime, NodesInTime, QuietAtRest

\* What keeps the cluster from being quiet keeps the count below the bound.
LEMMA TimeInvBounds == ASSUME TypeInv, TimeInv PROVE SettlesInTime
<1>0. /\ nodes \in NodeMaps /\ in_flight \in Seq(Frames) /\ waited \in Nat
  BY DEF TypeInv, NodesTyped, QueueTyped, TestTyped
<1>1. CASE IsSettled BY <1>1, Bounds DEF TimeInv, QuietAtRest, SettlesInTime, Bound
<1>2. CASE in_flight # <<>>
  <2>1. in_flight[1] \in ToSet(in_flight) /\ in_flight[1] \in Frames BY <1>0, <1>2 DEF ToSet
  <2>2. PICK f \in ToSet(in_flight) : f \in Frames BY <2>1
  <2>3. f.due \in Nat /\ waited + f.due + Rest(f.data) <= Bound
    BY <2>2 DEF Frames, TimeInv, FramesInTime, FrameInTime
  <2> QED BY <1>0, <2>3, RestBounds, Bounds DEF SettlesInTime, Bound
<1>3. CASE \E n \in Node : nodes[n] # Absent /\ nodes[n].scheduled # <<>>
  <2>1. PICK n \in Node : nodes[n] # Absent /\ nodes[n].scheduled # <<>> BY <1>3
  <2>2. PICK x : x = nodes[n] OBVIOUS
  <2>3. x.scheduled \in Seq(Timed(n)) /\ NodeInTime(waited, x)
    BY <1>0, <2>1, <2>2, NodeTyped DEF TimeInv, NodesInTime
  <2>4. x.scheduled[1] \in ToSet(x.scheduled) /\ x.scheduled[1] \in Timed(n)
    BY <2>1, <2>2, <2>3 DEF ToSet
  <2>5. PICK s \in ToSet(x.scheduled) : s \in Timed(n) BY <2>4
  <2>6. s.in \in Nat /\ waited + s.in <= DelayInTicks BY <2>3, <2>5 DEF Timed, NodeInTime
  <2> QED BY <1>0, <2>6, Bounds DEF SettlesInTime, Bound
<1>4. CASE \E n \in Node : nodes[n] # Absent /\ nodes[n].engine.feed # NoGen
  <2>1. PICK n \in Node : nodes[n] # Absent /\ nodes[n].engine.feed # NoGen BY <1>4
  <2>2. PICK x : x = nodes[n] OBVIOUS
  <2>3. x.counter \in 0 .. FeedFlushInterval - 1 /\ NodeInTime(waited, x)
    BY <1>0, <2>1, <2>2, NodeTyped DEF TimeInv, NodesInTime
  <2>4. waited <= x.counter BY <2>1, <2>2, <2>3 DEF NodeInTime
  <2> QED BY <1>0, <2>3, <2>4, Bounds DEF SettlesInTime, Bound
<1> QED BY <1>1, <1>2, <1>3, <1>4 DEF IsSettled

\* So is every step.
LEMMA StepTime == ASSUME DataTyped, TypeInv, TimeInv, [Next]_vars PROVE TimeInv'
<1>1. CASE UNCHANGED vars
  <2>1. IsSettled' <=> IsSettled BY <1>1 DEF vars, IsSettled
  <2> QED BY <1>1, <2>1 DEF vars, TimeInv, FramesInTime, NodesInTime, QuietAtRest
<1>2. CASE Next /\ Call BY <1>2, CallTime
<1>3. CASE Tick BY <1>3, TickTime
<1>4. ASSUME Next PROVE Call \/ Tick
  <2>1. \A n : AddNode(n) => Call BY Zenon DEF AddNode
  <2>2. \A n : RemoveNode(n) \/ RemoveNodeHard(n) => Call BY Zenon DEF RemoveNode, RemoveNodeHard
  <2>3. \A n, c, u : Mutate(n, c, u) => Call BY Zenon DEF Mutate
  <2>4. \A n, c, u : MutateWithDelta(n, c, u) => Call BY Zenon DEF MutateWithDelta
  <2>5. \A n, aged : Query(n, aged) => Call BY Zenon DEF Query
  <2>6. \A n : PeriodicSync(n) => Call BY Zenon DEF PeriodicSync
  <2>7. \A i : AddInterceptor(i) => Call BY Zenon DEF AddInterceptor
  <2>8. ClearInterceptors => Call BY Zenon DEF ClearInterceptors
  <2> QED BY Zenon, <1>4, <2>1, <2>2, <2>3, <2>4, <2>5, <2>6, <2>7, <2>8 DEF Next
<1> QED BY <1>1, <1>2, <1>3, <1>4

\* settle() never meets its limit: for every pipeline of interceptors and every
\* sequence of calls the cluster is quiet within the longest timer and hop, or
\* three hops, after the last call.  Dropping, duplicating, delaying or damaging
\* messages never makes an exchange that goes on (settle_with_limit, tick).
THEOREM SettleIsBounded == ASSUME Typed PROVE Spec => []SettlesInTime
<1>1. Init => TypeInv /\ TimeInv BY InitTyped, InitTime
<1>2. TypeInv /\ TimeInv /\ [Next]_vars => TypeInv' /\ TimeInv' BY StepTyped, StepTime DEF Typed
<1>3. TypeInv /\ TimeInv => SettlesInTime BY TimeInvBounds
<1> QED BY <1>1, <1>2, <1>3, PTL DEF Spec

-----------------------------------------------------------------------------
(* What a list of sends makes of the queue and of the ghost: a message     *)
(* arrives, or what it was for is excused.                                 *)

\* A list that goes on where another ends.
Extends(q, r) == Len(q) <= Len(r) /\ \A i \in 1 .. Len(q) : r[i] = q[i]

\* The message is under way, unharmed.
Landed(q, m) == \E f \in ToSet(q) : f.from = m.from /\ f.to = m.to /\ f.data = m.body

\* Where the announcements of p to n stand in a queue.
FeedAt(q, i, p, n) ==
    /\ i \in DOMAIN q /\ q[i].from = p /\ q[i].to = n
    /\ q[i].data # Garbage /\ q[i].data.type = "Feed"

ArrivesBefore(q, i, j) == q[i].due < q[j].due \/ (q[i].due = q[j].due /\ i < j)

\* An announcement of generation g that arrives after those of all others.
Latest(q, j, p, n, g) ==
    /\ FeedAt(q, j, p, n) /\ q[j].data.gen = g
    /\ \A i \in DOMAIN q : FeedAt(q, i, p, n) /\ q[i].data.gen # g => ArrivesBefore(q, i, j)

Newest(q, p, n, g) == \E j \in DOMAIN q : Latest(q, j, p, n, g)

FeedMessage(m, p, n) == m.from = p /\ m.to = n /\ m.body.type = "Feed"

\* A list that goes on twice goes on.
LEMMA ExtendsTwice ==
    ASSUME NEW T, NEW q \in Seq(T), NEW r \in Seq(T), NEW s \in Seq(T), Extends(q, r), Extends(r, s)
    PROVE  Extends(q, s)
<1>1. Len(q) \in Nat /\ Len(r) \in Nat /\ Len(s) \in Nat OBVIOUS
<1> QED BY <1>1 DEF Extends

\* One message sent: the queue goes on, and either all copies are in it as they
\* were sent or what the message was for is excused.
LEMMA SentOne ==
    ASSUME NEW net \in Networks, NEW m \in Messages, NEW news \in BOOLEAN,
           NEW pipeline \in Seq(Interceptor),
           NEW fate \in ApplyInterceptors(pipeline, m.from, m.to, m.body),
           NEW y, y = Sent(net, m, fate, news)
    PROVE  /\ y \in Networks /\ y.excused = Excuses(net, m, fate, news)
           /\ fate \in Fates(m.body)
           /\ Extends(net.queue, y.queue)
           /\ \A i \in DOMAIN y.queue : i > Len(net.queue) =>
                 /\ Carries(y.queue[i], m) /\ y.queue[i].data = fate.data
                 /\ y.queue[i].due = 1 + fate.ticks
           /\ fate.copies # 0 => Len(net.queue) + 1 \in DOMAIN y.queue
<1>1. m.body \in Bodies /\ m.from \in Node /\ m.to \in Node BY DEF Messages
<1>2. fate \in Fates(m.body) BY <1>1, PipelineFates
<1>3. net.queue \in Seq(Frames) BY DEF Networks
<1> DEFINE q == Queued(m.from, m.to, fate)
<1>4. y \in Networks BY SentGrows
<1>5. q \in Seq(Frames) /\ \A f \in ToSet(q) : Carries(f, m) BY <1>2, QueuedFrames
<1>6. fate.copies \in Nat BY <1>2 DEF Fates
<1>7. Len(q) = fate.copies /\ \A k \in 1 .. Len(q) : q[k] = Frame(m.from, m.to, fate.data, 1 + fate.ticks)
  BY <1>6 DEF Queued
<1>8. \A k \in 1 .. Len(q) : q[k].data = fate.data /\ q[k].due = 1 + fate.ticks /\ q[k] \in ToSet(q)
  BY <1>5, <1>7 DEF Frame, ToSet
<1>9. y.queue = net.queue \o q /\ y.excused = Excuses(net, m, fate, news) BY DEF q, Sent
<1> HIDE DEF q
<1>10. PICK a : a = net.queue OBVIOUS
<1>11. /\ Len(a) \in Nat /\ Len(q) \in Nat /\ DOMAIN (a \o q) = 1 .. Len(a) + Len(q)
       /\ Len(a \o q) = Len(a) + Len(q)
       /\ \A i \in 1 .. Len(a) : (a \o q)[i] = a[i]
       /\ \A i \in 1 .. Len(a) + Len(q) : i > Len(a) => (a \o q)[i] = q[i - Len(a)] /\ i - Len(a) \in 1 .. Len(q)
  BY <1>3, <1>5, <1>10
<1>12. Extends(a, a \o q) BY <1>11 DEF Extends
<1>13. ASSUME NEW i \in DOMAIN (a \o q), i > Len(a)
       PROVE  /\ Carries((a \o q)[i], m) /\ (a \o q)[i].data = fate.data
              /\ (a \o q)[i].due = 1 + fate.ticks
  BY <1>5, <1>8, <1>11, <1>13
<1>14. fate.copies # 0 => Len(a) + 1 \in DOMAIN (a \o q) BY <1>6, <1>7, <1>11
<1> QED BY <1>2, <1>4, <1>9, <1>10, <1>12, <1>13, <1>14

\* What a list of sends, the first k of them, makes of the queue: it goes on.
Added(net, messages, x) ==
    /\ Grown(net, messages, x)
    /\ Extends(net.queue, x.queue)
    /\ \A i \in DOMAIN x.queue : i > Len(net.queue) => \E m \in ToSet(messages) : Carries(x.queue[i], m)

\* Each message has arrived in the queue, or what it was for is excused.
Told(net, messages, k, x) ==
    /\ net.excused \subseteq x.excused
    /\ \A j \in 1 .. k : Concerns(messages[j]) \in x.excused \/ Landed(x.queue, messages[j])

\* The same where newer messages make up for older ones.
ToldNews(net, messages, k, x) ==
    \A c \in Node \X Node :
        \/ c \in x.excused
        \/ c \notin net.excused /\ \A j \in 1 .. k : Concerns(messages[j]) # c
        \/ \E j \in 1 .. k : Concerns(messages[j]) = c /\ Landed(x.queue, messages[j])

\* Damage that is under way is excused.
Sound(x) ==
    \A f \in ToSet(x.queue) : IsSync(f.data) /\ IsHurt(f.data) => <<f.to, f.from>> \in x.excused

\* The latest announcement of a list is the last to arrive.
ToldFeeds(messages, k, x) ==
    \A p, n \in Node, g \in Generation :
        /\ <<n, p>> \notin x.excused
        /\ \E j \in 1 .. k : FeedMessage(messages[j], p, n)
        /\ \A m \in ToSet(messages) : FeedMessage(m, p, n) => m.body.gen = g
        => Newest(x.queue, p, n, g)

\* What has landed stays in a queue that goes on.
LEMMA LandedStays ==
    ASSUME NEW q \in Seq(Frames), NEW r \in Seq(Frames), Extends(q, r), NEW m, Landed(q, m)
    PROVE  Landed(r, m)
<1>1. PICK f \in ToSet(q) : f.from = m.from /\ f.to = m.to /\ f.data = m.body BY DEF Landed
<1>2. PICK i \in DOMAIN q : f = q[i] BY DEF ToSet
<1>3. i \in DOMAIN r /\ r[i] = f BY <1>2 DEF Extends
<1> QED BY <1>1, <1>3 DEF Landed, ToSet

\* The last announcement stays the last while only announcements of its
\* generation, or none, are added.
LEMMA NewestStays ==
    ASSUME NEW q \in Seq(Frames), NEW r \in Seq(Frames), Extends(q, r),
           NEW p \in Node, NEW n \in Node, NEW g, Newest(q, p, n, g),
           \A i \in DOMAIN r : i > Len(q) /\ FeedAt(r, i, p, n) => r[i].data.gen = g
    PROVE  Newest(r, p, n, g)
<1>1. PICK j \in DOMAIN q : Latest(q, j, p, n, g) BY DEF Newest
<1>2. \A i \in DOMAIN q : i \in DOMAIN r /\ r[i] = q[i] BY DEF Extends
<1>3. \A i \in DOMAIN r : i \in DOMAIN q \/ i > Len(q) OBVIOUS
<1>4. Latest(r, j, p, n, g)
  <2>1. FeedAt(r, j, p, n) /\ r[j].data.gen = g BY <1>1, <1>2 DEF Latest, FeedAt
  <2>2. ASSUME NEW i \in DOMAIN r, FeedAt(r, i, p, n), r[i].data.gen # g PROVE ArrivesBefore(r, i, j)
    <3>1. i \in DOMAIN q BY <1>3, <2>2
    <3>2. FeedAt(q, i, p, n) /\ q[i].data.gen # g BY <1>2, <2>2, <3>1 DEF FeedAt
    <3>3. ArrivesBefore(q, i, j) BY <1>1, <3>1, <3>2 DEF Latest
    <3> QED BY <1>1, <1>2, <3>1, <3>3 DEF ArrivesBefore
  <2> QED BY <2>1, <2>2 DEF Latest
<1> QED BY <1>2, <1>4 DEF Newest

Unhurt(messages, news) ==
    \A m \in ToSet(messages) : ~IsHurt(m.body) /\ (news => m.body.type # "RequestSnapshot")

\* One more message, met by its fate: what holds of the first k holds of k + 1.
LEMMA OneTold ==
    ASSUME NEW net \in Networks, NEW messages \in Seq(Messages), NEW k \in Nat,
           k + 1 <= Len(messages), NEW m, m = messages[k + 1],
           NEW z \in Networks, NEW pipeline \in Seq(Interceptor),
           NEW fate \in ApplyInterceptors(pipeline, m.from, m.to, m.body),
           NEW news \in BOOLEAN, ~news, NEW y, y = Sent(z, m, fate, news), Told(net, messages, k, z)
    PROVE  Told(net, messages, k + 1, y)
<1>0. m \in Messages /\ k + 1 \in 1 .. Len(messages) OBVIOUS
<1>1. /\ y \in Networks /\ y.excused = Excuses(z, m, fate, news)
      /\ Extends(z.queue, y.queue)
      /\ \A i \in DOMAIN y.queue : i > Len(z.queue) => Carries(y.queue[i], m) /\ y.queue[i].data = fate.data
      /\ fate.copies # 0 => Len(z.queue) + 1 \in DOMAIN y.queue
  BY <1>0, SentOne
<1>2. z.queue \in Seq(Frames) /\ y.queue \in Seq(Frames) BY <1>1 DEF Networks
<1>3. z.excused \subseteq y.excused BY <1>1 DEF Excuses
<1>4. \A j \in 1 .. k : Concerns(messages[j]) \in y.excused \/ Landed(y.queue, messages[j])
  <2> TAKE j \in 1 .. k
  <2>1. PICK c : c = messages[j] OBVIOUS
  <2>2. Concerns(c) \in z.excused \/ Landed(z.queue, c) BY <2>1 DEF Told
  <2> QED BY <1>1, <1>2, <1>3, <2>1, <2>2, LandedStays
<1>5. Concerns(m) \in y.excused \/ Landed(y.queue, m)
  <2>1. CASE fate.copies = 0 \/ fate.data # m.body BY <1>1, <2>1 DEF Excuses
  <2>2. CASE fate.copies # 0 /\ fate.data = m.body
    <3>0. Len(z.queue) \in Nat BY <1>2
    <3>1. PICK i \in DOMAIN y.queue : i > Len(z.queue) BY <1>1, <2>2, <3>0
    <3>2. Carries(y.queue[i], m) /\ y.queue[i].data = m.body BY <1>1, <2>2, <3>1
    <3>3. y.queue[i] \in ToSet(y.queue) BY <3>1 DEF ToSet
    <3> QED BY <3>2, <3>3 DEF Landed, Carries
  <2> QED BY <2>1, <2>2
<1>6. \A j \in 1 .. k + 1 : j \in 1 .. k \/ j = k + 1 OBVIOUS
<1> QED BY <1>3, <1>4, <1>5, <1>6 DEF Told

\* The same for news: one that lands clears the excuse of the ones before.
LEMMA OneToldNews ==
    ASSUME NEW net \in Networks, NEW messages \in Seq(Messages), NEW k \in Nat,
           k + 1 <= Len(messages), NEW m, m = messages[k + 1], NEW news \in BOOLEAN,
           NEW z \in Networks, NEW pipeline \in Seq(Interceptor),
           NEW fate \in ApplyInterceptors(pipeline, m.from, m.to, m.body),
           NEW y, y = Sent(z, m, fate, news), ToldNews(net, messages, k, z)
    PROVE  ToldNews(net, messages, k + 1, y)
<1>0. m \in Messages /\ k + 1 \in 1 .. Len(messages) OBVIOUS
<1>1. /\ y \in Networks /\ y.excused = Excuses(z, m, fate, news)
      /\ Extends(z.queue, y.queue)
      /\ \A i \in DOMAIN y.queue : i > Len(z.queue) => Carries(y.queue[i], m) /\ y.queue[i].data = fate.data
      /\ fate.copies # 0 => Len(z.queue) + 1 \in DOMAIN y.queue
  BY <1>0, SentOne
<1>2. z.queue \in Seq(Frames) /\ y.queue \in Seq(Frames) BY <1>1 DEF Networks
<1>3. \A j \in 1 .. k : j \in 1 .. k + 1 OBVIOUS
<1>4. \A j \in 1 .. k + 1 : j \in 1 .. k \/ j = k + 1 OBVIOUS
<1> SUFFICES ASSUME NEW c \in Node \X Node, c \notin y.excused
             PROVE  \/ c \notin net.excused /\ \A j \in 1 .. k + 1 : Concerns(messages[j]) # c
                    \/ \E j \in 1 .. k + 1 : Concerns(messages[j]) = c /\ Landed(y.queue, messages[j])
  BY DEF ToldNews
<1>5. CASE Concerns(m) = c
  <2>2. fate.copies # 0 /\ fate.data = m.body BY <1>1, <1>5 DEF Excuses
  <2>0. Len(z.queue) \in Nat BY <1>2
  <2>1. PICK i \in DOMAIN y.queue : i > Len(z.queue) BY <1>1, <2>2, <2>0
  <2>3. Carries(y.queue[i], m) /\ y.queue[i].data = m.body BY <1>1, <2>2, <2>1
  <2>4. y.queue[i] \in ToSet(y.queue) BY <2>1 DEF ToSet
  <2>5. Landed(y.queue, m) BY <2>3, <2>4 DEF Landed, Carries
  <2> QED BY <1>0, <1>5, <2>5
<1>6. CASE Concerns(m) # c
  <2>1. c \notin z.excused BY <1>1, <1>6 DEF Excuses
  <2>2. CASE c \notin net.excused /\ \A j \in 1 .. k : Concerns(messages[j]) # c BY <1>4, <1>6, <2>2
  <2>3. CASE \E j \in 1 .. k : Concerns(messages[j]) = c /\ Landed(z.queue, messages[j])
    <3>1. PICK j \in 1 .. k : Concerns(messages[j]) = c /\ Landed(z.queue, messages[j]) BY <2>3
    <3>2. PICK d : d = messages[j] OBVIOUS
    <3>3. Landed(y.queue, d) BY <1>1, <1>2, <3>1, <3>2, LandedStays
    <3> QED BY <1>3, <3>1, <3>2, <3>3
  <2> QED BY <2>1, <2>2, <2>3 DEF ToldNews
<1> QED BY <1>5, <1>6

\* One more message leaves no damage unexcused.
LEMMA OneSound ==
    ASSUME NEW m \in Messages, NEW news \in BOOLEAN,
           NEW z \in Networks, NEW pipeline \in Seq(Interceptor),
           NEW fate \in ApplyInterceptors(pipeline, m.from, m.to, m.body),
           NEW y, y = Sent(z, m, fate, news), Sound(z),
           ~IsHurt(m.body), news => m.body.type # "RequestSnapshot"
    PROVE  Sound(y)
<1>1. /\ y \in Networks /\ y.excused = Excuses(z, m, fate, news)
      /\ Extends(z.queue, y.queue)
      /\ \A i \in DOMAIN y.queue : i > Len(z.queue) => Carries(y.queue[i], m) /\ y.queue[i].data = fate.data
  BY SentOne
<1>2. z.queue \in Seq(Frames) /\ y.queue \in Seq(Frames) BY <1>1 DEF Networks
<1> SUFFICES ASSUME NEW f \in ToSet(y.queue), IsSync(f.data), IsHurt(f.data)
             PROVE  <<f.to, f.from>> \in y.excused
  BY DEF Sound
<1>3. PICK i \in DOMAIN y.queue : f = y.queue[i] BY DEF ToSet
<1>4. CASE i > Len(z.queue)
  <2>1. Carries(f, m) /\ f.data = fate.data BY <1>1, <1>3, <1>4
  <2>2. fate.data # m.body BY <2>1
  <2>3. Concerns(m) \in y.excused BY <1>1, <2>2 DEF Excuses
  <2>4. f.data # Garbage /\ f.data.type = m.body.type /\ f.data.type # "RequestSnapshot"
    BY <2>1 DEF Carries, Readings, IsSync
  <2>5. Concerns(m) = <<f.to, f.from>> BY <2>1, <2>4 DEF Concerns, Carries
  <2> QED BY <2>3, <2>5
<1>5. CASE ~(i > Len(z.queue))
  <2>1. i \in DOMAIN z.queue /\ z.queue[i] = f BY <1>1, <1>2, <1>3, <1>5 DEF Extends
  <2>2. f \in ToSet(z.queue) BY <2>1 DEF ToSet
  <2>3. <<f.to, f.from>> \in z.excused BY <2>2 DEF Sound
  <2>4. ASSUME news, Concerns(m) = <<f.to, f.from>> PROVE \E g \in OnLink(z, m) : IsHurt(g.data)
    <3>1. m.to = f.to /\ m.from = f.from BY <2>4 DEF Concerns
    <3> QED BY <2>2, <3>1 DEF OnLink
  <2> QED BY <1>1, <2>3, <2>4 DEF Excuses
<1> QED BY <1>4, <1>5

\* One more announcement arrives last, unless it overtakes, which is excused.
LEMMA OneToldFeeds ==
    ASSUME GarbageIsNoBody, NEW messages \in Seq(Messages), NEW k \in Nat,
           k + 1 <= Len(messages), NEW m, m = messages[k + 1],
           NEW z \in Networks, NEW pipeline \in Seq(Interceptor),
           NEW fate \in ApplyInterceptors(pipeline, m.from, m.to, m.body),
           NEW news \in BOOLEAN, ~news, NEW y, y = Sent(z, m, fate, news), ToldFeeds(messages, k, z)
    PROVE  ToldFeeds(messages, k + 1, y)
<1>0. m \in Messages /\ k + 1 \in 1 .. Len(messages) /\ m \in ToSet(messages) BY DEF ToSet
<1>1. /\ y \in Networks /\ y.excused = Excuses(z, m, fate, news)
      /\ fate \in Fates(m.body)
      /\ Extends(z.queue, y.queue)
      /\ \A i \in DOMAIN y.queue : i > Len(z.queue) =>
            Carries(y.queue[i], m) /\ y.queue[i].data = fate.data /\ y.queue[i].due = 1 + fate.ticks
      /\ fate.copies # 0 => Len(z.queue) + 1 \in DOMAIN y.queue
  BY <1>0, SentOne
<1>2. z.queue \in Seq(Frames) /\ y.queue \in Seq(Frames) BY <1>1 DEF Networks
<1> SUFFICES ASSUME NEW p \in Node, NEW n \in Node, NEW g \in Generation,
                    <<n, p>> \notin y.excused,
                    \E j \in 1 .. k + 1 : FeedMessage(messages[j], p, n),
                    \A c \in ToSet(messages) : FeedMessage(c, p, n) => c.body.gen = g
             PROVE  Newest(y.queue, p, n, g)
  BY DEF ToldFeeds
<1>3. PICK a, b : a = z.queue /\ b = y.queue OBVIOUS
<1>4. /\ a \in Seq(Frames) /\ b \in Seq(Frames) /\ Extends(a, b) /\ Len(a) \in Nat
      /\ \A i \in DOMAIN a : i \in DOMAIN b /\ b[i] = a[i] /\ i <= Len(a)
      /\ \A i \in DOMAIN b : i > Len(a) \/ i \in DOMAIN a
  <2>1. a \in Seq(Frames) /\ b \in Seq(Frames) /\ Extends(a, b) BY <1>1, <1>2, <1>3
  <2>2. DOMAIN a = 1 .. Len(a) /\ DOMAIN b = 1 .. Len(b) /\ Len(a) \in Nat /\ Len(b) \in Nat BY <2>1
  <2> QED BY <2>1, <2>2 DEF Extends
<1>5. CASE FeedMessage(m, p, n)
  <2>1. Concerns(m) = <<n, p>> BY <1>5 DEF FeedMessage, Concerns
  <2>2. fate.copies # 0 /\ fate.data = m.body /\ ~Overtakes(z, m, fate) BY <1>1, <2>1 DEF Excuses
  <2>3. m.body.gen = g BY <1>0, <1>5
  <2> DEFINE j == Len(a) + 1
  <2>4. j \in DOMAIN b /\ j > Len(a) BY <1>1, <1>3, <1>4, <2>2
  <2>5. Carries(b[j], m) /\ b[j].data = m.body /\ b[j].due = 1 + fate.ticks BY <1>1, <1>3, <2>2, <2>4
  <2>6. b[j].data # Garbage
    <3>1. m.body \in Bodies BY <1>0 DEF Messages
    <3> QED BY <2>5, <3>1 DEF GarbageIsNoBody
  <2>7. FeedAt(b, j, p, n) /\ b[j].data.gen = g
    BY <1>5, <2>3, <2>4, <2>5, <2>6 DEF FeedAt, FeedMessage, Carries
  <2>8. ASSUME NEW i \in DOMAIN b, FeedAt(b, i, p, n), b[i].data.gen # g PROVE ArrivesBefore(b, i, j)
    <3>1. i \in DOMAIN a
      <4>1. CASE i > Len(a) BY <1>1, <1>3, <2>2, <2>3, <2>8, <4>1
      <4> QED BY <1>4, <4>1
    <3>2. b[i] = a[i] /\ i < j BY <1>4, <3>1
    <3>3. a[i] \in OnLink(z, m)
      <4>1. a[i] \in ToSet(a) BY <3>1 DEF ToSet
      <4> QED BY <1>3, <1>5, <2>8, <3>2, <4>1 DEF OnLink, FeedAt, FeedMessage
    <3>4. ~(a[i].due > 1 + fate.ticks) BY <1>5, <2>2, <2>8, <3>2, <3>3 DEF Overtakes, FeedMessage, FeedAt
    <3>5. a[i].due \in Nat /\ fate.ticks \in Nat BY <1>1, <1>4, <3>1, BoundedHop DEF Frames, Fates
    <3> QED BY <2>5, <3>2, <3>4, <3>5 DEF ArrivesBefore
  <2>9. Latest(b, j, p, n, g) BY <2>7, <2>8 DEF Latest
  <2> QED BY <1>3, <2>4, <2>9 DEF Newest
<1>6. CASE ~FeedMessage(m, p, n)
  <2>1. \E j \in 1 .. k : FeedMessage(messages[j], p, n) BY <1>6
  <2>2. <<n, p>> \notin z.excused BY <1>1 DEF Excuses
  <2>3. Newest(a, p, n, g) BY <1>3, <2>1, <2>2 DEF ToldFeeds
  <2>4. ASSUME NEW i \in DOMAIN b, i > Len(a) PROVE ~FeedAt(b, i, p, n)
    <3>1. Carries(b[i], m) BY <1>1, <1>3, <2>4
    <3> QED BY <1>6, <3>1 DEF FeedAt, FeedMessage, Carries, Readings
  <2> QED BY <1>3, <1>4, <2>3, <2>4, NewestStays
<1> QED BY <1>5, <1>6

\* A list of messages sent: each has landed or is excused.
LEMMA SendAllTold ==
    ASSUME GarbageIsNoBody, interceptors \in Seq(Interceptor),
           NEW net \in Networks, NEW messages \in Seq(Messages), NEW news \in BOOLEAN,
           NEW x \in SendAll(net, messages, news)
    PROVE  /\ Added(net, messages, x)
           /\ ~news => Told(net, messages, Len(messages), x) /\ ToldFeeds(messages, Len(messages), x)
           /\ ToldNews(net, messages, Len(messages), x)
           /\ Sound(net) /\ Unhurt(messages, news) => Sound(x)
<1>r. PICK run : SendAllRun(net, messages, news, run) BY SendAllRuns
<1>1. /\ run[0] = {net}
      /\ \A k \in 1 .. Len(messages) :
            run[k] = SendStep(interceptors, news, run[k - 1], messages[k])
      /\ SendAll(net, messages, news) = run[Len(messages)]
  BY <1>r DEF SendAllRun
<1>0. /\ Len(messages) \in Nat /\ DOMAIN messages = 1 .. Len(messages)
      /\ \A k \in 1 .. Len(messages) : messages[k] \in Messages
      /\ \A k \in 1 .. Len(messages) : messages[k] \in ToSet(messages)
  BY DEF ToSet
<1> DEFINE Q(k, y) == /\ Added(net, messages, y)
                      /\ ~news => Told(net, messages, k, y) /\ ToldFeeds(messages, k, y)
                      /\ ToldNews(net, messages, k, y)
                      /\ Sound(net) /\ Unhurt(messages, news) => Sound(y)
           P(k) == \A y \in run[k] : Q(k, y)
           W == {k \in Nat : k <= Len(messages) => P(k)}
<1>2. 0 \in W
  <2>0. 1 .. 0 = {} OBVIOUS
  <2>1. Grown(net, messages, net) BY DEF Grown
  <2>2. net.queue \in Seq(Frames) BY DEF Networks
  <2>3. Added(net, messages, net)
    <3>1. Len(net.queue) \in Nat /\ DOMAIN net.queue = 1 .. Len(net.queue) BY <2>2
    <3>2. Extends(net.queue, net.queue) BY <3>1 DEF Extends
    <3> QED BY <2>1, <3>1, <3>2 DEF Added
  <2>4. Told(net, messages, 0, net) BY <2>0 DEF Told
  <2>5. ToldFeeds(messages, 0, net) BY <2>0 DEF ToldFeeds
  <2>6. ToldNews(net, messages, 0, net) BY <2>0 DEF ToldNews
  <2>7. Q(0, net) BY <2>3, <2>4, <2>5, <2>6
  <2> QED BY <2>7, <1>1
<1>3. ASSUME NEW k \in W PROVE k + 1 \in W
  <2> SUFFICES ASSUME k + 1 <= Len(messages) PROVE P(k + 1) OBVIOUS
  <2>1. /\ k \in Nat /\ k + 1 \in 1 .. Len(messages) /\ (k + 1) - 1 = k
        /\ P(k) BY <1>0
  <2> DEFINE m == messages[k + 1]
  <2>2. run[k + 1] = SendStep(interceptors, news, run[k], m) BY <1>1, <2>1
  <2>3. m \in Messages /\ m \in ToSet(messages) BY <1>0, <2>1
  <2>e. m = messages[k + 1] OBVIOUS
  <2> HIDE DEF W, m
  <2> SUFFICES ASSUME NEW y \in run[k + 1] PROVE Q(k + 1, y) OBVIOUS
  <2>4. PICK z \in run[k] : y \in {Sent(z, m, fate, news) :
             fate \in ApplyInterceptors(interceptors, m.from, m.to, m.body)}
    BY <2>2 DEF SendStep
  <2>5. PICK fate \in ApplyInterceptors(interceptors, m.from, m.to, m.body) :
           y = Sent(z, m, fate, news)
    BY <2>4
  <2>6. Q(k, z) BY <2>1, <2>4
  <2>7. z \in Networks BY <2>6 DEF Grown, Added
  <2>8. /\ y \in Networks /\ Extends(z.queue, y.queue)
        /\ \A i \in DOMAIN y.queue : i > Len(z.queue) => Carries(y.queue[i], m)
    BY <2>3, <2>5, <2>7, SentOne
  <2>9. /\ ToSet(y.queue) = ToSet(z.queue) \cup ToSet(Queued(m.from, m.to, fate))
        /\ \A f \in ToSet(Queued(m.from, m.to, fate)) : Carries(f, m)
    BY <2>3, <2>5, <2>7, SentGrows
  <2>10. Added(net, messages, y)
    <3>1. Grown(net, messages, y) BY <2>3, <2>6, <2>8, <2>9 DEF Grown, Added
    <3>2. PICK a, b, c : a = net.queue /\ b = z.queue /\ c = y.queue OBVIOUS
    <3>3. a \in Seq(Frames) /\ b \in Seq(Frames) /\ c \in Seq(Frames) BY <2>7, <2>8, <3>2 DEF Networks
    <3>4. Extends(a, b) /\ Extends(b, c) BY <2>6, <2>8, <3>2 DEF Added
    <3>5. Extends(a, c) BY <3>3, <3>4, ExtendsTwice
    <3>6. ASSUME NEW i \in DOMAIN c, i > Len(a) PROVE \E d \in ToSet(messages) : Carries(c[i], d)
      <4>1. CASE i > Len(b) BY <2>3, <2>8, <3>2, <4>1
      <4>2. CASE ~(i > Len(b))
        <5>1. i \in DOMAIN b /\ c[i] = b[i]
          <6>1. DOMAIN b = 1 .. Len(b) /\ DOMAIN c = 1 .. Len(c) /\ Len(b) \in Nat /\ Len(c) \in Nat BY <3>3
          <6> QED BY <3>4, <4>2, <6>1 DEF Extends
        <5> QED BY <2>6, <3>2, <3>6, <5>1 DEF Added
      <4> QED BY <4>1, <4>2
    <3> QED BY <3>1, <3>2, <3>5, <3>6 DEF Added
  <2>11. ~news => Told(net, messages, k + 1, y) BY <2>1, <2>5, <2>6, <2>7, <2>e, OneTold
  <2>12. ~news => ToldFeeds(messages, k + 1, y) BY <2>1, <2>5, <2>6, <2>7, <2>e, OneToldFeeds
  <2>13. ToldNews(net, messages, k + 1, y) BY <2>1, <2>5, <2>6, <2>7, <2>e, OneToldNews
  <2>14. Sound(net) /\ Unhurt(messages, news) => Sound(y)
    BY <2>3, <2>5, <2>6, <2>7, OneSound DEF Unhurt
  <2> QED BY <2>10, <2>11, <2>12, <2>13, <2>14
<1>4. W \in SUBSET Nat OBVIOUS
<1>5. Len(messages) \in W
  <2> HIDE DEF W
  <2> QED BY <1>0, <1>2, <1>3, <1>4, SetInduction
<1>6. Q(Len(messages), x)
  <2>1. P(Len(messages)) BY <1>0, <1>5
  <2> HIDE DEF Q
  <2> QED BY <1>1, <2>1
<1> QED BY <1>6

-----------------------------------------------------------------------------
(* What a delivered message does to the receiver, case by case.            *)

\* A payload as it was sent.
Whole(b) == IsSync(b) /\ b.wire = Wire /\ b.data # Malformed

Fails(e, p) == DiagnosticsOf(e.diag, p).failures

\* What a message may make of the entry of its sender, and of its record.
Spoiled(e, b, x) == IsSync(b) /\ IsHurt(b) /\ x.views[b.src] \in {e.views[b.src], NoView}

Taken(e, b, x) ==
    LET old == e.views[b.src]
        new == x.views[b.src]
    IN  /\ Whole(b) /\ (old = NoView \/ Lt(old.gen, b.gen))
        /\ new # NoView /\ new.gen = b.gen /\ new.pending = KeptPending(old, b.gen)
        /\ Fails(x, b.src) = 0
        /\ b.type = "FullSnapshot" => new.value = b.data
        /\ b.type = "DeltaUpdate" =>
              old # NoView /\ b.gen = NextAge(old.gen) /\ new.value = ApplyDelta(old.value, b.data)

Ignored(e, b, x) ==
    Whole(b) /\ e.views[b.src] # NoView /\ Le(b.gen, e.views[b.src].gen) /\ x = e

Asked(e, b, x) ==
    /\ Whole(b) /\ b.type = "DeltaUpdate" /\ Replies(e, b) = <<Request(e)>>
    /\ x.views[b.src] = e.views[b.src] /\ Fails(x, b.src) = Fails(e, b.src)

Marked(e, b, x) ==
    b.type = "Feed" /\ x.views[b.src] = MarkStale(e.views[b.src], b.gen) /\ Fails(x, b.src) = Fails(e, b.src)

Served(e, b, x) == b.type = "RequestSnapshot" /\ x = e /\ Replies(e, b) = <<OwnSnapshot(e)>>

Effect(e, b, x) ==
    \/ b.src \in e.departed /\ x = e
    \/ /\ b.src \notin e.departed
       /\ \/ Spoiled(e, b, x) \/ Taken(e, b, x) \/ Ignored(e, b, x)
          \/ Asked(e, b, x) \/ Marked(e, b, x) \/ Served(e, b, x)

Readable(b) == b # Garbage /\ (IsSync(b) => b.wire \in {Wire, OtherWire})

\* A payload that is read is whole or hurt.
LEMMA HurtOrWhole ==
    ASSUME NEW b, Readable(b), IsSync(b) PROVE IsHurt(b) <=> ~Whole(b)
<1>1. Wire # OtherWire BY EngineAssumption, ClusterAssumption
<1> QED BY <1>1 DEF Whole, IsHurt, IsSync, Readable

\* Reading a whole payload gives what was sent, a hurt one nothing.
LEMMA WireRead ==
    /\ Wire \in Reads[Wire] /\ OtherWire \notin Reads[Wire] /\ Wire # OtherWire
BY EngineAssumption, ClusterAssumption, VersionAssumption

\* What handle_full_snapshot may do, named.
LEMMA SnapshotEffect ==
    ASSUME NEW e \in Engines, NEW b \in Snapshots, b.src # e.id, Readable(b),
           NEW x, x = AfterFullSnapshot(e, b)
    PROVE  Spoiled(e, b, x) \/ Taken(e, b, x) \/ Ignored(e, b, x)
<1> DEFINE p == b.src
           verdict == OnInbound(Wire, b.wire, b.data # Malformed)
<1>0. /\ p \in Node /\ b.gen \in Generation /\ b.data \in View \cup {Malformed}
      /\ e.views[p] \in OptEntry /\ b.type = "FullSnapshot"
  BY DEF Snapshots, Engines, EngineRecords
<1>s. IsSync(b) /\ b.wire \in {Wire, OtherWire} BY <1>0 DEF IsSync, Readable
<1>1. CASE Whole(b)
  <2>1. verdict = "Ok" /\ b.data # Malformed BY <1>1, WireRead DEF Whole, OnInbound
  <2>2. CASE SnapshotAccepted(e.views[p], b.gen)
    <3> DEFINE v == AcceptSnapshot(e.views[p], b.gen, b.data)
               y == [e EXCEPT !.views[p] = v]
    <3>1. x = Succeeded(y, p) BY <2>1, <2>2 DEF AfterFullSnapshot
    <3>2. v \in OptEntry BY <1>0, <2>1, EntriesWritten
    <3>3. Undisturbed(e, y, p) /\ y.views[p] = v BY <1>0, <3>2, ViewWritten
    <3>4. v = Updated(e.views[p], b.gen, b.data) BY <2>2 DEF AcceptSnapshot
    <3>5. v # NoView /\ v.gen = b.gen /\ v.value = b.data /\ v.pending = KeptPending(e.views[p], b.gen)
      <4>1. KeptPending(e.views[p], b.gen) \in OptGeneration
        BY <1>0 DEF KeptPending, OptEntry, Entry, OptGeneration
      <4>2. v \in Entry BY <1>0, <2>1, <3>4, <4>1 DEF Updated, Entry
      <4> QED BY <3>4, <4>2, NoViewAssumption DEF Updated
    <3> HIDE DEF v, y
    <3>6. y \in Engines /\ y.id = e.id BY <3>3 DEF Undisturbed
    <3>7. x.views = y.views /\ Fails(x, p) = 0 BY <1>0, <3>1, <3>6, Recorded DEF Fails
    <3>8. x.views[p] = v BY <3>3, <3>7
    <3>9. e.views[p] = NoView \/ Lt(e.views[p].gen, b.gen) BY <2>2 DEF SnapshotAccepted, ShouldAccept
    <3> QED BY <1>0, <1>1, <3>5, <3>7, <3>8, <3>9 DEF Taken
  <2>3. CASE ~SnapshotAccepted(e.views[p], b.gen)
    <3>1. x = e BY <2>1, <2>3 DEF AfterFullSnapshot
    <3>2. e.views[p] # NoView /\ ~Lt(e.views[p].gen, b.gen) BY <2>3 DEF SnapshotAccepted, ShouldAccept
    <3>3. e.views[p].gen \in Generation BY <1>0, <3>2 DEF OptEntry, Entry
    <3>4. Le(b.gen, e.views[p].gen) BY <1>0, <3>2, <3>3, LtTotal
    <3> QED BY <1>1, <3>1, <3>2, <3>4 DEF Ignored
  <2> QED BY <2>2, <2>3
<1>2. CASE ~Whole(b)
  <2>1. IsHurt(b) BY <1>2, <1>s, HurtOrWhole
  <2>2. verdict \in {"KeepStale", "DropView", "MalformedData"}
    BY <1>2, <1>s, WireRead DEF Whole, OnInbound, OnDeserializeError
  <2>3. CASE verdict = "DropView"
    <3>1. x = Failed(ViewRemoved(e, p), p) BY <2>3 DEF AfterFullSnapshot
    <3>2. ViewRemoved(e, p) \in Engines /\ ViewRemoved(e, p).id = e.id /\ ViewRemoved(e, p).views[p] = NoView
      BY <1>0, ViewDropped DEF Undisturbed
    <3>3. x.views = ViewRemoved(e, p).views BY <1>0, <3>1, <3>2, Recorded
    <3> QED BY <1>s, <2>1, <3>2, <3>3 DEF Spoiled
  <2>4. CASE verdict \in {"KeepStale", "MalformedData"}
    <3>1. x = Failed(e, p) BY <2>4 DEF AfterFullSnapshot
    <3>2. x.views = e.views BY <1>0, <3>1, Recorded
    <3> QED BY <1>s, <2>1, <3>2 DEF Spoiled
  <2> QED BY <2>2, <2>3, <2>4
<1> QED BY <1>1, <1>2

\* record_gap_detected counts no failure.
LEMMA GapKeepsFailures ==
    ASSUME NEW e \in Engines, NEW p \in Node
    PROVE  Fails(GapSeen(e, p), p) = Fails(e, p)
<1> DEFINE d == DiagnosticsOf(e.diag, p)
<1>1. d \in PeerDiagnostics BY RecordsStored DEF Engines, EngineRecords
<1>2. GapSeen(e, p) = [e EXCEPT !.diag = Store(e.diag, p, [d EXCEPT !.gaps = d.gaps + 1])]
  BY DEF RecordGapDetected, GapSeen
<1>3. [d EXCEPT !.gaps = d.gaps + 1].failures = d.failures BY <1>1 DEF PeerDiagnostics
<1>e. d = DiagnosticsOf(e.diag, p) OBVIOUS
<1> HIDE DEF d
<1>4. \A r, y : DiagnosticsOf(Store(r, p, y), p) = y BY DEF DiagnosticsOf, Store
<1>5. GapSeen(e, p).diag = Store(e.diag, p, [d EXCEPT !.gaps = d.gaps + 1])
  BY <1>2 DEF Engines, EngineRecords
<1>6. DiagnosticsOf(GapSeen(e, p).diag, p) = [d EXCEPT !.gaps = d.gaps + 1] BY <1>4, <1>5, Zenon
<1> QED BY <1>3, <1>6, <1>e DEF Fails

\* What handle_delta_update may do, named.
LEMMA DeltaEffect ==
    ASSUME DataTyped, NEW e \in Engines, NEW b \in Deltas, b.src # e.id, Readable(b),
           b.src \notin e.departed, NEW x, x = AfterDelta(e, b)
    PROVE  Spoiled(e, b, x) \/ Taken(e, b, x) \/ Ignored(e, b, x) \/ Asked(e, b, x)
<1> DEFINE p == b.src
           outcome == DeltaOutcome(e, b)
<1>0. /\ p \in Node /\ b.gen \in Generation /\ b.data \in Delta \cup {Malformed}
      /\ e.views[p] \in OptEntry /\ b.type = "DeltaUpdate"
  BY DEF Deltas, Engines, EngineRecords
<1>s. IsSync(b) /\ b.wire \in {Wire, OtherWire} BY <1>0 DEF IsSync, Readable
<1>1. /\ outcome \in {"OtherVersion", "NoBase", "Stale", "Gap", "Malformed", "Applied"}
      /\ outcome = "Applied" => /\ e.views[p] # NoView /\ b.data # Malformed
                                /\ b.gen = NextAge(e.views[p].gen)
      /\ outcome = "Stale" => e.views[p] # NoView /\ Le(b.gen, e.views[p].gen)
      /\ outcome = "OtherVersion" <=> b.wire # Wire
      /\ outcome = "Malformed" => b.data = Malformed
  BY DEF DeltaOutcome
<1>2. AfterDelta(e, b) =
    CASE outcome = "OtherVersion" ->
            Failed(IF OnDeserializeError = "DropView" THEN ViewRemoved(e, p) ELSE e, p)
      [] outcome \in {"NoBase", "Stale"} -> e
      [] outcome = "Gap" -> GapSeen(e, p)
      [] outcome = "Malformed" -> Failed(e, p)
      [] outcome = "Applied" ->
            Succeeded([e EXCEPT !.views[p] =
                         AcceptDelta(e.views[p], b.gen, ApplyDelta(e.views[p].value, b.data))], p)
  BY DEF AfterDelta, GapSeen
<1>a. outcome \in {"NoBase", "Gap"} => Replies(e, b) = <<Request(e)>>
  BY <1>0 DEF Replies, AsksForSnapshot
<1> HIDE DEF outcome
<1>3. CASE outcome = "OtherVersion"
  <2> DEFINE y == IF OnDeserializeError = "DropView" THEN ViewRemoved(e, p) ELSE e
  <2>2. y \in Engines /\ y.id = e.id /\ y.views[p] \in {e.views[p], NoView}
    BY <1>0, ViewDropped DEF Undisturbed
  <2>3. x = Failed(y, p) BY <1>2, <1>3
  <2> HIDE DEF y
  <2>5. x.views = y.views BY <1>0, <2>2, <2>3, Recorded
  <2>6. ~Whole(b) BY <1>1, <1>3 DEF Whole
  <2>7. IsHurt(b) BY <1>s, <2>6, HurtOrWhole
  <2> QED BY <1>s, <2>2, <2>5, <2>7 DEF Spoiled
<1>m. CASE b.data = Malformed /\ outcome # "OtherVersion"
  <2>1. ~Whole(b) BY <1>m DEF Whole
  <2>2. IsHurt(b) BY <1>s, <2>1, HurtOrWhole
  <2>3. x.views = e.views
    <3>1. CASE outcome \in {"NoBase", "Stale"} BY <1>2, <3>1
    <3>2. CASE outcome = "Gap" BY <1>0, <1>2, <3>2, Recorded
    <3>3. CASE outcome = "Malformed" BY <1>0, <1>2, <3>3, Recorded
    <3> QED BY <1>1, <1>m, <3>1, <3>2, <3>3
  <2> QED BY <1>s, <2>2, <2>3 DEF Spoiled
<1>w. ASSUME b.data # Malformed, outcome # "OtherVersion" PROVE Whole(b) BY <1>s, <1>1, <1>w DEF Whole
<1>4. CASE outcome = "NoBase" /\ b.data # Malformed
  <2>1. x = e BY <1>2, <1>4
  <2> QED BY <1>0, <1>a, <1>4, <1>w, <2>1 DEF Asked
<1>5. CASE outcome = "Stale" /\ b.data # Malformed
  <2>1. x = e BY <1>2, <1>5
  <2> QED BY <1>1, <1>5, <1>w, <2>1 DEF Ignored
<1>6. CASE outcome = "Gap" /\ b.data # Malformed
  <2>1. x = GapSeen(e, p) BY <1>2, <1>6
  <2>2. x.views = e.views /\ Fails(x, p) = Fails(e, p) BY <1>0, <2>1, Recorded, GapKeepsFailures
  <2> QED BY <1>0, <1>a, <1>6, <1>w, <2>2 DEF Asked
<1>7. CASE outcome = "Applied"
  <2> DEFINE u == ApplyDelta(e.views[p].value, b.data)
             v == AcceptDelta(e.views[p], b.gen, u)
             y == [e EXCEPT !.views[p] = v]
  <2>1. e.views[p] \in Entry /\ b.data \in Delta /\ b.gen = NextAge(e.views[p].gen)
    BY <1>0, <1>1, <1>7 DEF OptEntry
  <2>2. u \in View BY <2>1 DEF DataTyped, Entry
  <2>3. e.views[p].gen \in Generation BY <2>1 DEF Entry
  <2>4. DeltaVerdict(e.views[p], b.gen) = "Applied"
    <3>1. b.gen.inc = e.views[p].gen.inc /\ b.gen.age = e.views[p].gen.age + 1
      BY <2>1, <2>3 DEF NextAge, NewGeneration
    <3>2. PICK a \in Nat, c \in Nat : e.views[p].gen.inc = c /\ e.views[p].gen.age = a
      BY <2>3 DEF Generation
    <3> QED BY <1>1, <1>7, <3>1, <3>2 DEF DeltaVerdict
  <2>5. v = Updated(e.views[p], b.gen, u) BY <2>4 DEF AcceptDelta
  <2>6. KeptPending(e.views[p], b.gen) \in OptGeneration
    BY <1>0 DEF KeptPending, OptEntry, Entry, OptGeneration
  <2>7. v \in Entry BY <1>0, <2>2, <2>5, <2>6 DEF Updated, Entry
  <2>8. /\ v # NoView /\ v.gen = b.gen /\ v.value = u
        /\ v.pending = KeptPending(e.views[p], b.gen)
    BY <2>5, <2>7, NoViewAssumption DEF Updated
  <2>9. Undisturbed(e, y, p) /\ y.views[p] = v BY <1>0, <2>7, ViewWritten DEF OptEntry
  <2>10. x = Succeeded(y, p) BY <1>2, <1>7
  <2> HIDE DEF v, y, u
  <2>11. y \in Engines /\ y.id = e.id BY <2>9 DEF Undisturbed
  <2>12. x.views = y.views /\ Fails(x, p) = 0 BY <1>0, <2>10, <2>11, Recorded DEF Fails
  <2>13. x.views[p] = v BY <2>9, <2>12
  <2>14. Lt(e.views[p].gen, b.gen) BY <2>1, <2>3, NextAgeAdvances
  <2>15. Whole(b) BY <1>1, <1>7, <1>w
  <2> QED BY <1>0, <1>1, <1>7, <2>1, <2>8, <2>12, <2>13, <2>14, <2>15 DEF Taken, u
<1> QED BY <1>1, <1>3, <1>m, <1>4, <1>5, <1>6, <1>7

\* What handle_inbound may do with a frame that decodes, named.
LEMMA InboundEffect ==
    ASSUME DataTyped, NEW e \in Engines, NEW b \in Bodies, b.src # e.id, Readable(b)
    PROVE  Effect(e, b, HandleInbound(e, b))
<1>0. b.src \in Node /\ e.views[b.src] \in OptEntry BY BodyKinds DEF Engines, EngineRecords
<1>1. CASE b.src \in e.departed
  <2>1. HandleInbound(e, b) = e BY <1>1 DEF HandleInbound
  <2> QED BY <1>1, <2>1 DEF Effect
<1>2. CASE b.src \notin e.departed /\ b.type = "FullSnapshot"
  <2>1. HandleInbound(e, b) = AfterFullSnapshot(e, b) BY <1>2 DEF HandleInbound
  <2>2. b \in Snapshots BY <1>2, BodyKinds
  <2> QED BY <2>1, <2>2, <1>2, SnapshotEffect DEF Effect
<1>3. CASE b.src \notin e.departed /\ b.type = "DeltaUpdate"
  <2>1. HandleInbound(e, b) = AfterDelta(e, b) BY <1>3 DEF HandleInbound
  <2>2. b \in Deltas BY <1>3, BodyKinds
  <2> QED BY <2>1, <2>2, <1>3, DeltaEffect DEF Effect
<1>4. CASE b.src \notin e.departed /\ b.type = "RequestSnapshot"
  <2>1. HandleInbound(e, b) = e BY <1>4 DEF HandleInbound
  <2>2. Replies(e, b) = <<OwnSnapshot(e)>> BY <1>4 DEF Replies
  <2> QED BY <1>4, <2>1, <2>2 DEF Effect, Served
<1>5. CASE b.src \notin e.departed /\ b.type = "Feed"
  <2> DEFINE v == MarkStale(e.views[b.src], b.gen)
             x == [e EXCEPT !.views[b.src] = v]
  <2>1. HandleInbound(e, b) = x BY <1>5 DEF HandleInbound
  <2>2. b.gen \in Generation BY <1>5, BodyKinds DEF FeedBatches
  <2>3. v \in OptEntry
    <3>1. PICK w : w \in View BY DEF DataTyped
    <3> QED BY <1>0, <2>2, <3>1, EntriesWritten
  <2> HIDE DEF v
  <2>4. x.views[b.src] = v /\ x.diag = e.diag BY <2>3, <1>0, ViewWritten
  <2>5. Marked(e, b, x) BY <1>5, <2>4 DEF Marked, Fails, v
  <2> QED BY <1>5, <2>1, <2>5 DEF Effect
<1> QED BY <1>0, <1>1, <1>2, <1>3, <1>4, <1>5, BodyKinds

-----------------------------------------------------------------------------
(* BaseInv: every entry, timer and message says of a node only what the    *)
(* node has shown in a generation it has reached. h is the history of what *)
(* was shown; it is quantified, not a variable.                            *)

\* The contract of DeltaDistributedState: applying the delta of a change to the
\* view is viewing the changed state.
Lawful ==
    \A s \in State, c \in Change : ApplyDelta(Project(s), ViewDelta(s, c)) = Project(ApplyChange(s, c))

\* What every node showed in each of its generations.
Histories == [Node -> [Generation -> View]]

\* g is a generation p has reached.
Reached(ns, lv, p, g) ==
    /\ g \in Generation /\ g.inc >= 1 /\ g.inc <= lv[p]
    /\ ns[p] # Absent => Le(g, ns[p].engine.gen)

Says(h, p, d) ==
    /\ d.type = "FullSnapshot" => d.data \in {Malformed, h[p][d.gen]}
    /\ d.type = "DeltaUpdate" /\ d.data # Malformed =>
          \A g \in Generation : d.gen = NextAge(g) => ApplyDelta(h[p][g], d.data) = h[p][d.gen]

DataHolds(h, ns, lv, p, d) ==
    d # Garbage =>
        /\ IsSync(d) \/ d.type = "Feed" => Reached(ns, lv, p, d.gen)
        /\ IsSync(d) => d.wire \in {Wire, OtherWire} /\ (Lawful => Says(h, p, d))

EntryHolds(h, ns, lv, p, v) ==
    v # NoView =>
        /\ v.gen = Zero \/ (Reached(ns, lv, p, v.gen) /\ (Lawful => v.value = h[p][v.gen]))
        /\ v.pending = NoGen \/ Reached(ns, lv, p, v.pending)

NodeHolds(h, ns, lv, n) ==
    LET e == ns[n].engine IN
    /\ e.gen.inc = lv[n]
    /\ Lawful => h[n][e.gen] = Project(e.value)
    /\ \A p \in e.departed : ns[p] = Absent
    /\ e.feed = NoGen \/ Reached(ns, lv, n, e.feed)
    /\ \A s \in ToSet(ns[n].scheduled) : DataHolds(h, ns, lv, n, s.body) /\ ~IsHurt(s.body)
    /\ \A p \in Node \ {n} : EntryHolds(h, ns, lv, p, e.views[p])

FramesHold(h, ns, lv, F) == \A f \in F : DataHolds(h, ns, lv, f.from, f.data)

MessagesHold(h, ns, lv, M) == \A m \in M : DataHolds(h, ns, lv, m.from, m.body) /\ ~IsHurt(m.body)

Truthful(h, ns, lv) ==
    /\ h \in Histories /\ lv \in [Node -> Nat]
    /\ \A n \in Node : lv[n] >= 1 /\ (ns[n] # Absent => NodeHolds(h, ns, lv, n))

\* Nothing a node has reached is lost or rewritten.
Onward(h, ns, lv, h2, ns2, lv2) ==
    \A p \in Node, g \in Generation :
        Reached(ns, lv, p, g) => Reached(ns2, lv2, p, g) /\ (Lawful => h2[p][g] = h[p][g])

\* The reach of a node depends on its own state and incarnation.
LEMMA WithinBase ==
    ASSUME NEW ns \in NodeMaps, NEW lv, NEW p \in Node, NEW g \in Generation, NEW k,
           k = NextAge(g), Reached(ns, lv, p, k)
    PROVE  Reached(ns, lv, p, g)
<1>1. k \in Generation /\ k.inc = g.inc /\ Lt(g, k) BY NextAgeAdvances DEF NextAge, NewGeneration
<1>2. ASSUME ns[p] # Absent PROVE Le(g, ns[p].engine.gen)
  <2>1. ns[p].engine.gen \in Generation BY <1>2, NodeTyped DEF Engines, EngineRecords
  <2>2. Le(k, ns[p].engine.gen) BY <1>2 DEF Reached
  <2>3. Le(g, k) BY <1>1 DEF Le
  <2> QED BY <1>1, <2>1, <2>2, <2>3, LeTransitive
<1> QED BY <1>1, <1>2 DEF Reached

\* What was true of a payload stays true.
LEMMA DataOnward ==
    ASSUME NEW h, NEW ns \in NodeMaps, NEW lv, NEW h2, NEW ns2, NEW lv2,
           Onward(h, ns, lv, h2, ns2, lv2),
           NEW p \in Node, NEW d, DataHolds(h, ns, lv, p, d)
    PROVE  DataHolds(h2, ns2, lv2, p, d)
<1> SUFFICES ASSUME d # Garbage
             PROVE  /\ IsSync(d) \/ d.type = "Feed" => Reached(ns2, lv2, p, d.gen)
                    /\ IsSync(d) => d.wire \in {Wire, OtherWire} /\ (Lawful => Says(h2, p, d))
  BY DEF DataHolds
<1>1. IsSync(d) \/ d.type = "Feed" => Reached(ns, lv, p, d.gen) /\ d.gen \in Generation
  BY DEF DataHolds, Reached
<1>2. IsSync(d) \/ d.type = "Feed" => Reached(ns2, lv2, p, d.gen) BY <1>1 DEF Onward
<1>3. ASSUME IsSync(d), Lawful PROVE Says(h2, p, d)
  <2>1. h2[p][d.gen] = h[p][d.gen] BY <1>1, <1>3 DEF Onward
  <2>2. Says(h, p, d) BY <1>3 DEF DataHolds
  <2>3. ASSUME NEW g \in Generation, d.gen = NextAge(g) PROVE h2[p][g] = h[p][g]
    <3>1. Reached(ns, lv, p, g) BY <1>1, <1>3, <2>3, WithinBase
    <3> QED BY <1>3, <3>1 DEF Onward
  <2> QED BY <2>1, <2>2, <2>3 DEF Says
<1>4. IsSync(d) => d.wire \in {Wire, OtherWire} BY DEF DataHolds
<1> QED BY <1>2, <1>3, <1>4

\* What was true of an entry stays true.
LEMMA EntryOnward ==
    ASSUME NEW h, NEW ns, NEW lv, NEW h2, NEW ns2, NEW lv2,
           Onward(h, ns, lv, h2, ns2, lv2),
           NEW p \in Node, NEW v, EntryHolds(h, ns, lv, p, v)
    PROVE  EntryHolds(h2, ns2, lv2, p, v)
<1>1. \A g : Reached(ns, lv, p, g) => g \in Generation BY DEF Reached
<1>2. \A g : Reached(ns, lv, p, g) => Reached(ns2, lv2, p, g) /\ (Lawful => h2[p][g] = h[p][g])
  BY <1>1 DEF Onward
<1> QED BY <1>2 DEF EntryHolds

\* Bytes read as they were sent, or worse.
LEMMA ReadingHolds ==
    ASSUME NEW h, NEW ns, NEW lv, NEW p, NEW b \in Bodies, DataHolds(h, ns, lv, p, b),
           GarbageIsNoBody, NEW d \in Readings(b)
    PROVE  DataHolds(h, ns, lv, p, d)
<1>0. b # Garbage BY DEF GarbageIsNoBody
<1>1. CASE d = Garbage BY <1>1 DEF DataHolds
<1>2. CASE d # Garbage /\ ~IsSync(b) BY <1>2 DEF Readings
<1>3. CASE d # Garbage /\ IsSync(b)
  <2>1. /\ d.type = b.type /\ d.gen = b.gen /\ d.wire \in {b.wire, OtherWire}
        /\ d.data \in {b.data, Malformed} /\ IsSync(d)
    BY <1>3 DEF Readings, IsSync
  <2>2. Reached(ns, lv, p, b.gen) /\ b.wire \in {Wire, OtherWire} /\ (Lawful => Says(h, p, b))
    BY <1>0, <1>3 DEF DataHolds
  <2>3. Lawful => Says(h, p, d) BY <2>1, <2>2 DEF Says
  <2> QED BY <2>1, <2>2, <2>3 DEF DataHolds
<1> QED BY <1>1, <1>2, <1>3

\* What is added to the queue is as true as what was sent.
LEMMA GrownHolds ==
    ASSUME GarbageIsNoBody, NEW h, NEW ns, NEW lv, NEW net, NEW messages \in Seq(Messages), NEW x,
           Grown(net, messages, x), FramesHold(h, ns, lv, ToSet(net.queue)),
           MessagesHold(h, ns, lv, ToSet(messages))
    PROVE  FramesHold(h, ns, lv, ToSet(x.queue))
<1> SUFFICES ASSUME NEW f \in ToSet(x.queue) PROVE DataHolds(h, ns, lv, f.from, f.data)
  BY DEF FramesHold
<1>1. CASE f \in ToSet(net.queue) BY <1>1 DEF FramesHold
<1>2. CASE \E m \in ToSet(messages) : Carries(f, m)
  <2>1. PICK m \in ToSet(messages) : Carries(f, m) BY <1>2
  <2>2. m \in Messages BY <2>1 DEF ToSet
  <2>3. m.body \in Bodies BY <2>2 DEF Messages
  <2>4. DataHolds(h, ns, lv, m.from, m.body) BY <2>1 DEF MessagesHold
  <2>5. f.from = m.from /\ f.data \in Readings(m.body) BY <2>1 DEF Carries
  <2>6. DataHolds(h, ns, lv, m.from, f.data) BY <2>3, <2>4, <2>5, ReadingHolds
  <2> QED BY <2>5, <2>6
<1> QED BY <1>1, <1>2 DEF Grown

\* What an engine sends of its own accord is true.
LEMMA OwnBodiesHold ==
    ASSUME Typed, NEW h, NEW ns \in NodeMaps, NEW lv, Truthful(h, ns, lv),
           NEW n \in Node, ns[n] # Absent, NEW e, e = ns[n].engine
    PROVE  /\ Reached(ns, lv, n, e.gen)
           /\ DataHolds(h, ns, lv, n, OwnSnapshot(e)) /\ ~IsHurt(OwnSnapshot(e))
           /\ DataHolds(h, ns, lv, n, Request(e)) /\ ~IsHurt(Request(e))
           /\ e.feed # NoGen => /\ DataHolds(h, ns, lv, n, FeedBatch(e)) /\ ~IsHurt(FeedBatch(e))
<1>0. /\ e \in Engines /\ e.id = n /\ NodeHolds(h, ns, lv, n) /\ lv[n] \in Nat /\ lv[n] >= 1
  BY NodeTyped DEF Truthful
<1>1. e.gen \in Generation /\ e.value \in State BY <1>0 DEF Engines, EngineRecords
<1>2. e.gen.inc = lv[n] BY <1>0 DEF NodeHolds
<1>3. Reached(ns, lv, n, e.gen) BY <1>0, <1>1, <1>2 DEF Reached, Le
<1>4. /\ OwnSnapshot(e) = [type |-> "FullSnapshot", src |-> n, gen |-> e.gen, wire |-> Wire, data |-> Project(e.value)]
      /\ Project(e.value) # Malformed
  <2>1. e.views[e.id].value = Project(e.value) BY <1>0 DEF Engines, OwnsEntry, OwnEntry
  <2>2. Project(e.value) \in View BY <1>1 DEF DataTyped, Typed
  <2> QED BY <1>0, <2>1, <2>2, EngineAssumption DEF OwnSnapshot, Sync
<1>5. OwnSnapshot(e) \in Bodies /\ Request(e) \in Bodies /\ (e.feed # NoGen => FeedBatch(e) \in Bodies)
  BY <1>0, BodiesMade DEF Typed
<1>6. Garbage \notin Bodies /\ DataTyped BY DEF Typed, GarbageIsNoBody
<1>8. DataHolds(h, ns, lv, n, OwnSnapshot(e)) /\ ~IsHurt(OwnSnapshot(e))
  <2>1. PICK b : b = OwnSnapshot(e) OBVIOUS
  <2>2. b.type = "FullSnapshot" /\ b.gen = e.gen /\ b.wire = Wire /\ b.data = Project(e.value) BY <1>4, <2>1
  <2>3. b # Garbage BY <1>5, <1>6, <2>1
  <2>4. ~IsHurt(b) BY <1>4, <2>2, <2>3, WireRead DEF IsHurt, IsSync
  <2>5. Lawful => Says(h, n, b) BY <1>0, <2>2 DEF Says, NodeHolds
  <2> QED BY <1>3, <2>1, <2>2, <2>3, <2>4, <2>5 DEF DataHolds
<1>9. DataHolds(h, ns, lv, n, Request(e)) /\ ~IsHurt(Request(e))
  <2>1. Request(e).type = "RequestSnapshot" /\ Request(e) # Garbage BY <1>5, <1>6 DEF Request
  <2> QED BY <2>1 DEF DataHolds, IsHurt, IsSync
<1>10. ASSUME e.feed # NoGen PROVE DataHolds(h, ns, lv, n, FeedBatch(e)) /\ ~IsHurt(FeedBatch(e))
  <2>1. FeedBatch(e).type = "Feed" /\ FeedBatch(e).gen = e.feed /\ FeedBatch(e) # Garbage
      BY <1>5, <1>6, <1>10 DEF FeedBatch
  <2>2. Reached(ns, lv, n, e.feed) BY <1>0, <1>10 DEF NodeHolds
  <2> QED BY <2>1, <2>2 DEF DataHolds, IsHurt, IsSync
<1> QED BY <1>3, <1>8, <1>9, <1>10

-----------------------------------------------------------------------------
(* BaseInv: deliveries.                                                    *)

\* Frame f is handled at a node that is there: its engine e becomes x.
Delivery(ns, f, e, x, ns2) ==
    /\ ns[f.to] # Absent /\ e = ns[f.to].engine /\ e \in Engines /\ e.id = f.to
    /\ ns2 \in NodeMaps /\ ns2[f.to] # Absent /\ ns2[f.to].engine = x
    /\ ns2[f.to].scheduled = ns[f.to].scheduled
    /\ \A p \in Node \ {f.to} : ns2[p] = ns[p]
    /\ Undisturbed(e, x, f.from)
    /\ Readable(f.data) => Effect(e, f.data, x)

\* The answers are among what goes out.
Replied(e, f, out, out2) ==
    /\ ToSet(out) \subseteq ToSet(out2)
    /\ \A r \in ToSet(Replies(e, f.data)) : Message(f.to, f.from, r) \in ToSet(out2)

\* One delivery: nothing happens where the node is gone.
LEMMA OneDelivered ==
    ASSUME Typed, NEW acc, acc.nodes \in NodeMaps, acc.out \in Seq(Messages),
           NEW f \in Arrivals, NEW y, y = Handle(acc, f)
    PROVE  /\ acc.nodes[f.to] = Absent => y = acc
           /\ acc.nodes[f.to] # Absent =>
                 \E e, x : Delivery(acc.nodes, f, e, x, y.nodes) /\ Replied(e, f, acc.out, y.out)
<1>0. DataTyped /\ AbsentIsNoNode BY DEF Typed
<1>1. /\ f.from \in Node /\ f.to \in Node /\ f.from # f.to
      /\ f.data \in Bodies /\ f.data.src = f.from BY ArrivalTyped
<1>2. CASE acc.nodes[f.to] = Absent BY <1>2 DEF Handle
<1>3. CASE acc.nodes[f.to] # Absent
  <2> DEFINE n == f.to
             old == acc.nodes[n]
             e == old.engine
             x == HandleInbound(e, f.data)
             new == [old EXCEPT !.engine = x]
             list == Replies(e, f.data)
             answers == [k \in DOMAIN list |-> Message(f.to, f.data.src, list[k])]
  <2>2. old \in MockNodes(n) /\ e \in Engines /\ e.id = n BY <1>1, <1>3, NodeTyped
  <2>4. Undisturbed(e, x, f.from) BY <1>0, <1>1, <2>2, InboundHandled
  <2>e. Readable(f.data) => Effect(e, f.data, x) BY <1>0, <1>1, <2>2, InboundEffect
  <2>5. answers \in Seq(Messages)
    BY <1>0, <2>2, AnswersSent
  <2>r. list \in Seq(Bodies) BY <1>0, <1>1, <2>2, Answered
  <2>6. y.nodes = [acc.nodes EXCEPT ![n] = new] /\ y.out = acc.out \o answers
    BY <1>3 DEF Handle, NodeMaps
  <2> HIDE DEF x, list
  <2>7. x \in Engines /\ x.id = n BY <2>2, <2>4 DEF Undisturbed
  <2>8. /\ new \in MockNodes(n) /\ new.engine = x
        /\ new.scheduled = old.scheduled
    BY <1>1, <2>2, <2>7, EngineReplaced
  <2>9. \A r \in ToSet(list) : Message(f.to, f.from, r) \in ToSet(answers)
    <3>1. DOMAIN answers = DOMAIN list OBVIOUS
    <3>2. \A k \in DOMAIN list : answers[k] = Message(f.to, f.from, list[k]) BY <1>1
    <3> HIDE DEF answers
    <3> QED BY <3>1, <3>2 DEF ToSet
  <2> HIDE DEF old, new, answers
  <2>11. /\ y.nodes \in NodeMaps /\ y.nodes[n] = new
         /\ \A p \in Node \ {n} : y.nodes[p] = acc.nodes[p]
    <3> HIDE DEF n
    <3>1. n \in Node BY <1>1 DEF n
    <3> QED BY <2>6, <2>8, <3>1, NodeReplaced
  <2>12. new # Absent BY <1>0, <1>1, <2>8 DEF AbsentIsNoNode, AnyNode
  <2>13. ToSet(y.out) = ToSet(acc.out) \cup ToSet(answers)
    BY <2>5, <2>6, JoinedLists
  <2>14. Replied(e, f, acc.out, y.out) BY <2>9, <2>13 DEF Replied, list
  <2>15. Delivery(acc.nodes, f, e, x, y.nodes)
    BY <1>3, <2>2, <2>4, <2>e, <2>8, <2>11, <2>12 DEF Delivery, old
  <2> QED BY <1>3, <2>14, <2>15
<1> QED BY <1>2, <1>3

\* The generations the nodes have reached are the same.
SameReach(ns, lv, ns2) ==
    \A p \in Node : \A g : Reached(ns, lv, p, g) <=> Reached(ns2, lv, p, g)

\* A delivery keeps every entry true.
LEMMA DeliveryTruthful ==
    ASSUME Typed, NEW h, NEW ns \in NodeMaps, NEW lv, Truthful(h, ns, lv),
           NEW f \in Arrivals, DataHolds(h, ns, lv, f.from, f.data),
           NEW e, NEW x, NEW ns2, Delivery(ns, f, e, x, ns2)
    PROVE  Truthful(h, ns2, lv) /\ SameReach(ns, lv, ns2)
<1> DEFINE t == f.to
           s == f.from
           b == f.data
<1>1. /\ s \in Node /\ t \in Node /\ s # t /\ b \in Bodies /\ b.src = s /\ b # Garbage
  BY ArrivalTyped DEF Arrivals
<1> HIDE DEF t, s, b
<1>2. /\ ns[t] # Absent /\ e = ns[t].engine /\ e \in Engines /\ e.id = t
      /\ ns2 \in NodeMaps /\ ns2[t] # Absent /\ ns2[t].engine = x
      /\ ns2[t].scheduled = ns[t].scheduled
      /\ \A p \in Node \ {t} : ns2[p] = ns[p]
      /\ Undisturbed(e, x, s)
      /\ Readable(b) => Effect(e, b, x)
  BY DEF Delivery, t, s, b
<1>3. /\ x \in Engines /\ x.gen = e.gen /\ x.value = e.value /\ x.departed = e.departed /\ x.feed = e.feed
      /\ \A q \in Node \ {s} : x.views[q] = e.views[q]
  BY <1>2 DEF Undisturbed
<1>4. SameReach(ns, lv, ns2)
  <2> SUFFICES ASSUME NEW p \in Node, NEW g PROVE Reached(ns, lv, p, g) <=> Reached(ns2, lv, p, g) BY DEF SameReach
  <2>1. CASE p = t BY <1>1, <1>2, <1>3, <2>1 DEF Reached
  <2>2. CASE p # t BY <1>2, <2>2 DEF Reached
  <2> QED BY <2>1, <2>2
<1>5. Readable(b) BY <1>1 DEF DataHolds, Readable, b, s
<1>6. Onward(h, ns, lv, h, ns2, lv) BY <1>4 DEF Onward, SameReach
<1>7. EntryHolds(h, ns, lv, s, e.views[s])
  BY <1>1, <1>2 DEF Truthful, NodeHolds
<1>d. /\ IsSync(b) \/ b.type = "Feed" => Reached(ns, lv, s, b.gen)
      /\ IsSync(b) => (Lawful => Says(h, s, b))
  BY <1>1 DEF DataHolds, b, s
<1>t. e.views \in [Node -> OptEntry] /\ x.views \in [Node -> OptEntry]
  BY <1>2, <1>3 DEF Engines, EngineRecords
<1>8. EntryHolds(h, ns, lv, s, x.views[s])
  <2>1. CASE Spoiled(e, b, x)
    BY <1>1, <1>7, <2>1 DEF Spoiled, EntryHolds
  <2>2. CASE Taken(e, b, x)
    <3> DEFINE old == e.views[s]
               new == x.views[s]
    <3>1. /\ Whole(b) /\ (old = NoView \/ Lt(old.gen, b.gen))
          /\ new # NoView /\ new.gen = b.gen /\ new.pending = KeptPending(old, b.gen)
          /\ b.type = "FullSnapshot" => new.value = b.data
          /\ b.type = "DeltaUpdate" =>
                old # NoView /\ b.gen = NextAge(old.gen) /\ new.value = ApplyDelta(old.value, b.data)
      BY <1>1, <2>2 DEF Taken
    <3>2. Reached(ns, lv, s, b.gen) /\ (Lawful => Says(h, s, b)) BY <1>d, <3>1 DEF Whole
    <3>3. new.pending = NoGen \/ Reached(ns, lv, s, new.pending)
      BY <1>7, <3>1 DEF KeptPending, EntryHolds
    <3>4. Lawful => new.value = h[s][b.gen]
      <4> SUFFICES ASSUME Lawful PROVE new.value = h[s][b.gen] OBVIOUS
      <4>1. CASE b.type = "FullSnapshot" BY <3>1, <3>2, <4>1 DEF Says, Whole
      <4>2. CASE b.type = "DeltaUpdate"
        <5>1. /\ old # NoView /\ b.gen = NextAge(old.gen) /\ new.value = ApplyDelta(old.value, b.data)
              /\ old.gen \in Generation
          BY <1>1, <1>t, <3>1, <4>2 DEF OptEntry, Entry
        <5>2. ApplyDelta(h[s][old.gen], b.data) = h[s][b.gen]
          BY <3>1, <3>2, <4>2, <5>1 DEF Says, Whole
        <5>3. old.gen # Zero
          BY <3>2, <5>1 DEF Reached, NextAge, NewGeneration, Zero
        <5>4. old.value = h[s][old.gen] BY <1>7, <5>1, <5>3 DEF EntryHolds
        <5> QED BY <5>1, <5>2, <5>4
      <4> QED BY <3>1, <4>1, <4>2 DEF Whole, IsSync
    <3> QED BY <3>1, <3>2, <3>3, <3>4 DEF EntryHolds
  <2>3. CASE Ignored(e, b, x) BY <1>7, <2>3 DEF Ignored
  <2>4. CASE Asked(e, b, x) BY <1>1, <1>7, <2>4 DEF Asked
  <2>5. CASE Marked(e, b, x)
    <3>1. x.views[s] = MarkStale(e.views[s], b.gen) /\ Reached(ns, lv, s, b.gen)
      BY <1>1, <1>d, <2>5 DEF Marked
    <3>2. e.views[s] \in OptEntry BY <1>1, <1>t
    <3>3. CASE e.views[s] # NoView /\ ~Le(b.gen, e.views[s].gen)
      <4>1. x.views[s] = [e.views[s] EXCEPT !.pending = b.gen] /\ e.views[s] \in Entry
        BY <3>1, <3>2, <3>3 DEF MarkStale, OptEntry
      <4>2. x.views[s].gen = e.views[s].gen /\ x.views[s].value = e.views[s].value /\ x.views[s].pending = b.gen
        BY <4>1 DEF Entry
      <4> QED BY <1>7, <3>1, <3>3, <4>2 DEF EntryHolds
    <3>4. CASE ~(e.views[s] # NoView /\ ~Le(b.gen, e.views[s].gen))
      BY <1>7, <3>1, <3>4 DEF MarkStale
    <3> QED BY <3>3, <3>4
  <2>6. CASE Served(e, b, x) BY <1>7, <2>6 DEF Served
  <2>7. CASE x = e BY <1>7, <2>7
  <2> QED BY <1>2, <1>5, <2>1, <2>2, <2>3, <2>4, <2>5, <2>6, <2>7 DEF Effect
<1>9. ASSUME NEW n \in Node, ns2[n] # Absent PROVE NodeHolds(h, ns2, lv, n)
  <2>1. ns[n] # Absent /\ NodeHolds(h, ns, lv, n) BY <1>2, <1>9 DEF Truthful
  <2>2. /\ ns2[n].engine.gen = ns[n].engine.gen /\ ns2[n].engine.value = ns[n].engine.value
        /\ ns2[n].engine.departed = ns[n].engine.departed /\ ns2[n].engine.feed = ns[n].engine.feed
        /\ ns2[n].scheduled = ns[n].scheduled
    BY <1>2, <1>3
  <2>3. \A p \in Node : ns[p] = Absent => ns2[p] = Absent BY <1>2
  <2>4. \A p \in ns2[n].engine.departed : ns2[p] = Absent
    <3>1. ns[n].engine.departed \in SUBSET Node BY <2>1, NodeTyped DEF Engines, EngineRecords
    <3> QED BY <2>1, <2>2, <2>3, <3>1 DEF NodeHolds
  <2>5. \A q \in ToSet(ns2[n].scheduled) : DataHolds(h, ns2, lv, n, q.body) /\ ~IsHurt(q.body)
    BY <1>6, <2>1, <2>2, DataOnward DEF NodeHolds
  <2>6. ASSUME NEW p \in Node \ {n} PROVE EntryHolds(h, ns2, lv, p, ns2[n].engine.views[p])
    <3>1. EntryHolds(h, ns, lv, p, ns[n].engine.views[p]) BY <2>1 DEF NodeHolds
    <3>2. EntryHolds(h, ns, lv, p, ns2[n].engine.views[p])
      <4>1. CASE n = t /\ p = s BY <1>2, <1>8, <4>1
      <4>2. CASE n = t /\ p # s BY <1>2, <1>3, <3>1, <4>2
      <4>3. CASE n # t BY <1>2, <3>1, <4>3
      <4> QED BY <4>1, <4>2, <4>3
    <3> QED BY <1>6, <3>2, EntryOnward
  <2>7. ns2[n].engine.feed = NoGen \/ Reached(ns2, lv, n, ns2[n].engine.feed)
    BY <1>4, <2>1, <2>2 DEF NodeHolds, SameReach
  <2> QED BY <2>1, <2>2, <2>4, <2>5, <2>6, <2>7 DEF NodeHolds
<1> QED BY <1>4, <1>9 DEF Truthful

-----------------------------------------------------------------------------
(* BaseInv: mutations.                                                     *)

\* notify_change keeps the later of what is pending and what is new.
LEMMA MutationFeeds ==
    ASSUME DataTyped, NEW e \in Engines, NEW c \in Change, NEW action
    PROVE  AfterMutation(e, c, action).feed =
              IF action = "NotifyChangeFeed" /\ (e.feed = NoGen \/ Lt(e.feed, NextAge(e.gen)))
              THEN NextAge(e.gen) ELSE e.feed
<1>1. /\ Mutated(e, c).feed = e.feed /\ Mutated(e, c).gen = NextAge(e.gen)
      /\ "feed" \in DOMAIN Mutated(e, c)
  BY DEF Mutated, Engines, EngineRecords
<1> DEFINE x == Mutated(e, c)
<1> HIDE DEF x
<1>2. x.feed = e.feed /\ x.gen = NextAge(e.gen) /\ "feed" \in DOMAIN x BY <1>1 DEF x
<1>3. Notified(x).feed = IF e.feed = NoGen \/ Lt(e.feed, NextAge(e.gen)) THEN NextAge(e.gen) ELSE e.feed
  BY <1>2 DEF Notified
<1>4. AfterMutation(e, c, action) = IF action = "NotifyChangeFeed" THEN Notified(x) ELSE x
  BY DEF AfterMutation, x
<1> QED BY <1>2, <1>3, <1>4

\* The payload of a mutation: the state after it, or the step to it.
NewsOf(n, g, b) == IsSync(b) /\ b # Garbage /\ b.gen = g /\ b.wire = Wire /\ b.data # Malformed /\ b.src = n

\* The payload of a mutation is its generation, and undamaged.
LEMMA MutationBodies ==
    ASSUME Typed, NEW e \in Engines, NEW c \in Change, NEW action
    PROVE  /\ NewsOf(e.id, NextAge(e.gen), SnapshotBody(e, c))
           /\ SnapshotBody(e, c).type = "FullSnapshot"
           /\ SnapshotBody(e, c).data = Project(ApplyChange(e.value, c))
           /\ NewsOf(e.id, NextAge(e.gen), DeltaBody(e, c, action))
           /\ \/ DeltaBody(e, c, action) = SnapshotBody(e, c)
              \/ /\ DeltaBody(e, c, action).type = "DeltaUpdate"
                 /\ DeltaBody(e, c, action).data = ViewDelta(e.value, c)
<1>0. DataTyped /\ Garbage \notin Bodies BY DEF Typed, GarbageIsNoBody
<1>1. e.value \in State BY DEF Engines, EngineRecords
<1>2. /\ Project(ApplyChange(e.value, c)) \in View /\ ViewDelta(e.value, c) \in Delta
  BY <1>0, <1>1 DEF DataTyped
<1>3. /\ Project(ApplyChange(e.value, c)) # Malformed /\ ViewDelta(e.value, c) # Malformed
  BY <1>2, EngineAssumption
<1>4. /\ Mutated(e, c).gen = NextAge(e.gen) /\ Mutated(e, c).id = e.id
  BY DEF Mutated, Engines, EngineRecords
<1>5. SnapshotBody(e, c) \in Bodies /\ DeltaBody(e, c, action) \in Bodies BY <1>0, MutationMade
<1>6. SnapshotBody(e, c) = [type |-> "FullSnapshot", src |-> e.id, gen |-> NextAge(e.gen), wire |-> Wire,
                            data |-> Project(ApplyChange(e.value, c))]
  BY <1>4 DEF SnapshotBody, Sync
<1>7. DeltaBody(e, c, action) = SnapshotBody(e, c) \/
      DeltaBody(e, c, action) = [type |-> "DeltaUpdate", src |-> e.id, gen |-> NextAge(e.gen), wire |-> Wire,
                            data |-> ViewDelta(e.value, c)]
  BY <1>4 DEF DeltaBody, Sync
<1>8. NewsOf(e.id, NextAge(e.gen), SnapshotBody(e, c))
  BY <1>0, <1>3, <1>5, <1>6 DEF NewsOf, IsSync
<1>9. NewsOf(e.id, NextAge(e.gen), DeltaBody(e, c, action))
  BY <1>0, <1>3, <1>5, <1>7, <1>8 DEF NewsOf, IsSync
<1> QED BY <1>6, <1>7, <1>8, <1>9

\* The state after a mutation is what the node shows next.
MutationShown(h, ns, lv, h2, ns2, n, e, c, action) ==
    /\ Truthful(h2, ns2, lv) /\ Onward(h, ns, lv, h2, ns2, lv)
    /\ DataHolds(h2, ns2, lv, n, SnapshotBody(e, c)) /\ ~IsHurt(SnapshotBody(e, c))
    /\ DataHolds(h2, ns2, lv, n, DeltaBody(e, c, action)) /\ ~IsHurt(DeltaBody(e, c, action))

\* A mutation goes on from what the node has shown.
LEMMA MutationTruthful ==
    ASSUME Typed, NEW h, NEW ns \in NodeMaps, NEW lv, Truthful(h, ns, lv),
           NEW n \in Node, ns[n] # Absent, NEW e, e = ns[n].engine,
           NEW c \in Change, NEW action, NEW y \in MockNodes(n), y.engine = AfterMutation(e, c, action),
           \A s \in ToSet(y.scheduled) : s \in ToSet(ns[n].scheduled) \/ s.body = SnapshotBody(e, c),
           NEW ns2, ns2 = [ns EXCEPT ![n] = y]
    PROVE  \E h2 : MutationShown(h, ns, lv, h2, ns2, n, e, c, action)
<1> DEFINE k == NextAge(e.gen)
           w == Project(ApplyChange(e.value, c))
           h2 == [h EXCEPT ![n][k] = w]
<1>0. DataTyped /\ AbsentIsNoNode BY DEF Typed
<1>1. /\ ns2 \in NodeMaps /\ ns2[n] = y /\ \A p \in Node \ {n} : ns2[p] = ns[p]
  <2>1. ns2 \in NodeMaps BY NodeReplaced
  <2>2. \A p \in Node \ {n} : ns2[p] = ns[p] BY DEF NodeMaps
  <2>3. ns2[n] = y BY DEF NodeMaps
  <2> QED BY <2>1, <2>2, <2>3
<1>2. y # Absent BY <1>0 DEF AbsentIsNoNode, AnyNode
<1>3. e \in Engines /\ e.id = n /\ NodeHolds(h, ns, lv, n) BY NodeTyped DEF Truthful
<1>4. e.gen \in Generation /\ e.value \in State /\ e.departed \in SUBSET Node BY <1>3 DEF Engines, EngineRecords
<1>5. k \in Generation /\ Lt(e.gen, k) /\ k.inc = e.gen.inc
  BY <1>4, NextAgeAdvances DEF NextAge, NewGeneration
<1>6. w \in View BY <1>0, <1>4 DEF DataTyped
<1>7. h \in Histories /\ lv \in [Node -> Nat] BY DEF Truthful
<1>8. /\ h2 \in Histories /\ h2[n][k] = w
      /\ \A p \in Node, g \in Generation : p # n \/ g # k => h2[p][g] = h[p][g]
  BY <1>5, <1>6, <1>7 DEF Histories
<1>9. /\ y.engine.gen = k /\ y.engine.value = ApplyChange(e.value, c) /\ y.engine.departed = e.departed
      /\ \A p \in Node \ {n} : y.engine.views[p] = e.views[p]
      /\ y.engine.feed = e.feed \/ y.engine.feed = k
  BY <1>0, <1>3, MutationMade, MutationFeeds
<1> HIDE DEF k, w, h2
<1>10. Onward(h, ns, lv, h2, ns2, lv)
  <2> SUFFICES ASSUME NEW p \in Node, NEW g \in Generation, Reached(ns, lv, p, g)
               PROVE  Reached(ns2, lv, p, g) /\ h2[p][g] = h[p][g]
    BY DEF Onward
  <2>1. CASE p # n BY <1>1, <1>8, <2>1 DEF Reached
  <2>2. CASE p = n
    <3>1. Le(g, e.gen) BY <2>2 DEF Reached
    <3>2. Lt(g, k) BY <1>4, <1>5, <3>1, LeLtTransitive
    <3>3. g # k BY <1>5, <3>2, LtIrreflexive
    <3> QED BY <1>1, <1>8, <1>9, <2>2, <3>2, <3>3 DEF Reached, Le
  <2> QED BY <2>1, <2>2
<1>11. Reached(ns2, lv, n, k)
  <2>1. e.gen.inc = lv[n] /\ lv[n] >= 1 BY <1>3 DEF NodeHolds, Truthful
  <2> QED BY <1>1, <1>5, <1>7, <1>9, <2>1 DEF Reached, Le
<1>12. /\ NewsOf(n, k, SnapshotBody(e, c)) /\ SnapshotBody(e, c).type = "FullSnapshot" /\ SnapshotBody(e, c).data = w
       /\ NewsOf(n, k, DeltaBody(e, c, action))
       /\ \/ DeltaBody(e, c, action) = SnapshotBody(e, c)
          \/ /\ DeltaBody(e, c, action).type = "DeltaUpdate"
             /\ DeltaBody(e, c, action).data = ViewDelta(e.value, c)
  BY <1>3, MutationBodies DEF k, w
<1>13. \A b : NewsOf(n, k, b) => ~IsHurt(b) BY WireRead DEF NewsOf, IsHurt
<1>14. \A b : NewsOf(n, k, b) /\ b.type = "FullSnapshot" /\ b.data = w => DataHolds(h2, ns2, lv, n, b)
  BY <1>8, <1>11 DEF NewsOf, DataHolds, Says
<1>15. \A b : NewsOf(n, k, b) /\ b.type = "DeltaUpdate" /\ b.data = ViewDelta(e.value, c) => DataHolds(h2, ns2, lv, n, b)
  <2> SUFFICES ASSUME NEW b, NewsOf(n, k, b), b.type = "DeltaUpdate", b.data = ViewDelta(e.value, c)
               PROVE  DataHolds(h2, ns2, lv, n, b)
    OBVIOUS
  <2>1. ASSUME Lawful, NEW g \in Generation, b.gen = NextAge(g) PROVE ApplyDelta(h2[n][g], b.data) = h2[n][b.gen]
    <3>1. g = e.gen BY <1>4, <2>1, NextAgeInjective DEF NewsOf, k
    <3>2. e.gen # k BY <1>4, <1>5, LtIrreflexive
    <3>3. h2[n][g] = Project(e.value) BY <1>3, <1>8, <2>1, <3>1, <3>2 DEF NodeHolds
    <3>4. ApplyDelta(Project(e.value), ViewDelta(e.value, c)) = w BY <1>4, <2>1 DEF Lawful, w
    <3> QED BY <1>8, <3>3, <3>4 DEF NewsOf
  <2>2. Lawful => Says(h2, n, b) BY <2>1 DEF Says
  <2> QED BY <1>11, <2>2 DEF DataHolds, NewsOf
<1>16. /\ DataHolds(h2, ns2, lv, n, SnapshotBody(e, c)) /\ ~IsHurt(SnapshotBody(e, c))
       /\ DataHolds(h2, ns2, lv, n, DeltaBody(e, c, action)) /\ ~IsHurt(DeltaBody(e, c, action))
  BY <1>12, <1>13, <1>14, <1>15
<1>17. ASSUME NEW m \in Node, ns2[m] # Absent PROVE NodeHolds(h2, ns2, lv, m)
  <2>1. ns[m] # Absent /\ NodeHolds(h, ns, lv, m) BY <1>1, <1>3, <1>17 DEF Truthful
  <2>d. ns[m].engine.departed \in SUBSET Node BY <2>1, NodeTyped DEF Engines, EngineRecords
  <2>2. \A p \in ns[m].engine.departed : ns2[p] = Absent BY <1>1, <2>1, <2>d DEF NodeHolds
  <2>3. \A p \in Node \ {m} : EntryHolds(h2, ns2, lv, p, ns[m].engine.views[p])
    BY <1>10, <2>1, EntryOnward DEF NodeHolds
  <2>4. \A s \in ToSet(ns[m].scheduled) : DataHolds(h2, ns2, lv, m, s.body) /\ ~IsHurt(s.body)
    BY <1>10, <2>1, DataOnward DEF NodeHolds
  <2>5. \A g \in Generation : Reached(ns, lv, m, g) => Reached(ns2, lv, m, g) BY <1>10 DEF Onward
  <2>6. ns[m].engine.feed = NoGen \/ Reached(ns2, lv, m, ns[m].engine.feed)
    BY <2>1, <2>5 DEF NodeHolds, Reached
  <2>7. CASE m = n
    <3>1. \A s \in ToSet(y.scheduled) : DataHolds(h2, ns2, lv, n, s.body) /\ ~IsHurt(s.body)
      BY <1>16, <2>4, <2>7
    <3>2. y.engine.gen.inc = lv[n] BY <1>3, <1>5, <1>9 DEF NodeHolds
    <3>3. y.engine.feed = NoGen \/ Reached(ns2, lv, n, y.engine.feed) BY <1>9, <1>11, <2>6, <2>7
    <3>4. h2[n][y.engine.gen] = Project(y.engine.value) BY <1>8, <1>9 DEF w
    <3>5. \A p \in Node \ {n} : EntryHolds(h2, ns2, lv, p, y.engine.views[p]) BY <1>9, <2>3, <2>7
    <3>6. \A p \in y.engine.departed : ns2[p] = Absent BY <1>9, <2>2, <2>7
    <3> QED BY <1>1, <2>7, <3>1, <3>2, <3>3, <3>4, <3>5, <3>6 DEF NodeHolds
  <2>8. CASE m # n
    <3>1. ns2[m] = ns[m] BY <1>1, <2>8
    <3>2. Lawful => h2[m][ns[m].engine.gen] = Project(ns[m].engine.value)
      <4>1. ns[m].engine.gen \in Generation BY <2>1, NodeTyped DEF Engines, EngineRecords
      <4> QED BY <1>8, <2>1, <2>8, <4>1 DEF NodeHolds
    <3> QED BY <2>1, <2>2, <2>3, <2>4, <2>6, <3>1, <3>2 DEF NodeHolds
  <2> QED BY <2>7, <2>8
<1>18. Truthful(h2, ns2, lv)
  BY <1>7, <1>8, <1>17 DEF Truthful
<1> QED BY <1>10, <1>16, <1>18 DEF MutationShown

-----------------------------------------------------------------------------
(* BaseInv: departures and timers.                                         *)

\* A node that is there went no further, and forgot at most.
Steadier(ns, ns2, n) ==
    LET e == ns[n].engine
        x == ns2[n].engine
    IN  /\ ns[n] # Absent
        /\ x.gen = e.gen /\ x.value = e.value /\ x.feed \in {NoGen, e.feed}
        /\ \A p \in x.departed : ns2[p] = Absent
        /\ \A s \in ToSet(ns2[n].scheduled) : \E r \in ToSet(ns[n].scheduled) : s.body = r.body
        /\ \A p \in Node \ {n} : x.views[p] \in {e.views[p], NoView}

\* Nodes that went no further and forgot at most keep what is true.
LEMMA SteadyTruthful ==
    ASSUME Typed, NEW h, NEW ns \in NodeMaps, NEW lv, Truthful(h, ns, lv),
           NEW ns2 \in NodeMaps, \A n \in Node : ns2[n] # Absent => Steadier(ns, ns2, n)
    PROVE  Truthful(h, ns2, lv) /\ Onward(h, ns, lv, h, ns2, lv)
<1>1. \A p \in Node : \A g : Reached(ns, lv, p, g) => Reached(ns2, lv, p, g)
  BY DEF Reached, Steadier
<1>2. Onward(h, ns, lv, h, ns2, lv) BY <1>1 DEF Onward
<1>3. ASSUME NEW n \in Node, ns2[n] # Absent PROVE NodeHolds(h, ns2, lv, n)
  <2>1. Steadier(ns, ns2, n) /\ NodeHolds(h, ns, lv, n) BY <1>3 DEF Truthful, Steadier
  <2>2. \A p \in Node \ {n} : EntryHolds(h, ns2, lv, p, ns2[n].engine.views[p])
    <3> TAKE p \in Node \ {n}
    <3>1. EntryHolds(h, ns, lv, p, ns[n].engine.views[p]) BY <2>1 DEF NodeHolds
    <3>2. EntryHolds(h, ns2, lv, p, ns[n].engine.views[p]) BY <1>2, <3>1, EntryOnward
    <3>3. EntryHolds(h, ns2, lv, p, NoView) BY DEF EntryHolds
    <3> QED BY <2>1, <3>2, <3>3 DEF Steadier
  <2>3. ASSUME NEW s \in ToSet(ns2[n].scheduled) PROVE DataHolds(h, ns2, lv, n, s.body) /\ ~IsHurt(s.body)
    <3>1. PICK r \in ToSet(ns[n].scheduled) : s.body = r.body BY <2>1 DEF Steadier
    <3>2. DataHolds(h, ns, lv, n, r.body) /\ ~IsHurt(r.body) BY <2>1 DEF NodeHolds
    <3> QED BY <1>2, <3>1, <3>2, DataOnward
  <2>4. ns2[n].engine.feed = NoGen \/ Reached(ns2, lv, n, ns2[n].engine.feed)
    BY <1>1, <2>1 DEF NodeHolds, Steadier
  <2> QED BY <2>1, <2>2, <2>3, <2>4 DEF NodeHolds, Steadier
<1> QED BY <1>2, <1>3 DEF Truthful

\* A node leaves.
LEMMA LeftTruthful ==
    ASSUME Typed, NEW h, NEW ns \in NodeMaps, NEW lv, Truthful(h, ns, lv),
           NEW n \in Node, NEW ns2, ns2 = Left(ns, n)
    PROVE  Truthful(h, ns2, lv) /\ Onward(h, ns, lv, h, ns2, lv)
<1>1. /\ ns2 \in NodeMaps /\ ns2[n] = Absent
      /\ \A p \in Node \ {n} : IF ns[p] = Absent THEN ns2[p] = Absent ELSE Bereft(ns, n, p, ns2[p])
  BY NodeLeft
<1>2. ASSUME NEW p \in Node, ns2[p] # Absent PROVE Steadier(ns, ns2, p)
  <2>1. p # n /\ ns[p] # Absent /\ Bereft(ns, n, p, ns2[p]) BY <1>1, <1>2
  <2>2. ns[p].engine \in Engines /\ ns[p].engine.id = p BY <2>1, NodeTyped
  <2>3. /\ SameState(ns[p].engine, ns2[p].engine)
        /\ ns2[p].engine.departed = ns[p].engine.departed \cup {n}
        /\ ns2[p].engine.views[n] = NoView
        /\ \A q \in Node \ {n} : ns2[p].engine.views[q] = ns[p].engine.views[q]
    BY <2>1, <2>2, LeaveHandled DEF Bereft
  <2>4. \A q \in ns[p].engine.departed : q \in Node /\ ns[q] = Absent
    BY <2>1, <2>2 DEF Truthful, NodeHolds, Engines, EngineRecords
  <2>5. \A q \in ns2[p].engine.departed : ns2[q] = Absent BY <1>1, <2>3, <2>4
  <2>6. \A q \in Node \ {p} : ns2[p].engine.views[q] \in {ns[p].engine.views[q], NoView} BY <2>3
  <2>7. ns2[p].scheduled = ns[p].scheduled BY <2>1 DEF Bereft
  <2> QED BY <2>1, <2>3, <2>5, <2>6, <2>7 DEF Steadier, SameState
<1> QED BY <1>1, <1>2, SteadyTruthful

\* The timers and flushes of a tick.
LEMMA TimersTruthful ==
    ASSUME Typed, NEW h, NEW ns \in NodeMaps, NEW lv, Truthful(h, ns, lv),
           NEW ns2 \in NodeMaps,
           \A n \in Node : ns2[n] = IF ns[n] = Absent THEN Absent ELSE AfterTimers(ns, n)
    PROVE  Truthful(h, ns2, lv) /\ Onward(h, ns, lv, h, ns2, lv)
<1>1. ASSUME NEW n \in Node, ns2[n] # Absent PROVE Steadier(ns, ns2, n)
  <2>1. ns[n] # Absent /\ ns2[n] = AfterTimers(ns, n) BY <1>1
  <2>2. ns[n].engine.departed \in SUBSET Node BY <2>1, NodeTyped DEF Engines, EngineRecords
  <2>3. \A q \in ns[n].engine.departed : ns2[q] = Absent BY <2>1, <2>2 DEF Truthful, NodeHolds
  <2> QED BY <2>1, <2>3, TimersRun DEF Steadier
<1> QED BY <1>1, SteadyTruthful

-----------------------------------------------------------------------------
(* BaseInv: newcomers.                                                     *)

\* The mark of a placeholder, and the generation a lifetime starts with.
LEMMA FirstReached ==
    ASSUME NEW ns \in NodeMaps, NEW lv \in [Node -> Nat], NEW p \in Node, lv[p] >= 1,
           ns[p] # Absent => ns[p].engine.gen.inc = lv[p]
    PROVE  /\ Reached(ns, lv, p, PlaceholderPending)
           /\ \A h, v : EntryHolds(h, ns, lv, p, Placeholder(v)) /\ EntryHolds(h, ns, lv, p, NoView)
<1>1. PlaceholderPending \in Generation /\ PlaceholderPending.inc = 1
  BY DEF PlaceholderPending, NewGeneration, Generation
<1>2. ns[p] # Absent => Le(PlaceholderPending, ns[p].engine.gen)
  <2> SUFFICES ASSUME ns[p] # Absent PROVE Le(PlaceholderPending, ns[p].engine.gen) OBVIOUS
  <2>1. ns[p].engine.gen \in Generation BY NodeTyped DEF Engines, EngineRecords
  <2>2. ns[p].engine.gen.inc > 0 OBVIOUS
  <2> QED BY <2>1, <2>2, ZeroBelow DEF PlaceholderPending
<1>3. Reached(ns, lv, p, PlaceholderPending) BY <1>1, <1>2 DEF Reached
<1>4. \A v : Placeholder(v).gen = Zero /\ Placeholder(v).pending = PlaceholderPending BY DEF Placeholder
<1> QED BY <1>3, <1>4 DEF EntryHolds

\* new_generation and next_age make generations.
LEMMA NewGenerationTyped ==
    ASSUME NEW inc \in Nat
    PROVE  /\ NewGeneration(inc, 0) \in Generation /\ NewGeneration(inc, 0).inc = inc
           /\ \A n : NewEngine(n, inc).gen = NewGeneration(inc, 0) /\ NewEngine(n, inc).value = InitState
                     /\ NewEngine(n, inc).feed = NoGen
BY DEF NewGeneration, Generation, NewEngine

\* A new lifetime of n begins.
LEMMA AdmittedTruthful ==
    ASSUME Typed, NEW h, NEW ns \in NodeMaps, NEW lv, Truthful(h, ns, lv),
           NEW n \in Node, ns[n] = Absent, NEW inc, inc = lv[n] + 1,
           NEW lv2, lv2 = [lv EXCEPT ![n] = inc], NEW ns2, ns2 = Admitted(ns, n, inc)
    PROVE  \E h2 : Truthful(h2, ns2, lv2) /\ Onward(h, ns, lv, h2, ns2, lv2)
<1> DEFINE g1 == NewGeneration(inc, 0)
           w == Project(InitState)
           h2 == [h EXCEPT ![n][g1] = w]
<1>0. DataTyped BY DEF Typed
<1>1. h \in Histories /\ lv \in [Node -> Nat] /\ lv[n] >= 1 /\ \A p \in Node : lv[p] >= 1 BY DEF Truthful
<1>2. inc \in Nat /\ inc >= 1 /\ lv[n] < inc BY <1>1
<1>3. lv2 \in [Node -> Nat] /\ lv2[n] = inc /\ \A p \in Node \ {n} : lv2[p] = lv[p] BY <1>1, <1>2
<1>4. /\ ns2 \in NodeMaps /\ Newcomer(ns, n, inc, ns2[n])
      /\ \A p \in Node \ {n} : IF ns[p] = Absent THEN ns2[p] = Absent ELSE Welcomes(ns, n, p, ns2[p])
  BY <1>0, <1>2, NodeAdmitted
<1>5. /\ g1 \in Generation /\ g1.inc = inc
      /\ NewEngine(n, inc).gen = g1 /\ NewEngine(n, inc).value = InitState /\ NewEngine(n, inc).feed = NoGen
  BY <1>2, NewGenerationTyped
<1>6. w \in View BY <1>0 DEF DataTyped
<1>7. /\ h2 \in Histories /\ h2[n][g1] = w
      /\ \A p \in Node, g \in Generation : p # n \/ g # g1 => h2[p][g] = h[p][g]
  BY <1>1, <1>5, <1>6 DEF Histories
<1> HIDE DEF g1, w, h2
<1>8. /\ ns2[n].engine.gen = g1 /\ ns2[n].engine.value = InitState /\ ns2[n].engine.feed = NoGen
      /\ ns2[n].engine.departed = {} /\ ns2[n].scheduled = <<>>
      /\ \A q \in Node \ {n} : ns2[n].engine.views[q] \in {Placeholder(DefaultView), NoView}
  BY <1>4, <1>5 DEF Newcomer, SameState
<1>9. ASSUME NEW p \in Node \ {n}, ns[p] # Absent
      PROVE  /\ ns2[p].engine.gen = ns[p].engine.gen /\ ns2[p].engine.value = ns[p].engine.value
             /\ ns2[p].engine.feed = ns[p].engine.feed
             /\ ns2[p].engine.departed = ns[p].engine.departed \ {n}
             /\ ns2[p].scheduled = ns[p].scheduled
             /\ ns2[p].engine.views[n] \in {ns[p].engine.views[n], Placeholder(DefaultView)}
             /\ \A q \in Node \ {n} : ns2[p].engine.views[q] = ns[p].engine.views[q]
  <2>1. Welcomes(ns, n, p, ns2[p]) /\ ns[p].engine \in Engines /\ ns[p].engine.id = p
    BY <1>4, <1>9, NodeTyped
  <2> QED BY <1>0, <2>1, JoinHandled DEF Welcomes, SameState, InsertPlaceholder
<1>10. Onward(h, ns, lv, h2, ns2, lv2)
  <2> SUFFICES ASSUME NEW p \in Node, NEW g \in Generation, Reached(ns, lv, p, g)
               PROVE  Reached(ns2, lv2, p, g) /\ h2[p][g] = h[p][g]
    BY DEF Onward
  <2>1. CASE p # n
    <3>1. lv2[p] = lv[p] /\ h2[p][g] = h[p][g] BY <1>3, <1>7, <2>1
    <3>2. CASE ns[p] = Absent BY <1>4, <2>1, <3>1, <3>2 DEF Reached
    <3>3. CASE ns[p] # Absent BY <1>9, <2>1, <3>1, <3>3 DEF Reached
    <3> QED BY <3>2, <3>3
  <2>2. CASE p = n
    <3>1. g.inc <= lv[n] /\ g.inc >= 1 BY <2>2 DEF Reached
    <3>2. g.inc \in Nat BY DEF Generation
    <3>3. g.inc < inc /\ g # g1 BY <1>1, <1>2, <1>5, <3>1, <3>2
    <3>4. Le(g, g1) BY <1>5, <3>3 DEF Le, Lt
    <3> QED BY <1>2, <1>3, <1>7, <1>8, <2>2, <3>1, <3>2, <3>3, <3>4 DEF Reached
  <2> QED BY <2>1, <2>2
<1>11. \A p \in Node : lv2[p] >= 1 BY <1>1, <1>2, <1>3
<1>12. \A p \in Node : ns2[p] # Absent => ns2[p].engine.gen.inc = lv2[p]
  <2>1. ASSUME NEW p \in Node \ {n}, ns2[p] # Absent PROVE ns2[p].engine.gen.inc = lv2[p]
    <3>1. ns[p] # Absent BY <1>4, <2>1
    <3> QED BY <1>3, <1>9, <2>1, <3>1 DEF Truthful, NodeHolds
  <2> QED BY <1>3, <1>5, <1>8, <2>1
<1>13. \A p \in Node : \A v : EntryHolds(h2, ns2, lv2, p, Placeholder(v)) /\ EntryHolds(h2, ns2, lv2, p, NoView)
  BY <1>3, <1>4, <1>11, <1>12, FirstReached
<1>14. NodeHolds(h2, ns2, lv2, n)
  <2>1. ToSet(ns2[n].scheduled) = {} BY <1>8, EmptyList
  <2>2. \A p \in Node \ {n} : EntryHolds(h2, ns2, lv2, p, ns2[n].engine.views[p]) BY <1>8, <1>13
  <2>3. h2[n][ns2[n].engine.gen] = Project(ns2[n].engine.value) BY <1>7, <1>8 DEF w
  <2> QED BY <1>3, <1>5, <1>8, <2>1, <2>2, <2>3 DEF NodeHolds
<1>15. ASSUME NEW p \in Node \ {n}, ns2[p] # Absent PROVE NodeHolds(h2, ns2, lv2, p)
  <2>1. ns[p] # Absent /\ NodeHolds(h, ns, lv, p) BY <1>4, <1>15 DEF Truthful
  <2>2. ns[p].engine.gen \in Generation /\ ns[p].engine.departed \in SUBSET Node
    BY <2>1, NodeTyped DEF Engines, EngineRecords
  <2>3. \A q \in ns2[p].engine.departed : ns2[q] = Absent
    <3>1. \A q \in ns[p].engine.departed : ns[q] = Absent BY <2>1 DEF NodeHolds
    <3>2. \A q \in ns2[p].engine.departed : q \in Node \ {n} /\ ns[q] = Absent BY <1>9, <2>1, <2>2, <3>1
    <3> QED BY <1>4, <3>2
  <2>4. ASSUME NEW q \in Node \ {p} PROVE EntryHolds(h2, ns2, lv2, q, ns2[p].engine.views[q])
    <3>1. EntryHolds(h2, ns2, lv2, q, ns[p].engine.views[q])
      BY <1>10, <2>1, EntryOnward DEF NodeHolds
    <3>p. EntryHolds(h2, ns2, lv2, q, Placeholder(DefaultView)) BY <1>13
    <3>v. ns2[p].engine.views[n] \in {ns[p].engine.views[n], Placeholder(DefaultView)} BY <1>9, <2>1
    <3>2. CASE q = n BY <3>p, <3>v, <3>1, <3>2
    <3>3. CASE q # n BY <1>9, <2>1, <3>1, <3>3
    <3> QED BY <3>2, <3>3
  <2>5. \A s \in ToSet(ns2[p].scheduled) : DataHolds(h2, ns2, lv2, p, s.body) /\ ~IsHurt(s.body)
    BY <1>9, <1>10, <2>1, DataOnward DEF NodeHolds
  <2>6. ns2[p].engine.feed = NoGen \/ Reached(ns2, lv2, p, ns2[p].engine.feed)
    <3>1. \A g \in Generation : Reached(ns, lv, p, g) => Reached(ns2, lv2, p, g) BY <1>10 DEF Onward
    <3> QED BY <1>9, <2>1, <3>1 DEF NodeHolds, Reached
  <2>7. Lawful => h2[p][ns2[p].engine.gen] = Project(ns2[p].engine.value)
    BY <1>7, <1>9, <2>1, <2>2 DEF NodeHolds
  <2> QED BY <1>12, <1>15, <2>3, <2>4, <2>5, <2>6, <2>7 DEF NodeHolds
<1>16. Truthful(h2, ns2, lv2) BY <1>3, <1>7, <1>11, <1>14, <1>15 DEF Truthful
<1> QED BY <1>10, <1>16

\* The cluster a test starts with.
LEMMA BuiltTruthful ==
    ASSUME Typed, NEW ns, \A n \in Node : ns[n] # Absent /\ FreshAt(Node, n, ns[n]), ns \in NodeMaps,
           NEW lv, lv = [n \in Node |-> 1]
    PROVE  \E h : Truthful(h, ns, lv)
<1> DEFINE h == [p \in Node |-> [g \in Generation |-> Project(InitState)]]
<1>0. DataTyped BY DEF Typed
<1>1. h \in Histories /\ \A p \in Node, g \in Generation : h[p][g] = Project(InitState)
  BY <1>0 DEF DataTyped, Histories
<1> HIDE DEF h
<1>2. lv \in [Node -> Nat] /\ \A n \in Node : lv[n] = 1 OBVIOUS
<1>3. ASSUME NEW n \in Node
      PROVE  /\ ns[n].engine.gen = NewGeneration(1, 0) /\ ns[n].engine.value = InitState
             /\ ns[n].engine.feed = NoGen /\ ns[n].engine.departed = {} /\ ns[n].scheduled = <<>>
             /\ \A q \in Node \ {n} : ns[n].engine.views[q] = Placeholder(DefaultView)
  <2>1. FreshAt(Node, n, ns[n]) OBVIOUS
  <2>2. /\ NewEngine(n, 1).gen = NewGeneration(1, 0) /\ NewEngine(n, 1).value = InitState
        /\ NewEngine(n, 1).feed = NoGen
    BY NewGenerationTyped
  <2> QED BY <2>1, <2>2 DEF FreshAt, SameState
<1>4. NewGeneration(1, 0) \in Generation /\ NewGeneration(1, 0).inc = 1 BY NewGenerationTyped
<1>5. \A p \in Node : \A v : EntryHolds(h, ns, lv, p, Placeholder(v))
  BY <1>2, <1>3, <1>4, FirstReached
<1>6. ASSUME NEW n \in Node PROVE NodeHolds(h, ns, lv, n)
  <2>1. ToSet(ns[n].scheduled) = {} BY <1>3, EmptyList
  <2>2. h[n][ns[n].engine.gen] = Project(ns[n].engine.value) BY <1>1, <1>3, <1>4
  <2> QED BY <1>2, <1>3, <1>4, <1>5, <2>1, <2>2 DEF NodeHolds
<1>7. Truthful(h, ns, lv) BY <1>1, <1>2, <1>6 DEF Truthful
<1> QED BY <1>7

-----------------------------------------------------------------------------
(* BaseInv: the deliveries of a tick.                                      *)

\* The deliveries of a tick, up to one of them.
Running(h, ns, lv, frames, acc) ==
    Handled(ns, frames, acc) /\ Truthful(h, acc.nodes, lv) /\ SameReach(ns, lv, acc.nodes)

\* What a frame says stays true during the deliveries of a tick.
LEMMA FramesReached ==
    ASSUME NEW h, NEW ns, NEW lv, NEW ns2, SameReach(ns, lv, ns2),
           NEW p \in Node, NEW d, DataHolds(h, ns, lv, p, d)
    PROVE  DataHolds(h, ns2, lv, p, d)
BY DEF SameReach, DataHolds

\* One delivery more.
LEMMA OneRunning ==
    ASSUME Typed, NEW h, NEW ns \in NodeMaps, NEW lv, NEW frames \in Seq(Arrivals),
           FramesHold(h, ns, lv, ToSet(frames)), NEW f \in ToSet(frames), NEW acc,
           Running(h, ns, lv, frames, acc)
    PROVE  Running(h, ns, lv, frames, Handle(acc, f))
<1>0. DataTyped BY DEF Typed
<1>1. /\ Handled(ns, frames, acc) /\ Truthful(h, acc.nodes, lv) /\ SameReach(ns, lv, acc.nodes)
      /\ acc.nodes \in NodeMaps /\ acc.out \in Seq(Messages)
  BY DEF Running, Handled
<1>2. f \in Arrivals BY DEF ToSet
<1>3. PICK y : y = Handle(acc, f) OBVIOUS
<1>4. Handled(ns, frames, y) BY <1>0, <1>1, <1>3, OneHandled
<1>5. Truthful(h, y.nodes, lv) /\ SameReach(acc.nodes, lv, y.nodes)
  <2>1. /\ acc.nodes[f.to] = Absent => y = acc
        /\ acc.nodes[f.to] # Absent =>
                 \E e, x : Delivery(acc.nodes, f, e, x, y.nodes) /\ Replied(e, f, acc.out, y.out)
    BY <1>1, <1>2, <1>3, OneDelivered
  <2>2. CASE acc.nodes[f.to] = Absent BY <1>1, <2>1, <2>2 DEF SameReach
  <2>3. CASE acc.nodes[f.to] # Absent
    <3>1. PICK e, x : Delivery(acc.nodes, f, e, x, y.nodes) BY <2>1, <2>3
    <3>2. f.from \in Node BY <1>2, ArrivalTyped
    <3>3. DataHolds(h, ns, lv, f.from, f.data) BY DEF FramesHold
    <3>4. DataHolds(h, acc.nodes, lv, f.from, f.data) BY <1>1, <3>2, <3>3, FramesReached
    <3>5. PICK ms : ms = acc.nodes OBVIOUS
    <3>6. PICK ms2 : ms2 = y.nodes OBVIOUS
    <3> QED BY <1>1, <1>2, <3>1, <3>4, <3>5, <3>6, DeliveryTruthful
  <2> QED BY <2>2, <2>3
<1>6. SameReach(ns, lv, y.nodes) BY <1>1, <1>5 DEF SameReach
<1> QED BY <1>3, <1>4, <1>5, <1>6 DEF Running

\* All deliveries of a tick.
LEMMA AllRunning ==
    ASSUME Typed, NEW h, NEW ns \in NodeMaps, NEW lv, NEW frames \in Seq(Arrivals),
           FramesHold(h, ns, lv, ToSet(frames)), Truthful(h, ns, lv),
           NEW base, base = [nodes |-> ns, out |-> <<>>], NEW run, HandleRun(base, frames, run)
    PROVE  \A k \in 0 .. Len(frames) : Running(h, ns, lv, frames, run[k])
<1>b. base.nodes = ns /\ base.out = <<>> OBVIOUS
<1>0. /\ Len(frames) \in Nat /\ \A k \in 1 .. Len(frames) : frames[k] \in ToSet(frames)
  BY DEF ToSet
<1>1. /\ run[0] = base
      /\ \A k \in 1 .. Len(frames) : run[k] = Handle(run[k - 1], frames[k])
  BY DEF HandleRun
<1> DEFINE W == {k \in Nat : k <= Len(frames) => Running(h, ns, lv, frames, run[k])}
<1>2. 0 \in W
  <2>1. Handled(ns, frames, base)
    <3>1. \A n \in Node : ns[n] # Absent => KeptAt(ns, frames, n, ns[n])
      BY NodeTyped DEF KeptAt
    <3>2. base.out \in Seq(Messages) /\ ToSet(base.out) = {} BY <1>b, EmptyList
    <3> QED BY <1>b, <3>1, <3>2 DEF Handled
  <2>2. SameReach(ns, lv, ns) BY DEF SameReach
  <2> QED BY <1>1, <1>b, <2>1, <2>2 DEF Running
<1>3. ASSUME NEW k \in W PROVE k + 1 \in W
  <2> SUFFICES ASSUME k + 1 <= Len(frames) PROVE Running(h, ns, lv, frames, run[k + 1]) OBVIOUS
  <2>1. /\ k \in Nat /\ k + 1 \in 1 .. Len(frames) /\ (k + 1) - 1 = k
        /\ Running(h, ns, lv, frames, run[k]) BY <1>0
  <2>2. run[k + 1] = Handle(run[k], frames[k + 1]) /\ frames[k + 1] \in ToSet(frames)
    BY <1>0, <1>1, <2>1
  <2> QED BY <2>1, <2>2, OneRunning
<1>4. W \in SUBSET Nat OBVIOUS
<1>5. \A k \in Nat : k \in W
  <2> HIDE DEF W
  <2> QED BY <1>2, <1>3, <1>4, SetInduction
<1> QED BY <1>0, <1>5

\* What the nodes have shown explains their entries and all that is under way.
BaseHolds(h) == Truthful(h, nodes, lives) /\ FramesHold(h, nodes, lives, ToSet(in_flight))

BaseInv == (\E h : BaseHolds(h)) /\ Sound(Network)

\* A tick as a run of its deliveries.
TickRun(h, acc, net, run) ==
    /\ TickTaken(acc, net)
    /\ HandleRun([nodes |-> nodes, out |-> <<>>], Delivered(in_flight), run)
    /\ acc = run[Len(Delivered(in_flight))]
    /\ \A k \in 0 .. Len(Delivered(in_flight)) : Running(h, nodes, lives, Delivered(in_flight), run[k])

\* A tick is such a run.
LEMMA TickRuns ==
    ASSUME Typed, TypeInv, NEW h, BaseHolds(h), Tick
    PROVE  \E acc, net, run : TickRun(h, acc, net, run)
<1>0. nodes \in NodeMaps /\ in_flight \in Seq(Frames) BY DEF TypeInv, NodesTyped, QueueTyped
<1>1. PICK acc, net : TickTaken(acc, net) BY TickUnfolds DEF Typed
<1>2. Delivered(in_flight) \in Seq(Arrivals)
      /\ ToSet(Delivered(in_flight)) = {f \in ToSet(in_flight) : f.due = 0 /\ f.data # Garbage}
  BY <1>0, QueueParted
<1>3. PICK ns, lv, frames, base :
         ns = nodes /\ lv = lives /\ frames = Delivered(in_flight) /\ base = [nodes |-> nodes, out |-> <<>>]
  OBVIOUS
<1>4. PICK run : HandleRun(base, frames, run) BY <1>2, <1>3, HandleRuns
<1>5. FramesHold(h, ns, lv, ToSet(frames)) BY <1>2, <1>3 DEF BaseHolds, FramesHold
<1>6. \A k \in 0 .. Len(frames) : Running(h, ns, lv, frames, run[k])
  BY <1>0, <1>2, <1>3, <1>4, <1>5, AllRunning DEF BaseHolds
<1>7. acc = run[Len(frames)] BY <1>1, <1>3, <1>4 DEF TickTaken, HandleRun
<1> QED BY <1>1, <1>3, <1>4, <1>6, <1>7 DEF TickRun

-----------------------------------------------------------------------------
(* BaseInv: every step.                                                    *)

\* What is under way stays true.
LEMMA FramesOnward ==
    ASSUME NEW h, NEW ns \in NodeMaps, NEW lv, NEW h2, NEW ns2, NEW lv2,
           Onward(h, ns, lv, h2, ns2, lv2), NEW F \in SUBSET Frames, FramesHold(h, ns, lv, F)
    PROVE  FramesHold(h2, ns2, lv2, F)
<1> SUFFICES ASSUME NEW f \in F PROVE DataHolds(h2, ns2, lv2, f.from, f.data) BY DEF FramesHold
<1>1. f.from \in Node BY DEF Frames
<1> QED BY <1>1, DataOnward DEF FramesHold

\* A queue with other frames.
LEMMA FramesOf ==
    ASSUME NEW q \in Seq(Frames) PROVE ToSet(q) \in SUBSET Frames
BY DEF ToSet

\* The network after a call, and what it knows of the messages.
CallTaken(messages, news, x) ==
    /\ x \in Networks /\ x.queue = in_flight' /\ x.excused = excused'
    /\ Added(Network, messages, x)
    /\ ~news => Told(Network, messages, Len(messages), x) /\ ToldFeeds(messages, Len(messages), x)
    /\ ToldNews(Network, messages, Len(messages), x)
    /\ Sound(Network) /\ Unhurt(messages, news) => Sound(x)

\* The sends of a call, as told.
LEMMA CallTold ==
    ASSUME Typed, TypeInv, NEW messages \in Seq(Messages), NEW news \in BOOLEAN,
           Into(SendAll(Network, messages, news))
    PROVE  \E x : CallTaken(messages, news, x)
<1>1. PICK x \in SendAll(Network, messages, news) : in_flight' = x.queue /\ excused' = x.excused
  BY DEF Into
<1>2. PICK net : net = Network OBVIOUS
<1>3. net \in Networks BY <1>2, NetworkTyped
<1>4. interceptors \in Seq(Interceptor) /\ GarbageIsNoBody BY DEF TypeInv, TestTyped, Typed
<1>5. /\ Added(net, messages, x)
      /\ ~news => Told(net, messages, Len(messages), x) /\ ToldFeeds(messages, Len(messages), x)
      /\ ToldNews(net, messages, Len(messages), x)
      /\ Sound(net) /\ Unhurt(messages, news) => Sound(x)
  BY <1>1, <1>2, <1>3, <1>4, SendAllTold
<1>6. x \in Networks BY <1>5 DEF Added, Grown
<1> QED BY <1>1, <1>2, <1>5, <1>6 DEF CallTaken

\* No damage is unexcused, in the variables.
LEMMA SoundNetwork ==
    ASSUME NEW x \in Networks, Sound(x), x.queue = in_flight', x.excused = excused'
    PROVE  Sound(Network)'
BY DEF Sound, Network

\* What a call sends is as true as what was under way.
LEMMA CallBase ==
    ASSUME Typed, Sound(Network), NEW messages \in Seq(Messages), NEW news \in BOOLEAN,
           NEW x, CallTaken(messages, news, x), NEW h, NEW ns, NEW lv,
           FramesHold(h, ns, lv, ToSet(in_flight)), MessagesHold(h, ns, lv, ToSet(messages)),
           \A m \in ToSet(messages) : news => m.body.type # "RequestSnapshot"
    PROVE  FramesHold(h, ns, lv, ToSet(x.queue)) /\ Sound(Network)'
<1>1. Unhurt(messages, news) BY DEF MessagesHold, Unhurt
<1>2. Sound(x) BY <1>1 DEF CallTaken
<1>3. PICK net : net = Network OBVIOUS
<1>4. Grown(net, messages, x) BY <1>3 DEF CallTaken, Added
<1>5. net.queue = in_flight BY <1>3 DEF Network
<1>6. FramesHold(h, ns, lv, ToSet(x.queue)) BY <1>4, <1>5, GrownHolds DEF Typed
<1>7. Sound(Network)' BY <1>2, SoundNetwork DEF CallTaken
<1> QED BY <1>6, <1>7

\* After the step the nodes have shown what explains it all, and it goes on from
\* what they had shown.
BaseOn(h) ==
    /\ \E h2 : BaseHolds(h2)' /\ Onward(h, nodes, lives, h2, nodes', lives')
    /\ Sound(Network)'

\* What was shown stays where nothing new is.
LEMMA OnwardSame ==
    ASSUME NEW h, NEW ns, NEW lv PROVE Onward(h, ns, lv, h, ns, lv)
BY DEF Onward

\* add_node keeps what explains it all.
LEMMA AddTruth ==
    ASSUME Typed, TypeInv, NEW h, BaseHolds(h), Sound(Network), NEW n \in Node, AddNode(n)
    PROVE  BaseOn(h)
<1>0. /\ nodes \in NodeMaps /\ in_flight \in Seq(Frames) /\ DataTyped /\ GarbageIsNoBody
      /\ lives \in [Node -> Nat]
  BY DEF TypeInv, NodesTyped, QueueTyped, TestTyped, Typed
<1>1. PICK ns, lv, inc, lv2, ns2 :
        /\ ns = nodes /\ lv = lives /\ inc = lives[n] + 1 /\ lv2 = lives' /\ ns2 = nodes'
  OBVIOUS
<1>2. /\ ns[n] = Absent /\ lv2 = [lv EXCEPT ![n] = inc] /\ ns2 = Admitted(ns, n, inc)
      /\ Into(SendAll(Network, Greetings(ns, n, inc), TRUE)) /\ inc \in Nat
  <2>1. inc \in Nat BY <1>0, <1>1
  <2>2. /\ nodes[n] = Absent /\ nodes' = Admitted(nodes, n, lives[n] + 1)
        /\ Into(SendAll(Network, Greetings(nodes, n, lives[n] + 1), TRUE))
    BY DEF AddNode
  <2>3. lives' = [lives EXCEPT ![n] = lives[n] + 1] BY DEF AddNode, Stamp
  <2> QED BY <1>1, <2>1, <2>2, <2>3
<1>3. Truthful(h, ns, lv) /\ FramesHold(h, ns, lv, ToSet(in_flight)) /\ ns \in NodeMaps
  BY <1>0, <1>1 DEF BaseHolds
<1>4. PICK h2 : Truthful(h2, ns2, lv2) /\ Onward(h, ns, lv, h2, ns2, lv2)
  BY <1>1, <1>2, <1>3, AdmittedTruthful
<1>5. ToSet(in_flight) \in SUBSET Frames BY <1>0, FramesOf
<1>6. PICK F : F = ToSet(in_flight) OBVIOUS
<1>7. FramesHold(h2, ns2, lv2, F) BY <1>3, <1>4, <1>5, <1>6, FramesOnward
<1>8. /\ Greetings(ns, n, inc) \in Seq(Messages)
      /\ \A m : m \in ToSet(Greetings(ns, n, inc)) <=> Greeting(ns, n, inc, m)
  BY <1>0, <1>2, <1>3, GreetingsSent
<1>9. PICK list : list = Greetings(ns, n, inc) OBVIOUS
<1>10. /\ ns2 \in NodeMaps /\ Newcomer(ns, n, inc, ns2[n])
       /\ \A p \in Node \ {n} : IF ns[p] = Absent THEN ns2[p] = Absent ELSE Welcomes(ns, n, p, ns2[p])
  BY <1>0, <1>2, <1>3, NodeAdmitted
<1>11. ns2[n] # Absent
  <2>1. ns2[n] \in AnyNode BY <1>10 DEF Newcomer, AnyNode
  <2> QED BY <2>1 DEF Typed, AbsentIsNoNode
<1>12. ASSUME NEW m \in ToSet(list)
       PROVE  /\ DataHolds(h2, ns2, lv2, m.from, m.body) /\ ~IsHurt(m.body)
              /\ m.body.type = "FullSnapshot"
  <2>1. PICK p \in Node \ {n} : /\ ns[p] # Absent
                                /\ \/ m = Message(p, n, OwnSnapshot(ns[p].engine))
                                   \/ m = Message(n, p, OwnSnapshot(NewEngine(n, inc)))
    BY <1>8, <1>9, <1>12 DEF Greeting
  <2>2. CASE m = Message(p, n, OwnSnapshot(ns[p].engine))
    <3>1. Welcomes(ns, n, p, ns2[p]) /\ ns[p].engine \in Engines /\ ns[p].engine.id = p
      BY <1>3, <1>10, <2>1, NodeTyped
    <3>2. SameState(ns[p].engine, ns2[p].engine) BY <1>0, <3>1, JoinHandled DEF Welcomes
    <3>3. OwnSnapshot(ns2[p].engine) = OwnSnapshot(ns[p].engine)
      BY <3>1, <3>2, SameOwnSnapshot DEF SameState
    <3>4. ns2[p] # Absent
      <4>1. ns2[p] \in AnyNode BY <3>1 DEF Welcomes, AnyNode
      <4> QED BY <4>1 DEF Typed, AbsentIsNoNode
    <3>5. DataHolds(h2, ns2, lv2, p, OwnSnapshot(ns2[p].engine)) /\ ~IsHurt(OwnSnapshot(ns2[p].engine))
      BY <1>4, <1>10, <3>4, OwnBodiesHold
    <3>6. OwnSnapshot(ns[p].engine).type = "FullSnapshot" BY <1>0, <3>1, BodiesMade
    <3> QED BY <2>2, <3>3, <3>5, <3>6 DEF Message
  <2>3. CASE m = Message(n, p, OwnSnapshot(NewEngine(n, inc)))
    <3>1. NewEngine(n, inc) \in Engines /\ SameState(NewEngine(n, inc), ns2[n].engine)
      BY <1>0, <1>2, <1>10, EngineMade DEF Newcomer
    <3>2. OwnSnapshot(ns2[n].engine) = OwnSnapshot(NewEngine(n, inc))
      BY <3>1, SameOwnSnapshot DEF SameState
    <3>3. DataHolds(h2, ns2, lv2, n, OwnSnapshot(ns2[n].engine)) /\ ~IsHurt(OwnSnapshot(ns2[n].engine))
      BY <1>4, <1>10, <1>11, OwnBodiesHold
    <3>4. OwnSnapshot(NewEngine(n, inc)).type = "FullSnapshot" BY <1>0, <3>1, BodiesMade
    <3> QED BY <2>3, <3>2, <3>3, <3>4 DEF Message
  <2> QED BY <2>1, <2>2, <2>3
<1>13. MessagesHold(h2, ns2, lv2, ToSet(list)) BY <1>12 DEF MessagesHold
<1>14. PICK x : CallTaken(list, TRUE, x) BY <1>2, <1>8, <1>9, CallTold
<1>15. FramesHold(h2, ns2, lv2, ToSet(x.queue)) /\ Sound(Network)'
  <2>1. \A m \in ToSet(list) : TRUE => m.body.type # "RequestSnapshot" BY <1>12
  <2> QED BY <1>6, <1>7, <1>8, <1>9, <1>13, <1>14, <2>1, CallBase
<1>16. BaseHolds(h2)' BY <1>1, <1>4, <1>14, <1>15 DEF BaseHolds, CallTaken
<1> QED BY <1>1, <1>4, <1>15, <1>16 DEF BaseOn

\* remove_node and remove_node_hard keep what explains it all.
LEMMA LeaveTruth ==
    ASSUME Typed, TypeInv, NEW h, BaseHolds(h), Sound(Network), NEW n \in Node,
           RemoveNode(n) \/ RemoveNodeHard(n)
    PROVE  BaseOn(h)
<1>0. nodes \in NodeMaps /\ in_flight \in Seq(Frames) BY DEF TypeInv, NodesTyped, QueueTyped
<1>1. /\ nodes' = Left(nodes, n) /\ excused' = excused /\ lives' = lives
      /\ in_flight' = in_flight \/ in_flight' = DropInFlightFor(in_flight, n)
  BY DEF RemoveNode, RemoveNodeHard, Without, Left, testVars
<1>2. ToSet(in_flight') \in SUBSET ToSet(in_flight)
  <2>1. PICK q : q = in_flight OBVIOUS
  <2>2. \A S : ToSet(Only(q, S)) = ToSet(q) \cap S BY <1>0, <2>1, OnlyOf
  <2>3. ToSet(DropInFlightFor(q, n)) \in SUBSET ToSet(q) BY <2>2 DEF DropInFlightFor
  <2> QED BY <1>1, <2>1, <2>3
<1>3. PICK ns, lv, ns2 : ns = nodes /\ lv = lives /\ ns2 = nodes' OBVIOUS
<1>4. Truthful(h, ns, lv) /\ FramesHold(h, ns, lv, ToSet(in_flight)) BY <1>3 DEF BaseHolds
<1>5. Truthful(h, ns2, lv) /\ Onward(h, ns, lv, h, ns2, lv) BY <1>0, <1>1, <1>3, <1>4, LeftTruthful
<1>6. PICK F : F = ToSet(in_flight) OBVIOUS
<1>7. FramesHold(h, ns2, lv, F) BY <1>0, <1>3, <1>4, <1>5, <1>6, FramesOf, FramesOnward
<1>8. BaseHolds(h)' BY <1>1, <1>2, <1>3, <1>5, <1>6, <1>7 DEF BaseHolds, FramesHold
<1>9. Sound(Network)' BY <1>1, <1>2 DEF Sound, Network
<1> QED BY <1>1, <1>3, <1>5, <1>8, <1>9 DEF BaseOn

\* A mutation keeps what explains it all.
LEMMA MutationTruth ==
    ASSUME Typed, TypeInv, NEW h, BaseHolds(h), Sound(Network), NEW n \in Node, NEW c \in Change,
           NEW action, NEW b, NEW y, MutationTaken(n, c, action, b, y)
    PROVE  BaseOn(h)
<1>0. /\ nodes \in NodeMaps /\ in_flight \in Seq(Frames) /\ DataTyped /\ GarbageIsNoBody
  BY DEF TypeInv, NodesTyped, QueueTyped, Typed
<1>1. PICK ns, lv, ns2, e : ns = nodes /\ lv = lives /\ ns2 = nodes' /\ e = nodes[n].engine OBVIOUS
<1>2. /\ ns[n] # Absent /\ y \in MockNodes(n) /\ y.engine = AfterMutation(e, c, action)
      /\ ns2 = [ns EXCEPT ![n] = y] /\ lives' = lives
      /\ b = SnapshotBody(e, c) \/ b = DeltaBody(e, c, action)
  BY <1>1 DEF MutationTaken, testVars
<1>3. ns \in NodeMaps /\ Truthful(h, ns, lv) /\ FramesHold(h, ns, lv, ToSet(in_flight))
  BY <1>0, <1>1 DEF BaseHolds
<1>4. e \in Engines /\ e.id = n /\ ns[n].scheduled \in Seq(Timed(n)) /\ e = ns[n].engine BY <1>1, <1>2, <1>3, NodeTyped
<1>5. \A s \in ToSet(y.scheduled) : s \in ToSet(ns[n].scheduled) \/ s.body = SnapshotBody(e, c)
  <2> DEFINE t == [body |-> SnapshotBody(e, c), in |-> DelayInTicks]
  <2>1. y.scheduled = ns[n].scheduled \/ y.scheduled = Append(ns[n].scheduled, t)
    BY <1>1 DEF MutationTaken
  <2>2. t \in Timed(n) BY <1>0, <1>4, MutationMade, Timing DEF Timed
  <2>3. t.body = SnapshotBody(e, c) OBVIOUS
  <2> HIDE DEF t
  <2>4. ToSet(Append(ns[n].scheduled, t)) = ToSet(ns[n].scheduled) \cup {t} BY <1>4, <2>2, AppendedList
  <2> QED BY <2>1, <2>3, <2>4
<1>6. PICK h2 : /\ Truthful(h2, ns2, lv) /\ Onward(h, ns, lv, h2, ns2, lv)
                /\ DataHolds(h2, ns2, lv, n, SnapshotBody(e, c)) /\ ~IsHurt(SnapshotBody(e, c))
                /\ DataHolds(h2, ns2, lv, n, DeltaBody(e, c, action)) /\ ~IsHurt(DeltaBody(e, c, action))
  <2>1. \E h2 : MutationShown(h, ns, lv, h2, ns2, n, e, c, action)
    BY <1>2, <1>3, <1>4, <1>5, MutationTruthful
  <2> QED BY <2>1 DEF MutationShown
<1>7. PICK F : F = ToSet(in_flight) OBVIOUS
<1>8. FramesHold(h2, ns2, lv, F) BY <1>0, <1>3, <1>6, <1>7, FramesOf, FramesOnward
<1>9. CASE UNCHANGED <<in_flight, excused>>
  <2>1. BaseHolds(h2)' BY <1>1, <1>2, <1>6, <1>7, <1>8, <1>9 DEF BaseHolds
  <2>2. Sound(Network)' BY <1>9 DEF Sound, Network
  <2> QED BY <1>1, <1>2, <1>6, <2>1, <2>2 DEF BaseOn
<1>10. CASE Into(SendAll(Network, Broadcast(nodes, n, b), TRUE))
  <2>1. PICK list : list = Broadcast(nodes, n, b) OBVIOUS
  <2>2. list \in Seq(Messages) /\ \A m : m \in ToSet(list) <=> SentTo(ns, n, b, m)
    BY <1>0, <1>1, <2>1, MessagesOfMutation
  <2>3. b.type # "RequestSnapshot" BY <1>2, <1>4, MutationBodies DEF NewsOf, IsSync
  <2>4. \A m \in ToSet(list) : m.from = n /\ m.body = b BY <2>2 DEF SentTo, Message
  <2>5. MessagesHold(h2, ns2, lv, ToSet(list)) BY <1>2, <1>6, <2>4 DEF MessagesHold
  <2>6. PICK x : CallTaken(list, TRUE, x) BY <1>10, <2>1, <2>2, CallTold
  <2>7. FramesHold(h2, ns2, lv, ToSet(x.queue)) /\ Sound(Network)'
    <3>1. \A m \in ToSet(list) : TRUE => m.body.type # "RequestSnapshot" BY <2>3, <2>4
    <3> QED BY <1>7, <1>8, <2>2, <2>5, <2>6, <3>1, CallBase
  <2>8. BaseHolds(h2)' BY <1>1, <1>2, <1>6, <2>6, <2>7 DEF BaseHolds, CallTaken
  <2> QED BY <1>1, <1>2, <1>6, <2>7, <2>8 DEF BaseOn
<1> QED BY <1>9, <1>10 DEF MutationTaken

\* Requests and snapshots of a call that changes no node.
LEMMA SendTruth ==
    ASSUME Typed, TypeInv, NEW h, BaseHolds(h), Sound(Network), nodes' = nodes, lives' = lives,
           NEW n \in Node, nodes[n] # Absent,
           NEW list \in Seq(Messages), Into(SendAll(Network, list, FALSE)),
           \A m \in ToSet(list) : m.from = n /\ m.body \in {Request(nodes[n].engine), OwnSnapshot(nodes[n].engine)}
    PROVE  BaseOn(h)
<1>0. nodes \in NodeMaps BY DEF TypeInv, NodesTyped
<1>1. PICK ns, lv, e : ns = nodes /\ lv = lives /\ e = nodes[n].engine OBVIOUS
<1>2. ns \in NodeMaps /\ Truthful(h, ns, lv) /\ FramesHold(h, ns, lv, ToSet(in_flight)) /\ e = ns[n].engine
  BY <1>0, <1>1 DEF BaseHolds
<1>3. /\ DataHolds(h, ns, lv, n, OwnSnapshot(e)) /\ ~IsHurt(OwnSnapshot(e))
      /\ DataHolds(h, ns, lv, n, Request(e)) /\ ~IsHurt(Request(e))
  BY <1>1, <1>2, OwnBodiesHold
<1>4. MessagesHold(h, ns, lv, ToSet(list)) BY <1>1, <1>3 DEF MessagesHold
<1>5. PICK x : CallTaken(list, FALSE, x) BY CallTold
<1>6. FramesHold(h, ns, lv, ToSet(x.queue)) /\ Sound(Network)'
  <2>1. \A m \in ToSet(list) : FALSE => m.body.type # "RequestSnapshot" OBVIOUS
  <2> QED BY <1>2, <1>4, <1>5, <2>1, CallBase
<1>7. BaseHolds(h)' BY <1>1, <1>2, <1>5, <1>6 DEF BaseHolds, CallTaken
<1> QED BY <1>6, <1>7, OnwardSame DEF BaseOn

\* A tick sends what is true where its deliveries have left the nodes.
LEMMA TickMessages ==
    ASSUME Typed, TypeInv, NEW h, BaseHolds(h), NEW acc, NEW net, NEW run, TickRun(h, acc, net, run)
    PROVE  /\ Truthful(h, acc.nodes, lives) /\ acc.nodes \in NodeMaps /\ SameReach(nodes, lives, acc.nodes)
           /\ MessagesHold(h, acc.nodes, lives, ToSet(TickSends(acc)))
<1>0. /\ nodes \in NodeMaps /\ in_flight \in Seq(Frames) BY DEF TypeInv, NodesTyped, QueueTyped
<1>1. PICK ns, lv, frames, ms : ns = nodes /\ lv = lives /\ frames = Delivered(in_flight) /\ ms = acc.nodes OBVIOUS
<1>2. frames \in Seq(Arrivals) BY <1>0, <1>1, QueueParted
<1>3. Running(h, ns, lv, frames, acc) BY <1>1, <1>2 DEF TickRun
<1>4. Handled(ns, frames, acc) /\ Truthful(h, ms, lv) /\ SameReach(ns, lv, ms) /\ ms \in NodeMaps
  BY <1>1, <1>3 DEF Running, Handled
<1>5. Truthful(h, ns, lv) /\ ns \in NodeMaps BY <1>0, <1>1 DEF BaseHolds
<1>6. ASSUME NEW m \in ToSet(TickSends(acc)) PROVE DataHolds(h, ms, lv, m.from, m.body) /\ ~IsHurt(m.body)
  <2>1. \/ \E f \in ToSet(frames) : Answers(ns, f, m)
        \/ TimerSends(ms, m)
        \/ FeedSends(ms, m)
    BY <1>1, <1>6 DEF TickRun, TickTaken
  <2>2. CASE \E f \in ToSet(frames) : Answers(ns, f, m)
    <3>1. PICK f \in ToSet(frames) : Answers(ns, f, m) BY <2>2
    <3>2. f \in Arrivals BY <1>2 DEF ToSet
    <3>3. f.to \in Node BY <3>2, ArrivalTyped
    <3>4. ns[f.to] # Absent /\ m.from = f.to
          /\ m.body \in {OwnSnapshot(ns[f.to].engine), Request(ns[f.to].engine)}
      BY <3>1 DEF Answers
    <3>5. DataHolds(h, ns, lv, f.to, m.body) /\ ~IsHurt(m.body)
      BY <1>5, <3>3, <3>4, OwnBodiesHold
    <3> QED BY <1>4, <3>3, <3>4, <3>5, FramesReached
  <2>3. CASE TimerSends(ms, m)
    <3>1. m.from \in Node /\ ms[m.from] # Absent BY <2>3 DEF TimerSends
    <3>2. PICK s \in ToSet(ms[m.from].scheduled) : m.body = s.body BY <2>3 DEF TimerSends
    <3>3. NodeHolds(h, ms, lv, m.from) BY <1>4, <3>1 DEF Truthful
    <3> QED BY <3>2, <3>3 DEF NodeHolds
  <2>4. CASE FeedSends(ms, m)
    <3>1. /\ m.from \in Node /\ ms[m.from] # Absent /\ ms[m.from].engine.feed # NoGen
          /\ m.body = FeedBatch(ms[m.from].engine)
      BY <2>4 DEF FeedSends, Flushes
    <3> QED BY <1>4, <3>1, OwnBodiesHold
  <2> QED BY <2>1, <2>2, <2>3, <2>4
<1>7. MessagesHold(h, ms, lv, ToSet(TickSends(acc))) BY <1>6 DEF MessagesHold
<1> QED BY <1>1, <1>4, <1>7

\* The network a tick leaves before the clock moves on.
LEMMA TickTold ==
    ASSUME Typed, TypeInv, NEW acc, NEW net, TickTaken(acc, net)
    PROVE  /\ Added(Waiting, TickSends(acc), net)
           /\ Told(Waiting, TickSends(acc), Len(TickSends(acc)), net)
           /\ ToldFeeds(TickSends(acc), Len(TickSends(acc)), net)
           /\ Sound(Waiting) /\ Unhurt(TickSends(acc), FALSE) => Sound(net)
<1>1. PICK w, list : w = Waiting /\ list = TickSends(acc) OBVIOUS
<1>2. w \in Networks /\ list \in Seq(Messages) /\ net \in SendAll(w, list, FALSE) BY <1>1 DEF TickTaken
<1>3. GarbageIsNoBody /\ interceptors \in Seq(Interceptor) BY DEF Typed, TypeInv, TestTyped
<1>4. /\ Added(w, list, net)
      /\ ~FALSE => Told(w, list, Len(list), net) /\ ToldFeeds(list, Len(list), net)
      /\ Sound(w) /\ Unhurt(list, FALSE) => Sound(net)
  BY <1>2, <1>3, SendAllTold
<1> QED BY <1>1, <1>4

\* A tick keeps what explains it all.
LEMMA TickTruth ==
    ASSUME Typed, TypeInv, NEW h, BaseHolds(h), Sound(Network), Tick
    PROVE  BaseOn(h)
<1>0. /\ nodes \in NodeMaps /\ in_flight \in Seq(Frames) BY DEF TypeInv, NodesTyped, QueueTyped
<1>1. PICK acc, net, run : TickRun(h, acc, net, run) BY TickRuns
<1>2. TickTaken(acc, net) BY <1>1 DEF TickRun
<1>3. PICK ns, lv, ms, ms2, list : ns = nodes /\ lv = lives /\ ms = acc.nodes /\ ms2 = nodes' /\ list = TickSends(acc) OBVIOUS
<1>4. /\ Truthful(h, ms, lv) /\ ms \in NodeMaps /\ SameReach(ns, lv, ms)
      /\ MessagesHold(h, ms, lv, ToSet(list))
  BY <1>1, <1>3, TickMessages
<1>5. /\ ms2 \in NodeMaps /\ \A n \in Node : ms2[n] = IF ms[n] = Absent THEN Absent ELSE AfterTimers(ms, n)
      /\ lives' = lives
  BY <1>2, <1>3 DEF TickTaken, Tick
<1>6. Truthful(h, ms2, lv) /\ Onward(h, ms, lv, h, ms2, lv) BY <1>4, <1>5, TimersTruthful
<1>7. /\ Waiting.queue = StillWaiting(in_flight) /\ Waiting.excused = excused \cup Unheard
      /\ list \in Seq(Messages) /\ Grown(Waiting, list, net)
      /\ in_flight' = AdvanceTick(net.queue) /\ excused' = net.excused
      /\ \A f \in ToSet(net.queue) : f.due >= 1
  BY <1>2, <1>3 DEF TickTaken
<1>8. ToSet(Waiting.queue) \in SUBSET ToSet(in_flight) BY <1>0, <1>7, QueueParted
<1>9. FramesHold(h, ms, lv, ToSet(Waiting.queue))
  <2> SUFFICES ASSUME NEW f \in ToSet(in_flight) PROVE DataHolds(h, ms, lv, f.from, f.data)
    BY <1>8 DEF FramesHold
  <2>1. f.from \in Node BY <1>0, FramesOf DEF Frames
  <2>2. DataHolds(h, ns, lv, f.from, f.data) BY <1>3 DEF BaseHolds, FramesHold
  <2> QED BY <1>4, <2>1, <2>2, FramesReached
<1>10. PICK w : w = Waiting OBVIOUS
<1>11. FramesHold(h, ms, lv, ToSet(net.queue))
  BY <1>4, <1>7, <1>9, <1>10, GrownHolds DEF Typed
<1>12. net \in Networks /\ net.queue \in Seq(Frames) BY <1>7 DEF Grown, Networks
<1>13. PICK q : q = net.queue OBVIOUS
<1>14. FramesHold(h, ms2, lv, ToSet(q)) BY <1>4, <1>6, <1>11, <1>12, <1>13, FramesOf, FramesOnward
<1>15. \A f \in ToSet(AdvanceTick(q)) : \E g \in ToSet(q) : f.from = g.from /\ f.to = g.to /\ f.data = g.data
  BY <1>7, <1>12, <1>13, QueueAdvanced
<1>16. FramesHold(h, ms2, lv, ToSet(AdvanceTick(q))) BY <1>14, <1>15 DEF FramesHold
<1>17. BaseHolds(h)' BY <1>3, <1>5, <1>6, <1>7, <1>13, <1>16 DEF BaseHolds
<1>18. Sound(Waiting) BY <1>7, <1>8 DEF Sound, Network
<1>19. Unhurt(list, FALSE) BY <1>4 DEF Unhurt, MessagesHold
<1>20. Sound(net) BY <1>2, <1>3, <1>18, <1>19, TickTold
<1>21. Sound(Network)'
  <2>1. \A f \in ToSet(AdvanceTick(q)) : IsSync(f.data) /\ IsHurt(f.data) => <<f.to, f.from>> \in net.excused
    BY <1>13, <1>15, <1>20 DEF Sound
  <2> QED BY <1>7, <1>13, <2>1 DEF Sound, Network
<1>22. Onward(h, nodes, lives, h, nodes', lives')
  <2>1. \A p \in Node, g \in Generation : Reached(ns, lv, p, g) => Reached(ms, lv, p, g) BY <1>4 DEF SameReach, Reached
  <2> QED BY <1>3, <1>5, <1>6, <2>1 DEF Onward
<1> QED BY <1>17, <1>21, <1>22 DEF BaseOn

\* So does every step.
LEMMA StepTruth ==
    ASSUME Typed, TypeInv, NEW h, BaseHolds(h), Sound(Network), [Next]_vars
    PROVE  BaseOn(h)
<1>k. CASE nodes' = nodes /\ lives' = lives /\ in_flight' = in_flight /\ excused' = excused
  <2>1. BaseHolds(h)' BY <1>k DEF BaseHolds
  <2>2. Sound(Network)' BY <1>k DEF Sound, Network
  <2> QED BY <1>k, <2>1, <2>2, OnwardSame DEF BaseOn
<1>1. ASSUME NEW n \in Node, AddNode(n) PROVE BaseOn(h) BY <1>1, AddTruth
<1>2. ASSUME NEW n \in Node, RemoveNode(n) \/ RemoveNodeHard(n) PROVE BaseOn(h) BY <1>2, LeaveTruth
<1>3. ASSUME NEW n \in Node, NEW c \in Change, NEW u \in SyncUrgency, Mutate(n, c, u) \/ MutateWithDelta(n, c, u)
      PROVE  BaseOn(h)
  <2>1. DataTyped BY DEF Typed
  <2>2. PICK b, y : MutationTaken(n, c, ResolveAction(u), b, y) BY <1>3, <2>1, MutateUnfolds
  <2>3. PICK action : action = ResolveAction(u) OBVIOUS
  <2> QED BY <2>2, <2>3, MutationTruth
<1>4. ASSUME NEW n \in Node, NEW aged, Query(n, aged) PROVE BaseOn(h)
  <2> DEFINE out == [k \in DOMAIN Only(NodeOrder, Pulled(nodes[n].engine, aged)) |->
                       Message(n, Only(NodeOrder, Pulled(nodes[n].engine, aged))[k], Request(nodes[n].engine))]
  <2>1. nodes[n] # Absent /\ nodes' = nodes /\ lives' = lives /\ Into(SendAll(Network, out, FALSE))
    BY <1>4 DEF Query, testVars
  <2>2. /\ out \in Seq(Messages)
        /\ \A m : m \in ToSet(out) <=>
              \E p \in Node : p \in Pulled(nodes[n].engine, aged) /\ m = Message(n, p, Request(nodes[n].engine))
    BY <2>1, PulledSent DEF Typed
  <2> HIDE DEF out
  <2>3. PICK list : list = out OBVIOUS
  <2>4. \A m \in ToSet(list) : m.from = n /\ m.body \in {Request(nodes[n].engine), OwnSnapshot(nodes[n].engine)}
    BY <2>2, <2>3 DEF Message
  <2> QED BY <2>1, <2>2, <2>3, <2>4, SendTruth
<1>5. ASSUME NEW n \in Node, PeriodicSync(n) PROVE BaseOn(h)
  <2>1. PICK ns, b : ns = nodes /\ b = OwnSnapshot(nodes[n].engine) OBVIOUS
  <2>2. /\ nodes[n] # Absent /\ nodes' = nodes /\ lives' = lives
        /\ Into(SendAll(Network, Broadcast(ns, n, b), FALSE))
    BY <1>5, <2>1 DEF PeriodicSync, testVars
  <2>3. nodes[n].engine \in Engines /\ nodes[n].engine.id = n
    BY <2>1, <2>2, NodeTyped DEF TypeInv, NodesTyped
  <2>4. b \in Bodies /\ b.src = n BY <2>1, <2>3, BodiesMade DEF Typed
  <2>5. PICK list : list = Broadcast(ns, n, b) OBVIOUS
  <2>6. list \in Seq(Messages) /\ \A m : m \in ToSet(list) <=> SentTo(ns, n, b, m)
    BY <2>4, <2>5, BroadcastSent
  <2>7. \A m \in ToSet(list) : m.from = n /\ m.body \in {Request(nodes[n].engine), OwnSnapshot(nodes[n].engine)}
    BY <2>1, <2>6 DEF SentTo, Message
  <2> QED BY <2>2, <2>5, <2>6, <2>7, SendTruth
<1>6. CASE (\E i \in Interceptor : AddInterceptor(i)) \/ ClearInterceptors
  BY <1>6, <1>k DEF AddInterceptor, ClearInterceptors
<1>7. CASE Tick BY <1>7, TickTruth
<1>8. CASE UNCHANGED vars BY <1>8, <1>k DEF vars
<1>9. CASE \E n \in Node : AddNode(n) \/ RemoveNode(n) \/ RemoveNodeHard(n) BY <1>1, <1>2, <1>9
<1>10. CASE \E n \in Node, c \in Change, u \in SyncUrgency : Mutate(n, c, u) \/ MutateWithDelta(n, c, u)
  BY <1>3, <1>10
<1>11. CASE \E n \in Node : PeriodicSync(n) \/ \E aged \in {{}, Node} : Query(n, aged)
  BY <1>4, <1>5, <1>11
<1> QED BY <1>6, <1>7, <1>8, <1>9, <1>10, <1>11 DEF Next

\* Every step keeps BaseInv.
LEMMA StepBase ==
    ASSUME Typed, TypeInv, BaseInv, [Next]_vars
    PROVE  BaseInv'
<1>0. PICK h : BaseHolds(h) BY DEF BaseInv
<1>1. BaseOn(h) BY <1>0, StepTruth DEF BaseInv
<1> QED BY <1>1 DEF BaseOn, BaseInv

\* A cluster with_test_state has built begins with BaseInv.
LEMMA InitBase ==
    ASSUME Typed, Init PROVE BaseInv
<1>1. PICK ns, sent : ns = Built.nodes /\ sent = Built.sent OBVIOUS
<1>2. nodes = ns /\ lives = [n \in Node |-> 1] /\ excused = {}
      /\ in_flight = [k \in DOMAIN sent |-> Frame(sent[k].from, sent[k].to, sent[k].body, 1)]
  BY <1>1, Zenon DEF Init, Built
<1>3. Fresh(Node, Built) BY BuiltFresh DEF Typed
<1>4. /\ ns \in NodeMaps /\ \A n \in Node : ns[n] # Absent /\ FreshAt(Node, n, ns[n])
      /\ sent \in Seq(Messages) /\ \A m : m \in ToSet(sent) <=> FirstGreeting(Node, m)
  BY <1>1, <1>3 DEF Fresh
<1>5. PICK lv : lv = lives OBVIOUS
<1>6. PICK h : Truthful(h, ns, lv) BY <1>2, <1>4, <1>5, BuiltTruthful
<1>7. ASSUME NEW f \in ToSet(in_flight) PROVE DataHolds(h, ns, lv, f.from, f.data) /\ ~IsHurt(f.data)
  <2>1. PICK k \in DOMAIN sent : f = Frame(sent[k].from, sent[k].to, sent[k].body, 1)
    BY <1>2, <1>7 DEF ToSet
  <2>2. FirstGreeting(Node, sent[k]) BY <1>4, <2>1 DEF ToSet
  <2>3. PICK p \in Node, q \in Node : sent[k] = Message(p, q, OwnSnapshot(NewEngine(p, 1)))
    BY <2>2 DEF FirstGreeting
  <2>4. NewEngine(p, 1) \in Engines /\ SameState(NewEngine(p, 1), ns[p].engine)
    BY <1>4, EngineMade DEF FreshAt, Typed
  <2>5. OwnSnapshot(ns[p].engine) = OwnSnapshot(NewEngine(p, 1))
    BY <2>4, SameOwnSnapshot DEF SameState
  <2>6. DataHolds(h, ns, lv, p, OwnSnapshot(ns[p].engine)) /\ ~IsHurt(OwnSnapshot(ns[p].engine))
    BY <1>4, <1>6, OwnBodiesHold
  <2> QED BY <2>1, <2>3, <2>5, <2>6 DEF Frame, Message
<1>8. BaseHolds(h) BY <1>2, <1>5, <1>6, <1>7 DEF BaseHolds, FramesHold
<1>9. Sound(Network) BY <1>7 DEF Sound, Network
<1> QED BY <1>8, <1>9 DEF BaseInv

=============================================================================
