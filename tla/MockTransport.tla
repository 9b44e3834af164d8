--------------------------- MODULE MockTransport ---------------------------
(***************************************************************************)
(* `MockTransport` (dstate-integration/src/transport.rs) and the built-in  *)
(* interceptors (interceptor.rs): a queue of serialized messages and a     *)
(* pipeline that drops, delays, repeats or corrupts them on their way in.  *)
(*                                                                         *)
(* Ticks are relative: a frame is `due` that many ticks from now.  The      *)
(* seeded hash (splitmix64) is a free choice per message: it takes the     *)
(* message's number, so all copies of a message share one fate, which is   *)
(* what a Fate below records.                                              *)
(***************************************************************************)
EXTENDS Integers, Sequences, SequencesExt

CONSTANTS
    Garbage,            \* bytes that do not decode to a WireMessage
    BitFlipped(_)       \* what the bytes of a message may read as, one bit off

\* The built-in interceptors.
PassThrough == [kind |-> "PassThrough"]
DropAll == [kind |-> "DropAll"]
DropRate == [kind |-> "DropRate"]
Partition(a, b, asymmetric) ==
    [kind |-> "Partition", a |-> a, b |-> b, asymmetric |-> asymmetric]
DelayTicks(ticks) == [kind |-> "DelayTicks", ticks |-> ticks]
DuplicateAll == [kind |-> "DuplicateAll"]
CorruptBytes == [kind |-> "CorruptBytes"]

\* Where a message stands in the pipeline: the bytes, how many copies are left
\* (none: it was dropped), and the extra ticks, once it is held.
Arriving(data) == [data |-> data, copies |-> 1, held |-> FALSE, ticks |-> 0]

Dropped(fate) == [fate EXCEPT !.copies = 0]

Separates(i, from, to) ==
    \/ from \in i.a /\ to \in i.b
    \/ ~i.asymmetric /\ from \in i.b /\ to \in i.a

\* intercept of the one interceptor i; a held message has left the pipeline.
Intercept(i, from, to, fate) ==
    CASE fate.held \/ i.kind = "PassThrough" -> {fate}
      [] ~fate.held /\ i.kind = "DropAll" -> {Dropped(fate)}
      [] ~fate.held /\ i.kind = "DropRate" -> {fate, Dropped(fate)}
      [] ~fate.held /\ i.kind = "Partition" ->
            {IF Separates(i, from, to) THEN Dropped(fate) ELSE fate}
      [] ~fate.held /\ i.kind = "DelayTicks" ->
            {[fate EXCEPT !.held = TRUE, !.ticks = i.ticks]}
      [] ~fate.held /\ i.kind = "DuplicateAll" ->
            {[fate EXCEPT !.copies = 2 * @]}
      [] ~fate.held /\ i.kind = "CorruptBytes" ->
            {[fate EXCEPT !.data = d] : d \in BitFlipped(fate.data)}

\* apply_interceptors: the pipeline in its order, empty or not.
ApplyInterceptors(interceptors, from, to, data) ==
    LET Step(fates, i) == UNION {Intercept(i, from, to, f) : f \in fates}
    IN  FoldLeft(Step, {Arriving(data)}, interceptors)

-----------------------------------------------------------------------------
\* SelectSeq with a set for a test: what of a list belongs to S, in its order.
Only(list, S) ==
    LET only[k \in 0 .. Len(list)] ==
            IF k = 0 THEN <<>>
            ELSE IF list[k] \in S THEN Append(only[k - 1], list[k])
            ELSE only[k - 1]
    IN  only[Len(list)]

Frame(from, to, data, due) == [from |-> from, to |-> to, data |-> data, due |-> due]

\* send_bytes: what a message of the given fate adds to the queue; the
\* baseline latency is one tick.
Queued(from, to, fate) ==
    [k \in 1 .. fate.copies |-> Frame(from, to, fate.data, 1 + fate.ticks)]

\* Mutated form: a frame waits until its tick is over.
IsDueLate(frame) == frame.due < 0

\* deliver_due takes the frames whose tick has come, hands over those that
\* decode, in the order they were queued, and leaves the others waiting.
IsDue(frame) == frame.due <= 0

Delivered(in_flight) ==
    Only(in_flight, {f \in ToSet(in_flight) : IsDue(f) /\ f.data # Garbage})

StillWaiting(in_flight) ==
    Only(in_flight, {f \in ToSet(in_flight) : ~IsDue(f)})

\* Mutated form: the tick a frame waits for does not come closer.
AdvanceTickStill(in_flight) == in_flight

AdvanceTick(in_flight) ==
    [k \in DOMAIN in_flight |-> [in_flight[k] EXCEPT !.due = @ - 1]]

\* Mutated form: frames on their way to the node stay.
DropInFlightFrom(in_flight, n) ==
    Only(in_flight, {f \in ToSet(in_flight) : f.from # n})

DropInFlightFor(in_flight, n) ==
    Only(in_flight, {f \in ToSet(in_flight) : f.from # n /\ f.to # n})

=============================================================================
