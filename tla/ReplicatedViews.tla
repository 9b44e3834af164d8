--------------------------- MODULE ReplicatedViews ---------------------------
(***************************************************************************)
(* What dstate promises a reader of the view map, without the protocol:    *)
(* each node publishes a growing sequence of versions of its view, and     *)
(* every other node holds nothing, a placeholder, or a copy of one version *)
(* the owner really published.  A copy is only ever replaced by a newer    *)
(* version, though it may be forgotten.  Nothing is said of when copies    *)
(* are taken.                                                              *)
(***************************************************************************)
EXTENDS Generations

CONSTANTS Node, NoCopy, DefaultView

VARIABLES
    published,  \* the versions published so far
    copy        \* copy[n][p]: the generation and value n holds of p

vars == <<published, copy>>

Blank == [gen |-> Zero, value |-> DefaultView]

CopyOf(h) == [gen |-> h.gen, value |-> h.view]

\* p publishes a version newer than all it published before.
Publishes(p) ==
    \E h \in published' :
        /\ h.node = p
        /\ \A k \in published : k.node = p => Lt(k.gen, h.gen)
        /\ published' = published \cup {h}

Publish(p) == Publishes(p) /\ UNCHANGED copy

\* p starts anew: it holds no copies and publishes its first version.
StartAnew(p) ==
    /\ Publishes(p)
    /\ copy' = [copy EXCEPT ![p] = [q \in Node |-> NoCopy]]

Learn(n, p) ==
    \E h \in published :
        /\ h.node = p
        /\ copy[n][p] # NoCopy => Lt(copy[n][p].gen, h.gen)
        /\ copy' = [copy EXCEPT ![n][p] = CopyOf(h)]
        /\ UNCHANGED published

Introduce(n, p) ==
    /\ copy[n][p] = NoCopy
    /\ copy' = [copy EXCEPT ![n][p] = Blank]
    /\ UNCHANGED published

Forget(n, p) ==
    /\ copy' = [copy EXCEPT ![n][p] = NoCopy]
    /\ UNCHANGED published

Init ==
    /\ \A h, k \in published : h.node = k.node => h = k
    /\ copy = [n \in Node |-> [p \in Node |-> NoCopy]]

Next ==
    \/ \E p \in Node : Publish(p) \/ StartAnew(p)
    \/ \E n, p \in Node : n # p /\ (Learn(n, p) \/ Introduce(n, p) \/ Forget(n, p))

Spec == Init /\ [][Next]_vars

=============================================================================
