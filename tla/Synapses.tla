------------------------------- MODULE Synapses -------------------------------
(***************************************************************************)
(* The inner network of the vital organ (synapse_network.c): nodes that    *)
(* fire above their threshold and then rest, weighted links between them,  *)
(* Hebbian learning with a scaling that damps the whole network, and the   *)
(* export and import of the links.                                         *)
(*                                                                         *)
(* The limits of the code are CONSTANTS, so that a small instance meets    *)
(* them.  fire_count is a statistic; its place is taken by the time since  *)
(* the node last fired.                                                    *)
(***************************************************************************)
EXTENDS Integers, SequencesExt

CONSTANTS
    Ids, Thresholds,          \* the ids and thresholds of the nodes added
    Weights, Plasticities,    \* the weights and plasticities of the links made
    Signals,                  \* what other layers stimulate nodes with
    MaxNodes, MaxLinks,       \* SYNAPSE_MAX_NODES, SYNAPSE_MAX_LINKS
    ActivationTop, ActivationFloor,    \* 127, -128
    WeightTop, DepressionFloor,        \* 127, -120
    RestTicks,                \* the refractory period, 3
    ScaleAbove, ScaleTo,      \* 1000, 950
    PlasticityUnit,           \* 32
    LinkRooms                 \* the links for which there is room in the image

ASSUME SynapsesAssumption ==
    /\ Thresholds \subseteq Int /\ Signals \subseteq Int /\ Plasticities \subseteq Nat
    /\ ActivationFloor \in Int /\ ActivationTop \in Nat /\ ActivationFloor < 0
    /\ {MaxNodes, MaxLinks, WeightTop, RestTicks, ScaleAbove, ScaleTo} \subseteq Nat
    /\ Weights \subseteq -(WeightTop + 1) .. WeightTop
    /\ DepressionFloor \in -(WeightTop + 1) .. 0
    /\ ScaleTo <= ScaleAbove
    /\ PlasticityUnit \in Nat \ {0} /\ LinkRooms \subseteq Nat

VARIABLES
    nodes,    \* nodes[0 .. node_count - 1]
    links,    \* links[0 .. link_count - 1]
    fired     \* recently_fired, as the set of the positions of the nodes

synapsesVars == <<nodes, links, fired>>

SynapsesInit ==
    /\ nodes = <<>>
    /\ links = <<>>
    /\ fired = {}

Positions(seq) == [k \in 1 .. Len(seq) |-> k]

\* synapse_add_node: a node at rest.
Fresh(id, th) ==
    [id |-> id, activation |-> 0, threshold |-> th, refractory |-> 0, since |-> RestTicks + 1]

AddNode(id, th) ==
    /\ Len(nodes) < MaxNodes
    /\ nodes' = Append(nodes, Fresh(id, th))
    /\ UNCHANGED <<links, fired>>

Connect(from, to, w, pl) ==
    /\ Len(links) < MaxLinks
    /\ links' = Append(links, [from |-> from, to |-> to, weight |-> w, plasticity |-> pl])
    /\ UNCHANGED <<nodes, fired>>

\* find_node: the first node of that id; synapse_hebbian_learning takes the last.
Bearers(ns, id) == {k \in 1 .. Len(ns) : ns[k].id = id}
FirstOf(ns, id) == Min(Bearers(ns, id))
LastOf(ns, id) == Max(Bearers(ns, id))

Saturated(a) ==
    IF a > ActivationTop THEN ActivationTop
    ELSE IF a < ActivationFloor THEN ActivationFloor ELSE a

\* synapse_stimulate.
Stimulated(ns, id, signal) ==
    IF Bearers(ns, id) = {} THEN ns
    ELSE [ns EXCEPT ![FirstOf(ns, id)].activation = Saturated(@ + signal)]

Stimulate(id, signal) ==
    /\ nodes' = Stimulated(nodes, id, signal)
    /\ UNCHANGED <<links, fired>>

----------------------------------------------------------------------------
\* Natural decay, by one towards zero.
Decayed(a) == IF a > 0 THEN a - 1 ELSE IF a < 0 THEN a + 1 ELSE a

\* The firing of node k: every link from its id stimulates its target.
Transmitted(ns, k) ==
    LET pass(acc, l) == IF l.from = ns[k].id THEN Stimulated(acc, l.to, l.weight) ELSE acc
    IN  FoldLeft(pass, ns, links)

Older(n) == IF n > RestTicks THEN n ELSE n + 1

\* Mutant: a resting node still fires when it is stimulated enough.
VisitRestless(acc, k) ==
    LET n == acc.nodes[k]
        fires == n.activation >= n.threshold
        ns == IF fires
              THEN Transmitted([acc.nodes EXCEPT ![k].refractory = RestTicks, ![k].since = 0], k)
              ELSE [acc.nodes EXCEPT ![k].since = Older(@)]
    IN  [nodes |-> [ns EXCEPT ![k].activation = Decayed(@)],
         fired |-> IF fires THEN acc.fired \union {k} ELSE acc.fired]

\* One node of synapse_propagate.  Nodes are visited in order: what an earlier node
\* transmits counts for a later one in the same tick.
Visit(acc, k) ==
    LET n == acc.nodes[k]
        fires == n.activation >= n.threshold
        ns == IF fires
              THEN Transmitted([acc.nodes EXCEPT ![k].refractory = RestTicks, ![k].since = 0], k)
              ELSE [acc.nodes EXCEPT ![k].since = Older(@)]
    IN  IF n.refractory > 0
        THEN [acc EXCEPT !.nodes[k].refractory = @ - 1, !.nodes[k].since = Older(@)]
        ELSE [nodes |-> [ns EXCEPT ![k].activation = Decayed(@)],
              fired |-> IF fires THEN acc.fired \union {k} ELSE acc.fired]

Propagated == FoldLeft(Visit, [nodes |-> nodes, fired |-> {}], Positions(nodes))

----------------------------------------------------------------------------
Attached(ns, l) == Bearers(ns, l.from) # {} /\ Bearers(ns, l.to) # {}

\* The reinforcement of a link whose ends fired together, the depression of one whose
\* source fired alone.
Learned(ns, fs, l) ==
    LET r == (l.plasticity \div PlasticityUnit) + 1
        both == LastOf(ns, l.from) \in fs /\ LastOf(ns, l.to) \in fs
        alone == LastOf(ns, l.from) \in fs /\ LastOf(ns, l.to) \notin fs
    IN  IF ~Attached(ns, l) THEN l
        ELSE IF both
        THEN [l EXCEPT !.weight = IF @ < WeightTop - r THEN @ + r ELSE WeightTop]
        ELSE IF alone /\ l.weight > DepressionFloor
        THEN [l EXCEPT !.weight = @ - 1]
        ELSE l

Abs(w) == IF w < 0 THEN -w ELSE w

\* Excitation of the network: the links whose two ends exist.
Excitation(ns, ls) ==
    LET add(sum, l) == IF Attached(ns, l) THEN sum + Abs(l.weight) ELSE sum
    IN  FoldLeft(add, 0, ls)

\* C's division, towards zero.
Quotient(a, b) == IF a < 0 THEN -((-a) \div b) ELSE a \div b

\* Mutant: inhibiting links are left as they are.
ScaledExciting(w, total) ==
    IF total > ScaleAbove /\ w > 0 THEN Quotient(w * ScaleTo, total) ELSE w

\* Synaptic scaling of one weight.
Scaled(w, total) == IF total > ScaleAbove THEN Quotient(w * ScaleTo, total) ELSE w

\* synapse_hebbian_learning.
Rewired(ns, fs) ==
    LET ls == [k \in 1 .. Len(links) |-> Learned(ns, fs, links[k])]
        total == Excitation(ns, ls)
    IN  [k \in 1 .. Len(links) |-> [ls[k] EXCEPT !.weight = Scaled(@, total)]]

\* Layer 9 of the heartbeat: propagation, then learning.
Tick ==
    LET p == Propagated
    IN  /\ nodes' = p.nodes
        /\ fired' = p.fired
        /\ links' = Rewired(p.nodes, p.fired)

\* synapse_export_links cuts at the room it is given, in whole links here.
Exported(room) == SubSeq(links, 1, IF Len(links) > room THEN room ELSE Len(links))

\* A restart after a save: the network is built again and synapse_import_links takes
\* the exported links.  Beats between the save and the restart leave no trace.
Restore(room) ==
    /\ nodes' = [k \in 1 .. Len(nodes) |-> Fresh(nodes[k].id, nodes[k].threshold)]
    /\ links' = Exported(room)
    /\ fired' = {}

SynapsesNext ==
    \/ \E id \in Ids, th \in Thresholds : AddNode(id, th)
    \/ \E from, to \in Ids, w \in Weights, pl \in Plasticities : Connect(from, to, w, pl)
    \/ \E id \in Ids, s \in Signals : Stimulate(id, s)
    \/ Tick
    \/ \E room \in LinkRooms : Restore(room)

SynapsesSpec == SynapsesInit /\ [][SynapsesNext]_synapsesVars

----------------------------------------------------------------------------
\* A node that fired rests: whatever its activation, and whoever stimulates it in
\* the meantime, it fires again no earlier than RestTicks + 1 ticks later.
RestsAfterFiring ==
    [][Tick => \A k \in fired' : nodes[k].since >= RestTicks]_synapsesVars

\* Learning never leaves the network over-excited: after a tick the weights of the
\* attached links add up to no more than the threshold of the scaling, although each
\* of them grew within its own limits, and no weight has left its range.
NeverOverexcited ==
    [][Tick => /\ Excitation(nodes', links') <= ScaleAbove
               /\ \A k \in 1 .. Len(links') :
                    links'[k].weight \in -(WeightTop + 1) .. WeightTop]_synapsesVars
=============================================================================
