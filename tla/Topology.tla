------------------------------ MODULE Topology -------------------------------
(* The graph of the topology view (webfs/web/ui/js/topology.js): a node for   *)
(* the controller and one for each worker, edges between them, and a loop of  *)
(* animation frames that draws them.  Nodes are found by their id, and a      *)
(* worker's id is its name, so two workers may share one and a worker may     *)
(* have the controller's.  A place is the number of a slot on the circle, 0   *)
(* for the centre; the pointer is over one place at most.                     *)
EXTENDS Naturals, Sequences, FiniteSets

CONSTANTS Workers,   \* the records of workers the page may receive
          NodeId     \* the name of each

Controller == "controller"

ASSUME WorkersAssumption == Controller \notin Workers /\ DOMAIN NodeId = Workers

VARIABLES nodes,          \* the nodes in drawing order: id, and the device meant
          places,         \* x and y of those nodes that have them
          nodePositions,  \* for an id, the index of its node
          animation       \* "none": animationId is null; "frozen": it is set,
                          \* but no frame will come

topologyVars == <<nodes, places, nodePositions, animation>>

TopologyInit ==
  /\ nodes = <<>>
  /\ places = [i \in {} |-> 0]
  /\ nodePositions = [d \in {} |-> 0]
  /\ animation = "none"
-----------------------------------------------------------------------------
(* update and layoutNodes.                                                  *)

Nodes(workers) ==
  <<[id |-> Controller, device |-> Controller]>>
    \o [i \in 1 .. Len(workers) |-> [id |-> NodeId[workers[i]], device |-> workers[i]]]

\* The nodes that layoutNodes places: the first one with the controller's id,
\* and all that have another id.
Placed(ns) == {1} \cup {i \in 2 .. Len(ns) : ns[i].id # Controller}

\* The workers that are placed go round the circle in their order.
Places(ns) ==
  [i \in Placed(ns) |-> IF i = 1 THEN 0 ELSE Cardinality({j \in Placed(ns) : j < i})]

PositionsKept(ns) ==                 \* keeps what earlier lists have left
  [d \in DOMAIN nodePositions \cup {ns[i].id : i \in Placed(ns)} |->
     IF d \in DOMAIN nodePositions
       THEN nodePositions[d]
       ELSE CHOOSE i \in Placed(ns) : ns[i].id = d]

\* The last of the nodes that share an id is the one found by it.
Positions(ns) ==
  [d \in {ns[i].id : i \in Placed(ns)} |->
     CHOOSE i \in Placed(ns) : ns[i].id = d /\ \A j \in Placed(ns) : ns[j].id = d => j <= i]

UpdateWithoutLayout(workers) ==      \* drops this.layoutNodes()
  /\ nodes' = Nodes(workers)
  /\ places' = [i \in {} |-> 0]
  /\ UNCHANGED nodePositions

update(workers) ==
  /\ nodes' = Nodes(workers)
  /\ places' = Places(nodes')
  /\ nodePositions' = Positions(nodes')
-----------------------------------------------------------------------------
(* Drawing.  drawNode throws on a node without a place: the gradient refuses  *)
(* coordinates that are not numbers.                                          *)

Drawable(ns, ps) == \A i \in 1 .. Len(ns) : i \in DOMAIN ps

\* startAnimation on the nodes ns: it draws at once, before animationId is set.
startAnimation(ns, ps) ==
  animation' = IF animation = "none" /\ Drawable(ns, ps) THEN "running" ELSE animation

StartThrows(ns, ps) == animation = "none" /\ ~Drawable(ns, ps)

\* A frame draws and then asks for the next one.
animate ==
  /\ animation = "running"
  /\ animation' = IF Drawable(nodes, places) THEN "running" ELSE "frozen"
  /\ UNCHANGED <<nodes, places, nodePositions>>

\* drawEdge: where the edge of a worker's node ends, 0 if it is not drawn.
EdgeEnd(i) ==
  IF {Controller, nodes[i].id} \subseteq DOMAIN nodePositions
    THEN nodePositions[nodes[i].id] ELSE 0

GetNodeById(p) ==                    \* looks the id up in nodePositions
  {nodePositions[nodes[i].id] : i \in {j \in DOMAIN places : places[j] = p}}

\* The first node at a place, if there is one.
getNodeAtPosition(p) ==
  {i \in DOMAIN places : places[i] = p /\ \A j \in DOMAIN places : places[j] = p => i <= j}
-----------------------------------------------------------------------------
TopologyTypeOK ==
  /\ nodes \in Seq([id : {Controller} \cup {NodeId[w] : w \in Workers},
                    device : {Controller} \cup Workers])
  /\ DOMAIN places \subseteq 1 .. Len(nodes)
  /\ \A i \in DOMAIN places : places[i] \in Nat
  /\ \A d \in DOMAIN nodePositions : nodePositions[d] \in 1 .. Len(nodes)
  /\ animation \in {"none", "running", "frozen"}

\* A worker whose name no other node has is joined to the controller by an edge
\* that ends at its own node, and no two nodes are drawn on one another
\* (update, layoutNodes, drawEdge).
NamedApartIsJoined ==
  /\ \A i \in 2 .. Len(nodes) :
       (\A j \in 1 .. Len(nodes) : nodes[j].id = nodes[i].id => j = i) => EdgeEnd(i) = i
  /\ \A i, j \in DOMAIN places : places[i] = places[j] => i = j
=============================================================================
