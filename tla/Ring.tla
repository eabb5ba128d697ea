-------------------------------- MODULE Ring --------------------------------
(***************************************************************************)
(* The consistent-hash ring: every node has VnodeCount points on a circle  *)
(* of hash values and a key belongs to the first point at or after its     *)
(* own hash.  Each process of the cluster builds its ring by itself, its   *)
(* own node first and then its peers, so several rings are modelled side   *)
(* by side over the same hash functions.                                   *)
(*                                                                         *)
(* The hash of a virtual node is any function, chosen in the initial       *)
(* state; a key is represented by its hash.  A Node is the pair of its ID  *)
(* and its address: adding an ID again replaces the Node.                  *)
(***************************************************************************)
EXTENDS Integers, Sequences, SequencesExt, FiniteSets, TLC

CONSTANTS Processes,    \* the owners of the rings
          Ids,          \* node IDs
          Addrs,        \* addresses
          VnodeCount,   \* virtual nodes per node
          HashSize,     \* number of hash values
          Collisions,   \* TRUE: two virtual nodes may have the same hash
          None

VARIABLES vnodeHash,    \* hash of the i-th virtual node of an ID
          points,       \* per process: the sorted hash values
          nodeByHash,   \* per process: hash value -> Node
          nodes         \* per process: the registered Nodes

vars == <<vnodeHash, points, nodeByHash, nodes>>

Hashes == 0..HashSize - 1
Nodes == [id : Ids, addr : Addrs]
Vnodes(id) == {vnodeHash[id, i] : i \in 1..VnodeCount}
IdsOf(p) == {n.id : n \in nodes[p]}

HashFunctions == LET all == [Ids \X (1..VnodeCount) -> Hashes]
                 IN  IF Collisions THEN all ELSE {f \in all : IsInjective(f)}

TypeOK ==
    /\ vnodeHash \in HashFunctions
    /\ points \in [Processes -> Seq(Hashes)]
    /\ \A p \in Processes :
          /\ DOMAIN nodeByHash[p] \subseteq Hashes
          /\ nodes[p] \subseteq Nodes
          /\ Cardinality(IdsOf(p)) = Cardinality(nodes[p])
          /\ \A i \in 1..Len(points[p]) - 1 : points[p][i] <= points[p][i + 1]

Init ==
    /\ vnodeHash \in HashFunctions
    /\ points = [p \in Processes |-> <<>>]
    /\ nodeByHash = [p \in Processes |-> <<>>]
    /\ nodes = [p \in Processes |-> {}]

-----------------------------------------------------------------------------
Without(f, S) == [h \in DOMAIN f \ S |-> f[h]]

(* removeNodeLocked on the maps: the slots of the node's hashes go. *)
Slots(p, id) == IF id \in IdsOf(p) THEN Without(nodeByHash[p], Vnodes(id)) ELSE nodeByHash[p]

(* ... and on the points: those without a slot are filtered out. *)
Kept(p, id) == SelectSeq(points[p], LAMBDA h : h \in DOMAIN Slots(p, id))

Others(p, id) == {n \in nodes[p] : n.id # id}

VnodeSeq(id) == [i \in 1..VnodeCount |-> vnodeHash[id, i]]

(* Mutant: the points are appended and not sorted. *)
AddNodeUnsorted(p, n) ==
    /\ nodes' = [nodes EXCEPT ![p] = Others(p, n.id) \cup {n}]
    /\ nodeByHash' = [nodeByHash EXCEPT ![p] = [h \in Vnodes(n.id) |-> n] @@ Slots(p, n.id)]
    /\ points' = [points EXCEPT ![p] = Kept(p, n.id) \o VnodeSeq(n.id)]
    /\ UNCHANGED vnodeHash

AddNode(p, n) ==
    /\ nodes' = [nodes EXCEPT ![p] = Others(p, n.id) \cup {n}]
    /\ nodeByHash' = [nodeByHash EXCEPT ![p] = [h \in Vnodes(n.id) |-> n] @@ Slots(p, n.id)]
    /\ points' = [points EXCEPT ![p] = SortSeq(Kept(p, n.id) \o VnodeSeq(n.id), LAMBDA a, b : a < b)]
    /\ UNCHANGED vnodeHash

(* Mutant: one virtual node of the removed node stays on the ring. *)
RemoveNodeShort(p, id) ==
    /\ id \in IdsOf(p)
    /\ nodes' = [nodes EXCEPT ![p] = Others(p, id)]
    /\ nodeByHash' = [nodeByHash EXCEPT ![p] = Without(@, Vnodes(id) \ {vnodeHash[id, 1]})]
    /\ points' = [points EXCEPT ![p] = SelectSeq(@, LAMBDA h : h \in DOMAIN nodeByHash'[p])]
    /\ UNCHANGED vnodeHash

(* An ID that is not registered is ignored. *)
RemoveNode(p, id) ==
    /\ id \in IdsOf(p)
    /\ nodes' = [nodes EXCEPT ![p] = Others(p, id)]
    /\ nodeByHash' = [nodeByHash EXCEPT ![p] = Slots(p, id)]
    /\ points' = [points EXCEPT ![p] = Kept(p, id)]
    /\ UNCHANGED vnodeHash

(* Mutant: past the last point the search does not wrap around. *)
LookupLast(ps, slots, h) ==
    LET idx == Cardinality({i \in DOMAIN ps : ps[i] < h}) + 1
    IN  IF ps = <<>> THEN None ELSE slots[ps[IF idx > Len(ps) THEN Len(ps) ELSE idx]]

(* The binary search for the first point >= h, wrapping to the first; an    *)
(* empty ring has no answer.                                                *)
Lookup(ps, slots, h) ==
    LET idx == Cardinality({i \in DOMAIN ps : ps[i] < h}) + 1
    IN  IF ps = <<>> THEN None ELSE slots[ps[IF idx > Len(ps) THEN 1 ELSE idx]]

Next == \E p \in Processes :
           \/ \E n \in Nodes : AddNode(p, n)
           \/ \E id \in Ids : RemoveNode(p, id)

Spec == Init /\ [][Next]_vars

-----------------------------------------------------------------------------
(* How far clockwise hash value g is from h. *)
Distance(h, g) == (g - h + HashSize) % HashSize

(* Lookup returns the registered Node, with the address it was last added   *)
(* with, that has the nearest virtual node clockwise: binary search, wrap-  *)
(* around, replacement and removal together leave no gap and nothing stale  *)
(* (Lookup, AddNode, removeNodeLocked).                                     *)
LookupIsNearest ==
    \A p \in Processes : nodes[p] # {} => \A h \in Hashes :
        LET n == Lookup(points[p], nodeByHash[p], h)
        IN  /\ n \in nodes[p]
            /\ \E g \in Vnodes(n.id) : \A m \in nodes[p] : \A k \in Vnodes(m.id) :
                  Distance(h, g) <= Distance(h, k)

(* Processes that know the same nodes send every key to the same one,       *)
(* whatever the order in which they learned of them: "consistent routing".  *)
OwnersAgree ==
    \A p, q \in Processes : (nodes[p] = nodes[q] /\ nodes[p] # {}) =>
        \A h \in Hashes : Lookup(points[p], nodeByHash[p], h) = Lookup(points[q], nodeByHash[q], h)

Owner(p, h) == Lookup(points[p], nodeByHash[p], h).id
OwnerNext(p, h) == Lookup(points'[p], nodeByHash'[p], h).id

(* A node that joins takes keys and moves none between the others; one that *)
(* leaves gives up its own keys only (AddNode, RemoveNode).                 *)
MovesMinimally ==
    \A p \in Processes : \A h \in Hashes :
        (points[p] # <<>> /\ points'[p] # <<>> /\ Owner(p, h) # OwnerNext(p, h))
           => \/ OwnerNext(p, h) \notin IdsOf(p)
              \/ Owner(p, h) \notin {n.id : n \in nodes'[p]}

=============================================================================
