------------------------------ MODULE RouterOps ------------------------------
(***************************************************************************)
(* The finger table as a value, and what every method of chord::Router     *)
(* does to it (chord.router.cc).  A router is a record                     *)
(*     successors  : the node of each of the BITS entries, or NoNode       *)
(*     predecessor : the predecessor, or NoNode                            *)
(* of the node `self' (Context::node()).  A node is a uuid and an endpoint *)
(* and two nodes are equal when both are (chord.node.h).  The start of the *)
(* interval of entry i, RouterEntry::uuid, is FingerStart(self, i): init() *)
(* computes it once.                                                       *)
(* A definition marked Mutant is what a slip would make of the one below   *)
(* it; nothing uses it but the runs that show a property notices.          *)
(***************************************************************************)
EXTENDS ChordUuid, Sequences, FiniteSets

CONSTANTS NoNode,      \* std::optional<node>{}
          Endpoint     \* the endpoints a node may be known by

Node == [uuid : Uuid, endpoint : Endpoint]
OptNode == Node \cup {NoNode}
RouterState == [successors : [Index -> OptNode], predecessor : OptNode]

ASSUME NoNodeAssumption == NoNode \notin Node

FingerStart(self, i) == calc_successor_uuid_for_index(self.uuid, i)

(* Mutant: one entry too many.                                             *)
EmptyRouterTooLong == [successors |-> [i \in 0 .. BITS |-> NoNode], predecessor |-> NoNode]

(* Router::reset, cleanup and init, and the constructor.                   *)
EmptyRouter == [successors |-> [i \in Index |-> NoNode], predecessor |-> NoNode]

Valid(r, i) == r.successors[i] # NoNode
has_successor(r) == Valid(r, 0)
has_predecessor(r) == r.predecessor # NoNode
successor(r) == r.successors[0]
successor_or_self(self, r) == IF has_successor(r) THEN successor(r) ELSE self

(* The nodes of the table: Router::get().                                  *)
get(r) == {r.successors[i] : i \in Index} \ {NoNode}

(***************************************************************************)
(* Router::update(node)                                                    *)
(***************************************************************************)
(* The end of the interval in which entry i would accept a closer node.    *)
Limit(self, r, i) == IF Valid(r, i) THEN r.successors[i].uuid ELSE self.uuid

(* Mutant: an entry takes any node of its interval, closer or not.         *)
ImprovesAlways(self, r, i, insert) == Between(FingerStart(self, i), insert.uuid, self.uuid)

Improves(self, r, i, insert) == Between(FingerStart(self, i), insert.uuid, Limit(self, r, i))

(* Mutant: the first node learnt stays the predecessor.                    *)
BecomesFirstPredecessor(self, r, insert) == r.predecessor = NoNode

BecomesPredecessor(self, r, insert) ==
    \/ r.predecessor = NoNode
    \/ /\ insert # r.predecessor
       /\ Between(r.predecessor.uuid, insert.uuid, self.uuid)

update(self, r, insert) ==
    IF insert = self
    THEN r
    ELSE [successors  |-> [i \in Index |-> IF Improves(self, r, i, insert)
                                           THEN insert ELSE r.successors[i]],
          predecessor |-> IF BecomesPredecessor(self, r, insert)
                          THEN insert ELSE r.predecessor]

(* Router::update(set): a std::set<node> holds one node per uuid and is    *)
(* traversed by rising uuid.                                               *)
update_set(self, r, nodes) ==
    LET Upto[k \in 0 .. Ring] ==      \* after the nodes whose uuid is below k
          IF k = 0 THEN r
          ELSE LET here == {n \in nodes : n.uuid = k - 1}
               IN  IF here = {} THEN Upto[k - 1]
                   ELSE update(self, Upto[k - 1], CHOOSE n \in here : TRUE)
    IN  Upto[Ring]

(***************************************************************************)
(* Router::remove(uuid): the backward scan leaves in `replacement' the     *)
(* nearest higher entry that holds neither the removed node nor the node   *)
(* itself, and gives a predecessor that is removed the node of the highest *)
(* entry that survives.                                                    *)
(***************************************************************************)
Surviving(r, uuid) == {i \in Index : Valid(r, i) /\ r.successors[i].uuid # uuid}

Replacements(self, r, i, uuid) ==
    {j \in Surviving(r, uuid) : j > i /\ r.successors[j].uuid # self.uuid}

First(S) == CHOOSE i \in S : \A j \in S : i <= j
Last(S)  == CHOOSE i \in S : \A j \in S : j <= i

NodeAt(r, S, i) == IF S = {} THEN NoNode ELSE r.successors[i]

(* Mutant: the highest entry is taken for the replacement.                 *)
FarthestHigher(self, r, i, uuid) ==
    LET S == Replacements(self, r, i, uuid) IN NodeAt(r, S, Last(S))

NextHigher(self, r, i, uuid) ==
    LET S == Replacements(self, r, i, uuid) IN NodeAt(r, S, First(S))

(* Mutant: a failed predecessor is not replaced.                           *)
HighestNone(r, uuid) == NoNode

Highest(r, uuid) ==
    LET S == Surviving(r, uuid) IN NodeAt(r, S, Last(S))

(* Mutant: entries are emptied, not repaired.                              *)
RemoveWithoutRepair(self, r, uuid) ==
    [successors |-> [i \in Index |->
         IF Valid(r, i) /\ r.successors[i].uuid = uuid THEN NoNode ELSE r.successors[i]],
     predecessor |->
         IF has_predecessor(r) /\ r.predecessor.uuid = uuid
         THEN Highest(r, uuid)
         ELSE r.predecessor]

(* Mutant: the predecessor is forgotten about.                             *)
RemoveFromTable(self, r, uuid) ==
    [successors |-> [i \in Index |->
         IF Valid(r, i) /\ r.successors[i].uuid = uuid
         THEN NextHigher(self, r, i, uuid)
         ELSE r.successors[i]],
     predecessor |-> r.predecessor]

remove(self, r, uuid) ==
    [successors |-> [i \in Index |->
         IF Valid(r, i) /\ r.successors[i].uuid = uuid
         THEN NextHigher(self, r, i, uuid)
         ELSE r.successors[i]],
     predecessor |->
         IF has_predecessor(r) /\ r.predecessor.uuid = uuid
         THEN Highest(r, uuid)
         ELSE r.predecessor]

(* The events remove() emits, once the table is repaired, if asked to.     *)
SuccessorFailed(r, uuid) == has_successor(r) /\ successor(r).uuid = uuid
PredecessorFailed(r, uuid) == has_predecessor(r) /\ r.predecessor.uuid = uuid

(***************************************************************************)
(* Router::closest_preceding_nodes(uuid): the nodes of the table strictly  *)
(* between the node itself and uuid, from the highest entry down, without  *)
(* adjacent duplicates, and the node itself as the last resort.            *)
(***************************************************************************)
Preceding(self, r, uuid) ==
    {i \in Index : Valid(r, i) /\ Between(self.uuid, r.successors[i].uuid, uuid)}

(* Those whose node is not the one pushed before.                          *)
Pushed(r, S) ==
    {i \in S : LET higher == {j \in S : j > i}
               IN  higher = {} \/ r.successors[First(higher)] # r.successors[i]}

(* Mutant: from the lowest entry up.                                       *)
Upwards(S) ==
    [p \in 1 .. Cardinality(S) |-> CHOOSE i \in S : Cardinality({j \in S : j <= i}) = p]

Downwards(S) ==
    [p \in 1 .. Cardinality(S) |-> CHOOSE i \in S : Cardinality({j \in S : j >= i}) = p]

closest_preceding_nodes(self, r, uuid) ==
    LET order == Downwards(Pushed(r, Preceding(self, r, uuid)))
        ret == [p \in 1 .. Len(order) |-> r.successors[order[p]]]
    IN  IF ret = << >> \/ ret[1] # self THEN Append(ret, self) ELSE ret
=============================================================================
