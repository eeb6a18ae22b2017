------------------------------- MODULE Router -------------------------------
(***************************************************************************)
(* chord::Router as a state machine: the finger table of one node under    *)
(* every sequence of update, remove and reset calls the client, the        *)
(* service and the facade may make.  Each call is one atomic step, as the  *)
(* recursive mutex intends.                                                *)
(***************************************************************************)
EXTENDS RouterOps

CONSTANTS self,        \* Context::node()
          Peers        \* the nodes the router is told of

VARIABLES router,      \* successors and _predecessor
          known,       \* history: nodes inserted since the last reset, not removed since
          failed       \* history: has a removal happened since the last reset?

vars == <<router, known, failed>>

ASSUME RouterAssumption == self \in Node /\ Peers \subseteq Node

Init ==
    /\ router = EmptyRouter
    /\ known = {}
    /\ failed = FALSE

Update(insert) ==
    /\ router' = update(self, router, insert)
    /\ known' = known \cup {insert}
    /\ failed' = failed

Remove(uuid) ==
    /\ router' = remove(self, router, uuid)
    /\ known' = {n \in known : n.uuid # uuid}
    /\ failed' = TRUE

Reset ==
    /\ router' = EmptyRouter
    /\ known' = {}
    /\ failed' = FALSE

Next ==
    \/ \E n \in Peers : Update(n) \/ Remove(n.uuid)
    \/ Reset

Spec == Init /\ [][Next]_vars

-----------------------------------------------------------------------------
Dist(uuid) == Distance(self.uuid, uuid)
Finger(i) == router.successors[i].uuid
InInterval(i, uuid) == Dist(FingerStart(self, i)) < Dist(uuid)

(* The table keeps its shape, and the history holds nodes.                 *)
TypeOK ==
    /\ router \in RouterState
    /\ known \subseteq Node
    /\ failed \in BOOLEAN

(* Router::update and remove only put into entry i a node of the interval  *)
(* that entry i answers for: after its start and before the node itself.   *)
(* In particular no entry ever holds the node itself, whatever endpoint it *)
(* was reported under.                                                     *)
FingersInInterval ==
    \A i \in Index : Valid(router, i) => InInterval(i, Finger(i))

(* update and remove leave no hole below a filled entry, and entries never *)
(* run backwards around the ring: entry 0, Router::successor(), is the     *)
(* closest node of the table.                                              *)
FingersOrdered ==
    \A i, j \in Index : i < j /\ Valid(router, j) =>
        Valid(router, i) /\ Dist(Finger(i)) <= Dist(Finger(j))

(* No entry of the table is further away than another entry of the table   *)
(* that lies in its interval: what remove() puts in place of a failed node *)
(* is the best the table has left.                                         *)
FingersTight ==
    \A i, j \in Index : Valid(router, j) /\ InInterval(i, Finger(j)) =>
        Valid(router, i) /\ Dist(Finger(i)) <= Dist(Finger(j))

(* remove(uuid) forgets a node everywhere, the predecessor included, and   *)
(* nothing but update brings it back; reset forgets all of them.           *)
NoGhost ==
    /\ get(router) \subseteq known
    /\ has_predecessor(router) => router.predecessor \in known

(* Until something is removed the table does not depend on the order of    *)
(* the updates: each entry is the closest known node of its interval and   *)
(* the predecessor the closest known node behind.                          *)
ExactWithoutFailures ==
    ~failed =>
      /\ \A i \in Index, n \in known : InInterval(i, n.uuid) =>
            Valid(router, i) /\ Dist(Finger(i)) <= Dist(n.uuid)
      /\ \A n \in known \ {self} :
            has_predecessor(router) /\ Dist(n.uuid) <= Dist(router.predecessor.uuid)

(* closest_preceding_nodes(uuid), for every uuid, offers each node of the  *)
(* table that precedes uuid once, the closest to uuid first and each next  *)
(* one strictly further back, and ends with the node itself: a lookup that *)
(* falls back along this list tries every candidate and none twice.        *)
PrecedingNodesOrdered ==
    \A uuid \in Uuid :
      LET ret == closest_preceding_nodes(self, router, uuid)
          len == Len(ret)
      IN /\ ret[len] = self
         /\ \A k \in 1 .. (len - 2) : Dist(ret[k].uuid) > Dist(ret[k + 1].uuid)
         /\ {ret[k] : k \in 1 .. (len - 1)} =
               {n \in get(router) : Between(self.uuid, n.uuid, uuid)}

(* An update never moves an entry away from its start or empties it, not   *)
(* even of a node that is known, and a removal never moves one closer or   *)
(* fills it; a removal of a node that is not known changes neither.        *)
FingersMonotone ==
    [][ \/ router' = EmptyRouter
        \/ known \subseteq known' /\ \A i \in Index : Valid(router, i) =>
              Valid(router', i) /\ Dist(Finger(i)') <= Dist(Finger(i))
        \/ known' \subseteq known /\ known' # known /\ \A i \in Index : Valid(router', i) =>
              Valid(router, i) /\ Dist(Finger(i)') >= Dist(Finger(i)) ]_vars

(* Service::join and notify read the predecessor of a router that has a    *)
(* successor, and the successor of one that has a predecessor, without a   *)
(* test.  The first is safe: while the table holds any node, there is a    *)
(* predecessor.  (The second is not, see Overlay.)                         *)
PredecessorKnown == get(router) # {} => has_predecessor(router)
=============================================================================
