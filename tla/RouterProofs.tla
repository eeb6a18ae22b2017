---------------------------- MODULE RouterProofs ----------------------------
(***************************************************************************)
(* The invariants of Router, for every BITS and every set of peers, from   *)
(* what RouterOpsProofs says of its operations.                            *)
(***************************************************************************)
EXTENDS Router, RouterOpsProofs

USE RouterAssumption DEF Dist

-----------------------------------------------------------------------------
(* The properties of Router that are inductive together.                   *)
IInv == TypeOK /\ FingersInInterval /\ FingersTight /\ NoGhost /\ ExactWithoutFailures

(* The invariants of Router, read as facts about reach.                    *)
LEMMA InvariantsAsReach ==
    ASSUME NEW r \in RouterState
    PROVE  /\ InReach(self, r) <=> \A i \in Index : Valid(r, i) => InInterval(i, r.successors[i].uuid)
           /\ Tight(self, r) <=> \A i, j \in Index :
                 Valid(r, j) /\ InInterval(i, r.successors[j].uuid) =>
                 Valid(r, i) /\ Dist(r.successors[i].uuid) <= Dist(r.successors[j].uuid)
<1>1. \A i \in Index : From(self, i) < Ring /\ From(self, i) \in Nat /\ Reach(self, r, i) \in 0 .. Ring
                      /\ (Valid(r, i) <=> Reach(self, r, i) < Ring)
                      /\ (Valid(r, i) => Reach(self, r, i) = Dist(r.successors[i].uuid))
  BY ReachRange, RingFacts DEF Reach
<1>2. \A i \in Index, u \in Uuid : InInterval(i, u) <=> From(self, i) < Dist(u)
  BY DEF InInterval, From
<1>3. \A i \in Index : Valid(r, i) => r.successors[i].uuid \in Uuid
  BY ReachRange
<1> QED  BY <1>1, <1>2, <1>3, RingFacts DEF InReach, Tight

(* The constructor's empty table.                                          *)
LEMMA InitInv == Init => IInv
<1> SUFFICES ASSUME Init PROVE IInv
  OBVIOUS
<1>1. TypeOK
  BY DEF Init, TypeOK, EmptyRouter, RouterState, OptNode
<1>2. \A i \in Index : ~Valid(router, i)
  BY DEF Init, EmptyRouter, Valid
<1>3. FingersInInterval /\ FingersTight
  BY <1>2 DEF FingersInInterval, FingersTight
<1>4. NoGhost /\ ExactWithoutFailures
  BY DEF Init, EmptyRouter, NoGhost, ExactWithoutFailures, get, has_predecessor
<1> QED  BY <1>1, <1>3, <1>4 DEF IInv

(* What the invariant says of the table, in distances.                     *)
LEMMA TableShape ==
    ASSUME IInv
    PROVE  router \in RouterState /\ InReach(self, router) /\ Tight(self, router)
<1>1. router \in RouterState
  BY DEF IInv, TypeOK
<1> QED  BY <1>1, InvariantsAsReach DEF IInv, FingersInInterval, FingersTight, Finger

(* Router::update: the only conjuncts it could break are about the node it *)
(* inserts.                                                                *)
LEMMA UpdatePreserves ==
    ASSUME IInv, NEW n \in Peers, Update(n)
    PROVE  IInv'
<1>0. n \in Node /\ n.uuid \in Uuid /\ n # NoNode
  BY RouterAssumption, NoNodeAssumption, NodeUuid
<1>1. router' = update(self, router, n) /\ known' = known \cup {n} /\ failed' = failed
  BY DEF Update
<1>2. /\ router' \in RouterState /\ InReach(self, router') /\ Tight(self, router')
      /\ get(router') \subseteq get(router) \cup {n}
      /\ \A i \in Index : /\ Reach(self, router', i) <= Reach(self, router, i)
                          /\ From(self, i) < Dist(n.uuid) => Reach(self, router', i) <= Dist(n.uuid)
  BY <1>0, <1>1, TableShape, UpdateTable
<1>3. TypeOK'
  BY <1>0, <1>1, <1>2 DEF IInv, TypeOK
<1>4. FingersInInterval' /\ FingersTight'
  BY <1>2, InvariantsAsReach DEF FingersInInterval, FingersTight, Finger
<1>5. router'.predecessor = IF n # self /\ BecomesPredecessor(self, router, n)
                            THEN n ELSE router.predecessor
  BY <1>1 DEF update
<1>6. NoGhost'
  BY <1>0, <1>1, <1>2, <1>5 DEF IInv, NoGhost, has_predecessor
<1>7. ExactWithoutFailures'
  <2> SUFFICES ASSUME ~failed
               PROVE  /\ \A i \in Index, m \in known' : InInterval(i, m.uuid) =>
                            Valid(router', i) /\ Dist(Finger(i)') <= Dist(m.uuid)
                      /\ \A m \in known' \ {self} :
                            /\ has_predecessor(router')
                            /\ Dist(m.uuid) <= Dist(router'.predecessor.uuid)
    BY <1>1 DEF ExactWithoutFailures
  <2>1. ASSUME NEW i \in Index, NEW m \in known', InInterval(i, m.uuid)
        PROVE  Valid(router', i) /\ Dist(Finger(i)') <= Dist(m.uuid)
    <3>0. m \in Node /\ m.uuid \in Uuid /\ Dist(m.uuid) \in 0 .. MaxUuid
      BY <1>3, NodeUuid, DistRange DEF TypeOK
    <3>1. Reach(self, router, i) \in 0 .. Ring /\ Reach(self, router', i) \in 0 .. Ring
      BY <1>2, ReachRange, TableShape
    <3>2. Reach(self, router', i) <= Dist(m.uuid)
      <4>1. CASE m = n
        BY <1>2, <2>1, <4>1 DEF InInterval, From
      <4>2. CASE m \in known
        <5>1. Reach(self, router, i) <= Dist(m.uuid)
          BY <2>1, <4>2 DEF IInv, ExactWithoutFailures, Reach, Finger
        <5> QED  BY <1>2, <3>0, <3>1, <5>1
      <4> QED  BY <1>1, <4>1, <4>2
    <3>3. Valid(router', i)
      BY <1>2, <3>0, <3>2, ReachRange, RingFacts
    <3> QED  BY <3>2, <3>3 DEF Reach, Finger
  <2>2. ASSUME NEW m \in known' \ {self}
        PROVE  has_predecessor(router') /\ Dist(m.uuid) <= Dist(router'.predecessor.uuid)
    <3> DEFINE p == router.predecessor
    <3>0. m \in Node /\ m.uuid \in Uuid /\ Dist(m.uuid) \in 0 .. MaxUuid
          /\ Dist(n.uuid) \in 0 .. MaxUuid
      BY <1>0, <1>3, NodeUuid, DistRange DEF TypeOK
    <3>1. has_predecessor(router) => p \in Node /\ p.uuid \in Uuid /\ Dist(p.uuid) \in 0 .. MaxUuid
      BY NodeUuid, TableShape, DistRange DEF RouterState, OptNode, has_predecessor
    <3>2. BecomesPredecessor(self, router, n) <=>
            ~has_predecessor(router) \/ (n # p /\ Dist(p.uuid) < Dist(n.uuid))
      BY <1>0, <3>1, BetweenSelf DEF BecomesPredecessor, has_predecessor
    <3>3. m \in known => has_predecessor(router) /\ Dist(m.uuid) <= Dist(p.uuid)
      BY DEF IInv, ExactWithoutFailures
    <3>4. m = n \/ m \in known
      BY <1>1
    <3> QED  BY <1>0, <1>5, <3>0, <3>1, <3>2, <3>3, <3>4, RingFacts DEF has_predecessor
  <2> QED  BY <2>1, <2>2
<1> QED  BY <1>3, <1>4, <1>6, <1>7 DEF IInv

(* Router::remove: what is left is a part of what was known.               *)
LEMMA RemovePreserves ==
    ASSUME IInv, NEW n \in Peers, Remove(n.uuid)
    PROVE  IInv'
<1>0. n.uuid \in Uuid
  BY RouterAssumption, NodeUuid
<1>1. /\ router' = remove(self, router, n.uuid)
      /\ known' = {m \in known : m.uuid # n.uuid}
      /\ failed' = TRUE
  BY DEF Remove
<1>2. /\ router' \in RouterState /\ InReach(self, router') /\ Tight(self, router')
      /\ get(router') \subseteq {m \in get(router) : m.uuid # n.uuid}
      /\ router'.predecessor # NoNode =>
            /\ router'.predecessor.uuid # n.uuid
            /\ router'.predecessor \in get(router) \cup {router.predecessor}
  BY <1>0, <1>1, TableShape, RemoveTable
<1>3. TypeOK'
  BY <1>1, <1>2 DEF IInv, TypeOK
<1>4. FingersInInterval' /\ FingersTight'
  BY <1>2, InvariantsAsReach DEF FingersInInterval, FingersTight, Finger
<1>5. NoGhost'
  BY <1>1, <1>2 DEF IInv, NoGhost, has_predecessor
<1>6. ExactWithoutFailures'
  BY <1>1 DEF ExactWithoutFailures
<1> QED  BY <1>3, <1>4, <1>5, <1>6 DEF IInv

(* Every reachable state of a router, whatever BITS and whatever its peers, *)
(* satisfies the inductive invariant: one case per Router method.          *)
THEOREM Invariance == Spec => []IInv
<1>1. IInv /\ [Next]_vars => IInv'
  <2> SUFFICES ASSUME IInv, [Next]_vars PROVE IInv'
    OBVIOUS
  <2>1. ASSUME NEW n \in Peers, Update(n) PROVE IInv'
    BY <2>1, UpdatePreserves
  <2>2. ASSUME NEW n \in Peers, Remove(n.uuid) PROVE IInv'
    BY <2>2, RemovePreserves
  <2>3. CASE Reset
    <3>1. Init'
      BY <2>3 DEF Reset, Init
    <3> QED  BY <3>1, InitInv, PTL
  <2>4. CASE UNCHANGED vars
    BY <2>4 DEF vars, IInv, TypeOK, FingersInInterval, FingersTight, Finger, NoGhost,
                ExactWithoutFailures
  <2> QED  BY <2>1, <2>2, <2>3, <2>4 DEF Next
<1> QED  BY <1>1, InitInv, PTL DEF Spec

(* Type correctness of the finger table, for every BITS.                   *)
THEOREM TypeCorrect == Spec => []TypeOK
  BY Invariance, PTL DEF IInv

(* Router::update and remove never put a node into an entry outside the    *)
(* interval that entry answers for.                                        *)
THEOREM IntervalsRespected == Spec => []FingersInInterval
  BY Invariance, PTL DEF IInv

(* Router::remove and update never leave a hole below a filled entry, nor  *)
(* entries that run backwards: Router::successor() is the closest node of  *)
(* the table.                                                              *)
THEOREM Ordered == Spec => []FingersOrdered
<1>1. IInv => FingersOrdered
  <2> SUFFICES ASSUME IInv, NEW i \in Index, NEW j \in Index, i < j, Valid(router, j)
               PROVE  Valid(router, i) /\ Dist(Finger(i)) <= Dist(Finger(j))
    BY DEF FingersOrdered
  <2>1. i <= j
    BY BitsAssumption DEF Index
  <2>2. Reach(self, router, i) <= Reach(self, router, j)
    BY <2>1, TableShape, ReachOrdered
  <2> QED  BY <2>2, TableShape, ReachRange, RingFacts DEF Reach, Finger
<1> QED  BY <1>1, Invariance, PTL

(* What Router::remove puts in place of a failed node is the best node the *)
(* table has left.                                                         *)
THEOREM TightTable == Spec => []FingersTight
  BY Invariance, PTL DEF IInv

(* Router::remove forgets a node in every entry and as the predecessor.    *)
THEOREM Forgotten == Spec => []NoGhost
  BY Invariance, PTL DEF IInv

(* Until a node is removed, Router::update makes the table independent of  *)
(* the order in which nodes were learnt.                                   *)
THEOREM OrderIndependent == Spec => []ExactWithoutFailures
  BY Invariance, PTL DEF IInv

(* Router::update only brings entries closer, that of a known node, too;   *)
(* Router::remove only takes them further away.                            *)
THEOREM Monotone == Spec => FingersMonotone
<1> DEFINE Closer == known \subseteq known' /\ \A i \in Index : Valid(router, i) =>
                        Valid(router', i) /\ Dist(Finger(i)') <= Dist(Finger(i))
           Further == known' \subseteq known /\ known' # known /\ \A i \in Index : Valid(router', i) =>
                        Valid(router, i) /\ Dist(Finger(i)') >= Dist(Finger(i))
<1>1. ASSUME IInv, NEW n \in Peers, Update(n) PROVE Closer
  <2>1. n \in Node /\ router' = update(self, router, n) /\ known' = known \cup {n}
    BY <1>1, RouterAssumption DEF Update
  <2>2. router' \in RouterState /\ \A i \in Index : Reach(self, router', i) <= Reach(self, router, i)
    BY <1>1, <2>1, TableShape, UpdateTable
  <2> QED  BY <1>1, <2>1, <2>2, TableShape, ReachRange, RingFacts DEF Reach, Finger
<1>2. ASSUME IInv, NEW n \in Peers, Remove(n.uuid) PROVE Closer \/ Further
  <2>1. /\ n.uuid \in Uuid /\ router' = remove(self, router, n.uuid)
        /\ known' = {m \in known : m.uuid # n.uuid}
    BY <1>2, RouterAssumption, NodeUuid DEF Remove
  <2>2. router' \in RouterState /\ \A i \in Index : Reach(self, router', i) >= Reach(self, router, i)
    BY <1>2, <2>1, TableShape, RemoveTable
  <2>3. CASE known' # known
    BY <1>2, <2>1, <2>2, <2>3, TableShape, ReachRange, RingFacts DEF Reach, Finger
  <2>4. CASE known' = known
    <3>1. \A i \in Index : Valid(router, i) => router.successors[i].uuid # n.uuid
      <4> SUFFICES ASSUME NEW i \in Index, Valid(router, i) PROVE router.successors[i].uuid # n.uuid
        OBVIOUS
      <4>1. router.successors[i] \in known
        BY <1>2 DEF IInv, NoGhost, get, Valid
      <4> QED  BY <2>1, <2>4, <4>1
    <3>2. \A i \in Index : Valid(router, i) =>
             Valid(router', i) /\ router'.successors[i] = router.successors[i]
      BY <2>1, <3>1 DEF remove, Valid
    <3>3. \A i \in Index : Valid(router, i) => Dist(Finger(i)) \in Nat
      BY <1>2, TableShape, ReachRange, RingFacts DEF Reach, Finger
    <3>4. \A i \in Index : Valid(router, i) => Dist(Finger(i)') <= Dist(Finger(i))
      BY <3>2, <3>3 DEF Finger
    <3> QED  BY <2>4, <3>2, <3>4
  <2> QED  BY <2>3, <2>4
<1>3. IInv /\ [Next]_vars => [router' = EmptyRouter \/ Closer \/ Further]_vars
  <2>1. Reset => router' = EmptyRouter
    BY DEF Reset
  <2> QED  BY <1>1, <1>2, <2>1 DEF Next
<1> QED  BY <1>3, Invariance, PTL DEF Spec, FingersMonotone

(* Router::update always leaves a predecessor and Router::remove replaces  *)
(* a failed one as long as the table holds any other node: a router with a *)
(* successor has a predecessor.                                            *)
THEOREM PredecessorFollows == Spec => []PredecessorKnown
<1>1. Init => PredecessorKnown
  BY DEF Init, EmptyRouter, PredecessorKnown, get
<1>2. ASSUME IInv, PredecessorKnown, NEW n \in Peers, Update(n) PROVE PredecessorKnown'
  <2>1. n # NoNode
    BY RouterAssumption, NoNodeAssumption
  <2>2. CASE n = self
    BY <1>2, <2>2 DEF Update, update, PredecessorKnown
  <2>3. CASE n # self
    <3>1. router'.predecessor = IF BecomesPredecessor(self, router, n)
                                THEN n ELSE router.predecessor
      BY <1>2, <2>3 DEF Update, update
    <3> QED  BY <2>1, <3>1 DEF BecomesPredecessor, PredecessorKnown, has_predecessor
  <2> QED  BY <2>2, <2>3
<1>3. ASSUME IInv, PredecessorKnown, NEW n \in Peers, Remove(n.uuid) PROVE PredecessorKnown'
  <2> DEFINE S == Surviving(router, n.uuid)
  <2>1. router' = remove(self, router, n.uuid)
    BY <1>3 DEF Remove
  <2>2. get(router') \subseteq {m \in get(router) : m.uuid # n.uuid}
    BY <1>3, <2>1, TableShape, RemoveTable, NodeUuid, RouterAssumption
  <2>3. CASE has_predecessor(router) /\ router.predecessor.uuid = n.uuid
    <3>1. router'.predecessor = NodeAt(router, S, Last(S))
      BY <2>1, <2>3 DEF remove, Highest
    <3>2. S # {} => Last(S) \in S
      BY LastIsGreatest DEF Surviving
    <3>3. S # {} => router'.predecessor # NoNode
      BY <3>1, <3>2 DEF NodeAt, Surviving, Valid
    <3>4. get(router') # {} => S # {}
      BY <2>2 DEF get, Surviving, Valid
    <3> QED  BY <3>3, <3>4 DEF PredecessorKnown, has_predecessor
  <2>4. CASE ~(has_predecessor(router) /\ router.predecessor.uuid = n.uuid)
    <3>1. router'.predecessor = router.predecessor
      BY <2>1, <2>4 DEF remove
    <3> QED  BY <1>3, <2>2, <3>1 DEF PredecessorKnown, has_predecessor
  <2> QED  BY <2>3, <2>4
<1>4. IInv /\ PredecessorKnown /\ [Next]_vars => PredecessorKnown'
  <2>1. Reset => PredecessorKnown'
    BY DEF Reset, EmptyRouter, PredecessorKnown, get
  <2>2. UNCHANGED vars /\ PredecessorKnown => PredecessorKnown'
    BY DEF vars, PredecessorKnown
  <2> QED  BY <1>2, <1>3, <2>1, <2>2 DEF Next
<1> QED  BY <1>1, <1>4, Invariance, PTL DEF Spec

(* Router::closest_preceding_nodes offers every node of the table that     *)
(* precedes the identifier, once and in order.  Beyond the shape of the    *)
(* table this needs that no identifier is in it under two endpoints: then  *)
(* equal distances would not mean equal nodes, and the loop would push     *)
(* both.                                                                   *)
THEOREM PrecedingOrdered == Spec => []PrecedingNodesOrdered
<1> DEFINE Named == OneEndpoint(router)
<1>1. Init => Named
  BY DEF Init, EmptyRouter, OneEndpoint, Valid
<1>2. IInv /\ Named /\ [Next]_vars => Named'
  <2> SUFFICES ASSUME IInv, Named, [Next]_vars PROVE Named'
    OBVIOUS
  <2>1. ASSUME NEW n \in Peers, Update(n) PROVE Named'
    BY <2>1, TableShape, UpdateOneEndpoint DEF Update
  <2>2. ASSUME NEW n \in Peers, Remove(n.uuid) PROVE Named'
    BY <2>2, TableShape, RemoveOneEndpoint DEF Remove
  <2>3. CASE Reset
    BY <2>3 DEF Reset, EmptyRouter, OneEndpoint, Valid
  <2>4. CASE UNCHANGED vars
    BY <2>4 DEF vars
  <2> QED  BY <2>1, <2>2, <2>3, <2>4 DEF Next
<1>3. IInv /\ Named => PrecedingNodesOrdered
  <2> SUFFICES ASSUME IInv, Named PROVE PrecedingNodesOrdered
    OBVIOUS
  <2> DEFINE Ret(uuid) == closest_preceding_nodes(self, router, uuid)
  <2>1. ASSUME NEW uuid \in Uuid
        PROVE  /\ Ret(uuid)[Len(Ret(uuid))] = self
               /\ \A k \in 1 .. (Len(Ret(uuid)) - 2) : Dist(Ret(uuid)[k].uuid) > Dist(Ret(uuid)[k + 1].uuid)
               /\ {Ret(uuid)[k] : k \in 1 .. (Len(Ret(uuid)) - 1)} =
                     {n \in get(router) : Between(self.uuid, n.uuid, uuid)}
    <3> DEFINE ret == Ret(uuid)
    <3>1. ret = closest_preceding_nodes(self, router, uuid)
      OBVIOUS
    <3> HIDE DEF ret
    <3>2. /\ ret[Len(ret)] = self
          /\ \A k \in 1 .. (Len(ret) - 2) : Distance(self.uuid, ret[k].uuid) > Distance(self.uuid, ret[k + 1].uuid)
          /\ {ret[k] : k \in 1 .. (Len(ret) - 1)} = {n \in get(router) : Between(self.uuid, n.uuid, uuid)}
      BY <3>1, TableShape, ClosestPreceding
    <3> QED  BY <3>2 DEF ret
  <2> HIDE DEF Ret
  <2>2. \A uuid \in Uuid : closest_preceding_nodes(self, router, uuid) = Ret(uuid)
    BY DEF Ret
  <2> QED  BY <2>1, <2>2 DEF PrecedingNodesOrdered
<1> QED  BY <1>1, <1>2, <1>3, Invariance, PTL DEF Spec
=============================================================================
