-------------------------- MODULE RouterOpsProofs --------------------------
(***************************************************************************)
(* What update, remove and update_set do to the finger table of any node   *)
(* `me', for every BITS.  The argument is in terms of the clockwise        *)
(* distance from that node: Reach is the distance of the node in an entry, *)
(* From that of the entry's start.                                         *)
(***************************************************************************)
EXTENDS RouterOps, FiniteSetTheorems, WellFoundedInduction, TLAPS

(* Reducing once what is below twice the modulus.                          *)
LEMMA ModOnce ==
    ASSUME NEW m \in Nat, m > 0, NEW a \in Nat, a < 2 * m
    PROVE  a % m = IF a < m THEN a ELSE a - m
  OBVIOUS

(* The arithmetic of the ring.                                             *)
LEMMA RingFacts ==
    /\ Ring \in Nat /\ Ring >= 4 /\ MaxUuid = Ring - 1
    /\ \A i \in Index : 2^i \in Nat /\ 2^i >= 1 /\ 2 * 2^i <= Ring
    /\ \A i, j \in Index : i < j => 2 * 2^i <= 2^j
  BY BitsAssumption DEF Ring, MaxUuid, Index

(* Identifiers of nodes are identifiers.                                   *)
LEMMA NodeUuid == \A n \in Node : n.uuid \in Uuid
  BY DEF Node

(* Only the node itself is at distance 0 ...                               *)
LEMMA DistRange ==
    ASSUME NEW me \in Node, NEW u \in Uuid
    PROVE  Distance(me.uuid, u) \in 0 .. MaxUuid /\ (Distance(me.uuid, u) = 0 <=> u = me.uuid)
  BY RingFacts, NodeUuid DEF Distance, Uuid

(* ... and a distance determines the identifier.                           *)
LEMMA DistInjective ==
    ASSUME NEW me \in Node, NEW u \in Uuid, NEW v \in Uuid, Distance(me.uuid, u) = Distance(me.uuid, v)
    PROVE  u = v
  BY RingFacts, NodeUuid DEF Distance, Uuid

(* The start of entry i lies at distance 2^i, or one further when the      *)
(* reduction modulo the largest identifier skips that identifier.          *)
LEMMA StartDist ==
    ASSUME NEW me \in Node, NEW i \in Index
    PROVE  /\ FingerStart(me, i) \in Uuid
           /\ Distance(me.uuid, FingerStart(me, i)) \in {2^i, 2^i + 1}
<1> DEFINE a == me.uuid + 2^i
           b == a % Ring
<1>1. /\ me.uuid \in Nat /\ me.uuid <= MaxUuid
      /\ 2^i \in Nat /\ 2^i >= 1 /\ 2 * 2^i <= Ring
      /\ Ring \in Nat /\ Ring >= 4 /\ MaxUuid = Ring - 1
  BY RingFacts, NodeUuid DEF Uuid
<1>2. a \in Nat /\ a < 2 * Ring
  BY <1>1
<1>3. b = IF a < Ring THEN a ELSE a - Ring
  <2> HIDE DEF a
  <2> QED  BY <1>1, <1>2, ModOnce
<1>4. b \in Nat /\ b < 2 * MaxUuid /\ b <= MaxUuid
  <2> HIDE DEF b
  <2> QED  BY <1>1, <1>2, <1>3
<1>5. b % MaxUuid = IF b < MaxUuid THEN b ELSE b - MaxUuid
  <2> HIDE DEF b
  <2> QED  BY <1>1, <1>4, ModOnce
<1>6. FingerStart(me, i) = IF b < MaxUuid THEN b ELSE 0
  <2>1. FingerStart(me, i) = b % MaxUuid
    BY DEF FingerStart, calc_successor_uuid_for_index
  <2> HIDE DEF b
  <2> QED  BY <2>1, <1>1, <1>4, <1>5
<1> HIDE DEF b
<1>7. QED
  BY <1>1, <1>3, <1>4, <1>6 DEF Distance, Uuid

(* Starts never run backwards and never reach the node itself.             *)
LEMMA StartsOrdered ==
    ASSUME NEW me \in Node
    PROVE
    /\ \A i \in Index : FingerStart(me, i) \in Uuid /\ Distance(me.uuid, FingerStart(me, i)) >= 1
    /\ \A i, j \in Index : i <= j => Distance(me.uuid, FingerStart(me, i)) <= Distance(me.uuid, FingerStart(me, j))
  <1>1. \A i \in Index : FingerStart(me, i) \in Uuid /\ Distance(me.uuid, FingerStart(me, i)) >= 1
    BY StartDist, RingFacts
  <1>2. ASSUME NEW i \in Index, NEW j \in Index, i <= j
        PROVE  Distance(me.uuid, FingerStart(me, i)) <= Distance(me.uuid, FingerStart(me, j))
    <2>1. CASE i = j
      BY <2>1, <1>1, DistRange DEF Uuid
    <2>2. CASE i < j
      <3>1. 2 * 2^i <= 2^j /\ 2^i \in Nat /\ 2^i >= 1 /\ 2^j \in Nat
        BY <2>2, RingFacts
      <3>2. Distance(me.uuid, FingerStart(me, i)) \in {2^i, 2^i + 1} /\ Distance(me.uuid, FingerStart(me, j)) \in {2^j, 2^j + 1}
        BY StartDist
      <3> QED  BY <3>1, <3>2
    <2> QED  BY <1>2, <2>1, <2>2 DEF Index
  <1> QED  BY <1>1, <1>2

(* uuid::between in distances: the interval that ends at the node itself.  *)
LEMMA BetweenSelf ==
    ASSUME NEW me \in Node, NEW s \in Uuid, NEW x \in Uuid
    PROVE  Between(s, x, me.uuid) <=> Distance(me.uuid, s) < Distance(me.uuid, x)
  BY RingFacts, NodeUuid DEF Between, Distance, Uuid

(* The interval up to a limit beyond its lower end.                        *)
LEMMA BetweenLimit ==
    ASSUME NEW me \in Node, NEW s \in Uuid, NEW x \in Uuid, NEW l \in Uuid, Distance(me.uuid, s) < Distance(me.uuid, l)
    PROVE  Between(s, x, l) <=> Distance(me.uuid, s) < Distance(me.uuid, x) /\ Distance(me.uuid, x) < Distance(me.uuid, l)
  BY RingFacts, NodeUuid DEF Between, Distance, Uuid

-----------------------------------------------------------------------------
(* How far entry i reaches: an empty entry reaches once around the ring.   *)
Reach(me, r, i) == IF Valid(r, i) THEN Distance(me.uuid, r.successors[i].uuid) ELSE Ring

From(me, i) == Distance(me.uuid, FingerStart(me, i))

(* The part of the invariant that is about the table alone, in distances.  *)
InReach(me, r) == \A i \in Index : From(me, i) < Reach(me, r, i)
Tight(me, r) == \A i, j \in Index : From(me, i) < Reach(me, r, j) => Reach(me, r, i) <= Reach(me, r, j)

(* An entry holds a node exactly when it reaches less than once around.    *)
LEMMA ReachRange ==
    ASSUME NEW me \in Node, NEW r \in RouterState, NEW i \in Index
    PROVE  /\ Reach(me, r, i) \in 0 .. Ring
           /\ From(me, i) \in 1 .. MaxUuid
           /\ Valid(r, i) <=> Reach(me, r, i) < Ring
           /\ Valid(r, i) => r.successors[i] \in Node /\ r.successors[i].uuid \in Uuid
<1>1. Valid(r, i) => r.successors[i] \in Node /\ r.successors[i].uuid \in Uuid
  BY NodeUuid DEF RouterState, Valid, OptNode
<1>2. Valid(r, i) => Distance(me.uuid, r.successors[i].uuid) \in 0 .. MaxUuid
  BY <1>1, DistRange
<1>3. From(me, i) \in 1 .. MaxUuid
  BY StartsOrdered, DistRange, RingFacts DEF From
<1> QED  BY <1>1, <1>2, <1>3, RingFacts DEF Reach

(* Holes and order follow: entry i < j starts before entry j's node.       *)
LEMMA ReachOrdered ==
    ASSUME NEW me \in Node, NEW r \in RouterState, InReach(me, r), Tight(me, r),
           NEW i \in Index, NEW j \in Index, i <= j
    PROVE  Reach(me, r, i) <= Reach(me, r, j)
  BY StartsOrdered, ReachRange DEF InReach, Tight, From

(* Router::update in distances.                                            *)
LEMMA ImprovesDist ==
    ASSUME NEW me \in Node, NEW r \in RouterState, InReach(me, r), NEW i \in Index, NEW n \in Node
    PROVE  Improves(me, r, i, n) <=> From(me, i) < Distance(me.uuid, n.uuid) /\ Distance(me.uuid, n.uuid) < Reach(me, r, i)
<1>1. n.uuid \in Uuid /\ FingerStart(me, i) \in Uuid /\ Distance(me.uuid, n.uuid) \in 0 .. MaxUuid
  BY NodeUuid, StartsOrdered, DistRange
<1>2. CASE Valid(r, i)
  <2>1. r.successors[i].uuid \in Uuid /\ Distance(me.uuid, FingerStart(me, i)) < Distance(me.uuid, r.successors[i].uuid)
    BY <1>2, ReachRange DEF InReach, Reach, From
  <2> QED  BY <1>1, <1>2, <2>1, BetweenLimit DEF Improves, Limit, Reach, From
<1>3. CASE ~Valid(r, i)
  BY <1>1, <1>3, BetweenSelf, RingFacts DEF Improves, Limit, Reach, From
<1> QED  BY <1>2, <1>3

(* An entry takes the inserted node if that lies between its start and     *)
(* what it holds.                                                          *)
LEMMA UpdateReach ==
    ASSUME NEW me \in Node, NEW r \in RouterState, InReach(me, r), NEW n \in Node, n # me,
           NEW q, q = update(me, r, n)
    PROVE  /\ q \in RouterState
           /\ \A i \in Index :
                /\ q.successors[i] \in {r.successors[i], n}
                /\ Reach(me, q, i) = IF From(me, i) < Distance(me.uuid, n.uuid) /\ Distance(me.uuid, n.uuid) < Reach(me, r, i)
                                 THEN Distance(me.uuid, n.uuid) ELSE Reach(me, r, i)
<1>1. q.successors = [i \in Index |-> IF Improves(me, r, i, n) THEN n ELSE r.successors[i]]
  BY DEF update
<1>2. q \in RouterState
  BY DEF update, RouterState, OptNode
<1>3. ASSUME NEW i \in Index
      PROVE  /\ q.successors[i] \in {r.successors[i], n}
             /\ Reach(me, q, i) = IF From(me, i) < Distance(me.uuid, n.uuid) /\ Distance(me.uuid, n.uuid) < Reach(me, r, i)
                              THEN Distance(me.uuid, n.uuid) ELSE Reach(me, r, i)
  BY <1>1, NoNodeAssumption, ImprovesDist DEF Reach, Valid
<1> QED  BY <1>2, <1>3

(* update keeps the table in shape, brings in nothing but the node, and    *)
(* takes every entry at least as close as the node allows.                 *)
LEMMA UpdateTable ==
    ASSUME NEW me \in Node, NEW r \in RouterState, InReach(me, r), Tight(me, r), NEW n \in Node,
           NEW q, q = update(me, r, n)
    PROVE  /\ q \in RouterState /\ InReach(me, q) /\ Tight(me, q)
           /\ get(q) \subseteq get(r) \cup {n}
           /\ \A i \in Index : /\ Reach(me, q, i) <= Reach(me, r, i)
                               /\ From(me, i) < Distance(me.uuid, n.uuid) => Reach(me, q, i) <= Distance(me.uuid, n.uuid)
<1>0. n.uuid \in Uuid /\ Distance(me.uuid, n.uuid) \in 0 .. MaxUuid
  BY NodeUuid, DistRange
<1>1. \A i \in Index : Reach(me, r, i) \in 0 .. Ring /\ From(me, i) \in 1 .. MaxUuid
  BY ReachRange
<1>2. CASE n = me
  <2>1. q = r
    BY <1>2 DEF update
  <2>2. \A i \in Index : Reach(me, r, i) <= Reach(me, r, i) /\ ~(From(me, i) < Distance(me.uuid, n.uuid))
    BY <1>0, <1>1, <1>2, DistRange, RingFacts
  <2> QED  BY <2>1, <2>2
<1>3. CASE n # me
  <2>1. /\ q \in RouterState
        /\ \A i \in Index :
             /\ q.successors[i] \in {r.successors[i], n}
             /\ Reach(me, q, i) = IF From(me, i) < Distance(me.uuid, n.uuid) /\ Distance(me.uuid, n.uuid) < Reach(me, r, i)
                              THEN Distance(me.uuid, n.uuid) ELSE Reach(me, r, i)
    BY <1>3, UpdateReach
  <2>2. InReach(me, q) /\ Tight(me, q)
    BY <1>0, <1>1, <2>1, RingFacts DEF InReach, Tight
  <2>3. get(q) \subseteq get(r) \cup {n}
    BY <2>1 DEF get
  <2>4. \A i \in Index : /\ Reach(me, q, i) <= Reach(me, r, i)
                         /\ From(me, i) < Distance(me.uuid, n.uuid) => Reach(me, q, i) <= Distance(me.uuid, n.uuid)
    BY <1>0, <1>1, <2>1, RingFacts
  <2> QED  BY <2>1, <2>2, <2>3, <2>4
<1> QED  BY <1>2, <1>3

-----------------------------------------------------------------------------
(* A set of naturals has a least element ...                               *)
LEMMA FirstOfNat ==
    ASSUME NEW S \in SUBSET Nat, S # {}
    PROVE  First(S) \in S /\ \A j \in S : First(S) <= j
<1> DEFINE Less == {ss \in Nat \X Nat : ss[1] < ss[2]}
<1>1. IsWellFoundedOn(Less, Nat)
  BY NatLessThanWellFounded, Zenon DEF OpToRel
<1>3. \E x \in S : \A y \in S : ~(<<y, x>> \in Less)
  <2> HIDE DEF Less
  <2> QED  BY <1>1, WFMin
<1>4. \A x, y \in Nat : y < x => <<y, x>> \in Less
  OBVIOUS
<1>5. \E x \in S : \A y \in S : x <= y
  <2> HIDE DEF Less
  <2>1. PICK x \in S : \A y \in S : ~(<<y, x>> \in Less)
    BY <1>3
  <2>2. \A y \in S : ~(y < x)
    BY <1>4, <2>1, Zenon
  <2> QED  BY <2>2
<1> QED  BY <1>5 DEF First

(* ... and, if it is bounded, a greatest.                                  *)
LEMMA LastOfNat ==
    ASSUME NEW m \in Nat, NEW S \in SUBSET (0 .. m), S # {}
    PROVE  Last(S) \in S /\ \A j \in S : j <= Last(S)
<1> DEFINE T == {k \in 0 .. m : m - k \in S}
<1>1. T \in SUBSET Nat /\ T # {}
  <2>1. PICK s \in S : TRUE
    OBVIOUS
  <2>2. m - s \in T
    BY <2>1
  <2> QED  BY <2>2
<1>2. First(T) \in T /\ \A j \in T : First(T) <= j
  <2> HIDE DEF T
  <2> QED  BY <1>1, FirstOfNat
<1>3. \A j \in S : m - j \in T
  OBVIOUS
<1>4. \E x \in S : \A y \in S : y <= x
  <2>1. m - First(T) \in S /\ First(T) \in 0 .. m
    BY <1>2
  <2>2. \A y \in S : First(T) <= m - y
    <3> HIDE DEF T
    <3> QED  BY <1>2, <1>3
  <2> HIDE DEF T
  <2> QED  BY <2>1, <2>2
<1> QED  BY <1>4 DEF Last

(* The least of the indices remove() looks at, and the greatest.           *)
LEMMA FirstIsLeast ==
    ASSUME NEW S \in SUBSET Index, S # {}
    PROVE  First(S) \in S /\ \A j \in S : First(S) <= j
<1>1. S \in SUBSET Nat
  BY DEF Index
<1> QED  BY <1>1, FirstOfNat

(* The greatest of a set of indices is in it and bounds it.                *)
LEMMA LastIsGreatest ==
    ASSUME NEW S \in SUBSET Index, S # {}
    PROVE  Last(S) \in S /\ \A j \in S : j <= Last(S)
<1>1. BITS - 1 \in Nat /\ S \in SUBSET (0 .. (BITS - 1))
  BY BitsAssumption DEF Index
<1> QED  BY <1>1, LastOfNat

-----------------------------------------------------------------------------
(* What remove() leaves in entry i: the node of an entry that survives and *)
(* is not lower, the first such one; or nothing, when none survives there. *)
LEMMA RemoveEntry ==
    ASSUME NEW me \in Node, NEW r \in RouterState, InReach(me, r), Tight(me, r), NEW u, NEW i \in Index,
           NEW q, q = remove(me, r, u)
    PROVE  \/ /\ q.successors[i] = NoNode
              /\ \A j \in Surviving(r, u) : j < i
           \/ \E k \in Surviving(r, u) :
                 /\ q.successors[i] = r.successors[k]
                 /\ i <= k
                 /\ \A j \in Surviving(r, u) : i <= j => k <= j
<1> DEFINE Hit == Valid(r, i) /\ r.successors[i].uuid = u
           R == Replacements(me, r, i, u)
<1>0. i \in Int /\ \A j \in Index : j \in Int
  BY BitsAssumption DEF Index
<1>1. q.successors[i] = IF Hit THEN NextHigher(me, r, i, u) ELSE r.successors[i]
  BY DEF remove
<1>2. R = {j \in Surviving(r, u) : j > i}
  <2>1. \A j \in Surviving(r, u) : r.successors[j].uuid # me.uuid
    BY ReachRange, DistRange, RingFacts DEF Surviving, InReach, Reach
  <2> QED  BY <2>1 DEF Replacements
<1>3. CASE ~Hit /\ Valid(r, i)
  BY <1>0, <1>1, <1>3 DEF Surviving
<1>4. CASE ~Hit /\ ~Valid(r, i)
  <2>1. ASSUME NEW j \in Surviving(r, u), i <= j
        PROVE  FALSE
    <3>1. j \in Index /\ Valid(r, j)
      BY DEF Surviving
    <3>2. Reach(me, r, i) <= Reach(me, r, j)
      BY <2>1, <3>1, ReachOrdered
    <3> QED  BY <1>4, <3>1, <3>2, ReachRange, RingFacts
  <2>2. \A j \in Surviving(r, u) : j < i
    BY <1>0, <2>1 DEF Surviving
  <2> QED  BY <1>1, <1>4, <2>2 DEF Valid
<1>5. CASE Hit /\ R = {}
  <2>1. q.successors[i] = NoNode
    BY <1>1, <1>5 DEF NextHigher, NodeAt
  <2>2. \A j \in Surviving(r, u) : j < i
    BY <1>0, <1>2, <1>5 DEF Surviving
  <2> QED  BY <2>1, <2>2
<1>6. CASE Hit /\ R # {}
  <2>1. R \in SUBSET Index
    BY DEF Replacements, Surviving
  <2>2. PICK k \in R : k = First(R) /\ \A j \in R : k <= j
    <3> HIDE DEF R
    <3> QED  BY <1>6, <2>1, FirstIsLeast
  <2>3. q.successors[i] = r.successors[k]
    BY <1>1, <1>6, <2>2 DEF NextHigher, NodeAt
  <2>4. k \in Surviving(r, u) /\ i <= k
    <3> HIDE DEF R
    <3> QED  BY <1>0, <1>2, <2>1
  <2>5. \A j \in Surviving(r, u) : i <= j => k <= j
    <3>1. i \notin Surviving(r, u)
      BY <1>6 DEF Surviving
    <3>2. SUFFICES ASSUME NEW j \in Surviving(r, u), i <= j PROVE k <= j
      OBVIOUS
    <3>3. j \in Index
      BY DEF Surviving
    <3>4. j # i
      BY <3>1
    <3>5. j > i
      BY <1>0, <3>2, <3>3, <3>4
    <3>6. j \in R
      <4> HIDE DEF R
      <4> QED  BY <1>2, <3>5
    <3> HIDE DEF R
    <3> QED  BY <2>2, <3>6
  <2> QED  BY <2>3, <2>4, <2>5
<1> QED  BY <1>3, <1>4, <1>5, <1>6

(* remove keeps the table in shape, forgets the node, brings in nothing    *)
(* and brings no entry closer.                                             *)
LEMMA RemoveTable ==
    ASSUME NEW me \in Node, NEW r \in RouterState, InReach(me, r), Tight(me, r), NEW u,
           NEW q, q = remove(me, r, u)
    PROVE  /\ q \in RouterState /\ InReach(me, q) /\ Tight(me, q)
           /\ get(q) \subseteq {n \in get(r) : n.uuid # u}
           /\ q.predecessor # NoNode =>
                 q.predecessor.uuid # u /\ q.predecessor \in get(r) \cup {r.predecessor}
           /\ \A i \in Index : Reach(me, q, i) >= Reach(me, r, i)
<1>1. \A i \in Index : r.successors[i] \in OptNode
  BY DEF RouterState
<1>2. \A i \in Index :
         \/ q.successors[i] = NoNode
         \/ \E k \in Surviving(r, u) : q.successors[i] = r.successors[k]
  BY RemoveEntry
<1>3. q.predecessor \in {NoNode} \cup {r.successors[k] : k \in Surviving(r, u)}
      \/ (q.predecessor = r.predecessor /\ ~PredecessorFailed(r, u))
  <2> DEFINE S == Surviving(r, u)
  <2>1. S \in SUBSET Index
    BY DEF Surviving
  <2>2. S # {} => Last(S) \in S
    <3> HIDE DEF S
    <3> QED  BY <2>1, LastIsGreatest
  <2>3. Highest(r, u) \in {NoNode} \cup {r.successors[k] : k \in S}
    BY <2>2 DEF Highest, NodeAt
  <2>4. q.predecessor = IF PredecessorFailed(r, u) THEN Highest(r, u) ELSE r.predecessor
    BY DEF remove, PredecessorFailed
  <2> QED  BY <2>3, <2>4
<1>4. q \in RouterState
  <2>1. q = [successors |-> q.successors, predecessor |-> q.predecessor]
        /\ q.successors = [i \in Index |-> q.successors[i]]
    BY DEF remove
  <2>2. \A i \in Index : q.successors[i] \in OptNode
    BY <1>1, <1>2 DEF OptNode, Surviving
  <2>3. q.predecessor \in OptNode
    BY <1>1, <1>3 DEF OptNode, Surviving, RouterState
  <2>4. q.successors \in [Index -> OptNode]
    BY <2>1, <2>2
  <2> QED  BY <2>1, <2>3, <2>4 DEF RouterState
<1>5. get(q) \subseteq {n \in get(r) : n.uuid # u}
  BY <1>2 DEF get, Surviving, Valid
<1>6. q.predecessor # NoNode =>
         q.predecessor.uuid # u /\ q.predecessor \in get(r) \cup {r.predecessor}
  BY <1>3 DEF get, Surviving, Valid, PredecessorFailed, has_predecessor
<1>7. \A i \in Index : Reach(me, q, i) \in 0 .. Ring /\ Reach(me, r, i) \in 0 .. Ring /\ From(me, i) \in 1 .. MaxUuid
  BY <1>4, ReachRange
<1>8. ASSUME NEW i \in Index
      PROVE  \/ Reach(me, q, i) = Ring /\ \A j \in Surviving(r, u) : j < i
             \/ \E k \in Surviving(r, u) : /\ Reach(me, q, i) = Reach(me, r, k)
                                          /\ i <= k
                                          /\ \A j \in Surviving(r, u) : i <= j => k <= j
  <2>1. CASE q.successors[i] = NoNode /\ \A j \in Surviving(r, u) : j < i
    BY <2>1 DEF Reach, Valid
  <2>2. ASSUME NEW k \in Surviving(r, u), q.successors[i] = r.successors[k]
        PROVE  Reach(me, q, i) = Reach(me, r, k)
    BY <2>2 DEF Reach, Valid, Surviving
  <2>3. \/ /\ q.successors[i] = NoNode
           /\ \A j \in Surviving(r, u) : j < i
        \/ \E k \in Surviving(r, u) :
              /\ q.successors[i] = r.successors[k]
              /\ i <= k
              /\ \A j \in Surviving(r, u) : i <= j => k <= j
    BY RemoveEntry
  <2> QED  BY <2>1, <2>2, <2>3, Zenon
<1>9. \A i \in Index : Reach(me, q, i) >= Reach(me, r, i)
  BY <1>7, <1>8, ReachOrdered DEF Surviving
<1>10. InReach(me, q)
  BY <1>7, <1>9, RingFacts DEF InReach
<1>11. Tight(me, q)
  <2> SUFFICES ASSUME NEW i \in Index, NEW j \in Index, From(me, i) < Reach(me, q, j)
               PROVE  Reach(me, q, i) <= Reach(me, q, j)
    BY DEF Tight
  <2>1. CASE Reach(me, q, j) = Ring
    BY <1>7, <2>1
  <2>2. ASSUME NEW k \in Surviving(r, u), Reach(me, q, j) = Reach(me, r, k)
        PROVE  Reach(me, q, i) <= Reach(me, q, j)
    <3>1. k \in Index /\ Valid(r, k) /\ r.successors[k].uuid # u
      BY DEF Surviving
    <3>2. Reach(me, r, i) <= Reach(me, r, k)
      BY <2>2, <3>1 DEF Tight
    <3>3. \E m \in Surviving(r, u) : i <= m /\ Reach(me, r, m) = Reach(me, r, k)
      <4>0. i \in Int /\ k \in Int
        BY <3>1, BitsAssumption DEF Index
      <4>1. CASE i <= k
        BY <4>1
      <4>2. CASE k < i
        <5>1. Reach(me, r, i) = Reach(me, r, k)
          BY <1>7, <3>1, <3>2, <4>0, <4>2, ReachOrdered
        <5>2. Valid(r, i) /\ Distance(me.uuid, r.successors[i].uuid) = Distance(me.uuid, r.successors[k].uuid)
          BY <3>1, <5>1, ReachRange, RingFacts DEF Reach
        <5>3. r.successors[i].uuid = r.successors[k].uuid
          BY <3>1, <5>2, ReachRange, DistInjective
        <5>4. i \in Surviving(r, u)
          BY <3>1, <5>2, <5>3 DEF Surviving
        <5> QED  BY <4>0, <5>1, <5>4
      <4> QED  BY <4>0, <4>1, <4>2
    <3>4. PICK m \in Surviving(r, u) : i <= m /\ Reach(me, r, m) = Reach(me, r, k)
      BY <3>3
    <3>5. m \in Index /\ i \in Int /\ m \in Int
      BY BitsAssumption DEF Index, Surviving
    <3>6. PICK l \in Surviving(r, u) : Reach(me, q, i) = Reach(me, r, l) /\ l <= m
      BY <1>8, <3>4, <3>5
    <3> QED  BY <2>2, <3>4, <3>5, <3>6, ReachOrdered DEF Surviving
  <2> QED  BY <1>8, <2>1, <2>2
<1> QED  BY <1>4, <1>5, <1>6, <1>9, <1>10, <1>11
-----------------------------------------------------------------------------
(* Induction up to a bound: a set that holds 0 and, with a number below    *)
(* the bound, its successor, holds them all.                               *)
LEMMA UpTo ==
    ASSUME NEW m \in Nat, NEW S, 0 \in S,
           \A k \in 0 .. m : k \in S /\ k < m => k + 1 \in S
    PROVE  \A k \in 0 .. m : k \in S
<1> DEFINE T == {k \in 0 .. m : k \notin S}
<1> SUFFICES ASSUME T # {} PROVE FALSE
  OBVIOUS
<1>1. T \in SUBSET Nat
  OBVIOUS
<1>2. PICK x \in T : \A j \in T : x <= j
  <2> HIDE DEF T
  <2> QED  BY <1>1, FirstOfNat
<1>3. x # 0 /\ x \in 0 .. m /\ x \notin S
  OBVIOUS
<1>4. x - 1 \in 0 .. m /\ x - 1 < m /\ ~(x <= x - 1)
  BY <1>3
<1>5. x - 1 \in S
  BY <1>2, <1>4
<1>6. (x - 1) + 1 = x
  BY <1>3
<1> QED  BY <1>3, <1>4, <1>5, <1>6

(* What one round of Router::update(set) does with the node of uuid k - 1, *)
(* if the set has one.                                                     *)
Round(me, nodes, r, k) ==
    LET here == {n \in nodes : n.uuid = k - 1}
    IN  IF here = {} THEN r ELSE update(me, r, CHOOSE n \in here : TRUE)

(* f holds the router before the first round and after each.               *)
Rounds(me, r, nodes, f, last) ==
    f = [k \in 0 .. last |-> IF k = 0 THEN r ELSE Round(me, nodes, f[k - 1], k)]

(* The rounds can be made one after the other: the recursive definition of *)
(* update_set defines a function.                                          *)
LEMMA RoundsExist ==
    ASSUME NEW me, NEW r, NEW nodes
    PROVE  \E f : Rounds(me, r, nodes, f, Ring)
<1> DEFINE S == {n \in 0 .. Ring : \E f : Rounds(me, r, nodes, f, n)}
<1>0. Ring \in Nat
  BY RingFacts
<1>1. 0 \in S
  <2>1. Rounds(me, r, nodes, [k \in 0 .. 0 |-> r], 0)
    BY DEF Rounds
  <2>2. 0 \in 0 .. Ring
    BY <1>0
  <2> QED  BY <2>1, <2>2
<1>2. ASSUME NEW n \in 0 .. Ring, n \in S, n < Ring PROVE n + 1 \in S
  <2>1. PICK f : Rounds(me, r, nodes, f, n)
    BY <1>2
  <2> DEFINE g == [k \in 0 .. (n + 1) |-> IF k = n + 1 THEN Round(me, nodes, f[n], n + 1) ELSE f[k]]
  <2>2. \A k \in 0 .. n : g[k] = f[k] /\ k \in 0 .. (n + 1) /\ k # n + 1
    BY <1>0
  <2>3. \A k \in 0 .. n : f[k] = IF k = 0 THEN r ELSE Round(me, nodes, f[k - 1], k)
    BY <2>1 DEF Rounds
  <2>4. ASSUME NEW k \in 0 .. (n + 1)
        PROVE  g[k] = IF k = 0 THEN r ELSE Round(me, nodes, g[k - 1], k)
    <3>1. CASE k = n + 1
      <4>1. k - 1 = n /\ k # 0 /\ n \in 0 .. n
        BY <1>0, <3>1
      <4>2. g[k - 1] = f[n]
        BY <2>2, <4>1
      <4>3. g[k] = Round(me, nodes, f[n], k)
        BY <3>1
      <4> QED  BY <4>1, <4>2, <4>3
    <3>2. CASE k # n + 1
      <4>1. k \in 0 .. n /\ (k = 0 \/ k - 1 \in 0 .. n)
        BY <1>0, <3>2
      <4>2. g[k] = f[k] /\ (k = 0 \/ g[k - 1] = f[k - 1])
        BY <2>2, <4>1
      <4> QED  BY <2>3, <4>1, <4>2
    <3> QED  BY <3>1, <3>2
  <2>5. Rounds(me, r, nodes, g, n + 1)
    <3>1. g = [k \in 0 .. (n + 1) |-> g[k]]
      OBVIOUS
    <3> HIDE DEF g
    <3> QED  BY <2>4, <3>1 DEF Rounds
  <2>6. n + 1 \in 0 .. Ring
    BY <1>0, <1>2
  <2> QED  BY <2>5, <2>6
<1>3. Ring \in S
  <2> HIDE DEF S
  <2>1. \A k \in 0 .. Ring : k \in S
    BY <1>0, <1>1, <1>2, UpTo
  <2> QED  BY <1>0, <2>1
<1> QED  BY <1>3

(* Router::update(set) keeps the table in shape and takes no entry further *)
(* away.                                                                   *)
LEMMA UpdateSetTable ==
    ASSUME NEW me \in Node, NEW r \in RouterState, InReach(me, r), Tight(me, r),
           NEW nodes \in SUBSET Node,
           NEW q, q = update_set(me, r, nodes)
    PROVE  /\ q \in RouterState /\ InReach(me, q) /\ Tight(me, q)
           /\ \A i \in Index : Reach(me, q, i) <= Reach(me, r, i)
<1> DEFINE Good(x) == /\ x \in RouterState /\ InReach(me, x) /\ Tight(me, x)
                      /\ \A i \in Index : Reach(me, x, i) <= Reach(me, r, i)
           F == CHOOSE f : Rounds(me, r, nodes, f, Ring)
           S == {k \in 0 .. Ring : Good(F[k])}
<1>0. Ring \in Nat
  BY RingFacts
<1>1. q = F[Ring]
  BY DEF update_set, Round, Rounds
<1>2. Rounds(me, r, nodes, F, Ring)
  <2>1. \E f : Rounds(me, r, nodes, f, Ring)
    BY RoundsExist
  <2> QED  BY <2>1
<1>3. \A k \in 0 .. Ring : F[k] = IF k = 0 THEN r ELSE Round(me, nodes, F[k - 1], k)
  <2> HIDE DEF F
  <2> QED  BY <1>2 DEF Rounds
<1> HIDE DEF F
<1>4. 0 \in S
  <2>1. Good(r)
    BY ReachRange
  <2>2. F[0] = r /\ 0 \in 0 .. Ring
    BY <1>0, <1>3
  <2> QED  BY <2>1, <2>2
<1>5. ASSUME NEW k \in 0 .. Ring, k \in S, k < Ring PROVE k + 1 \in S
  <2> DEFINE here == {n \in nodes : n.uuid = (k + 1) - 1}
             x == F[k]
             y == F[k + 1]
  <2>1. k + 1 \in 0 .. Ring /\ k + 1 # 0 /\ (k + 1) - 1 = k
    BY <1>0, <1>5
  <2>2. y = Round(me, nodes, x, k + 1)
    BY <1>3, <2>1
  <2>3. Good(x)
    BY <1>5
  <2>4. Good(y)
    <3>1. CASE here = {}
      <4>1. y = x
        BY <2>2, <3>1 DEF Round
      <4> HIDE DEF x, y, Good
      <4> QED  BY <2>3, <4>1
    <3>2. CASE here # {}
      <4> DEFINE n == CHOOSE m \in here : TRUE
      <4>1. n \in Node
        BY <3>2
      <4>2. y = update(me, x, n)
        BY <2>2, <3>2 DEF Round
      <4> HIDE DEF x, y, n
      <4>3. /\ y \in RouterState /\ InReach(me, y) /\ Tight(me, y)
            /\ \A i \in Index : Reach(me, y, i) <= Reach(me, x, i)
        BY <2>3, <4>1, <4>2, UpdateTable
      <4>4. \A i \in Index : /\ Reach(me, y, i) \in Int
                            /\ Reach(me, x, i) \in Int
                            /\ Reach(me, r, i) \in Int
        BY <2>3, <4>3, ReachRange, RingFacts
      <4> QED  BY <2>3, <4>3, <4>4
    <3> QED  BY <3>1, <3>2
  <2> HIDE DEF Good
  <2> QED  BY <2>1, <2>4
<1>6. Ring \in S
  <2> HIDE DEF S
  <2>1. \A k \in 0 .. Ring : k \in S
    BY <1>0, <1>4, <1>5, UpTo
  <2> QED  BY <1>0, <2>1
<1> QED  BY <1>1, <1>6

-----------------------------------------------------------------------------
(* How many elements of a set of indices are not below i.                  *)
Rank(S, i) == Cardinality({j \in S : j >= i})

(* The rank counts every element as i goes down, and nothing else.         *)
LEMMA RankSteps ==
    ASSUME NEW S \in SUBSET Index
    PROVE  /\ Cardinality(S) \in Nat
           /\ \A i \in 0 .. BITS : Rank(S, i) \in 0 .. Cardinality(S)
           /\ Rank(S, BITS) = 0 /\ Rank(S, 0) = Cardinality(S)
           /\ \A i \in Index : Rank(S, i) = IF i \in S THEN Rank(S, i + 1) + 1 ELSE Rank(S, i + 1)
<1> DEFINE U(i) == {j \in S : j >= i}
<1>0. BITS \in Nat /\ \A i \in Index : i \in Nat /\ i < BITS
  BY BitsAssumption DEF Index
<1>1. IsFiniteSet(S) /\ Cardinality(S) \in Nat
  <2>1. IsFiniteSet(Index)
    BY <1>0, FS_Interval DEF Index
  <2> QED  BY <2>1, FS_Subset, FS_CardinalityType
<1>2. \A i \in 0 .. BITS :
         IsFiniteSet(U(i)) /\ Cardinality(U(i)) \in Nat /\ Cardinality(U(i)) <= Cardinality(S)
  <2> TAKE i \in 0 .. BITS
  <2>1. U(i) \in SUBSET S
    OBVIOUS
  <2> HIDE DEF U
  <2> QED  BY <1>1, <2>1, FS_Subset, FS_CardinalityType
<1>3. U(BITS) = {} /\ U(0) = S
  BY <1>0
<1>4. Cardinality(U(BITS)) = 0 /\ Cardinality(U(0)) = Cardinality(S)
  <2> HIDE DEF U
  <2> QED  BY <1>3, FS_EmptySet
<1>5. ASSUME NEW i \in Index
      PROVE  Cardinality(U(i)) = IF i \in S THEN Cardinality(U(i + 1)) + 1 ELSE Cardinality(U(i + 1))
  <2>1. i + 1 \in 0 .. BITS
    BY <1>0
  <2>2. CASE i \in S
    <3>1. U(i) = U(i + 1) \cup {i} /\ i \notin U(i + 1)
      BY <1>0, <2>2
    <3> HIDE DEF U
    <3> QED  BY <1>2, <2>1, <2>2, <3>1, FS_AddElement
  <2>3. CASE i \notin S
    <3>1. U(i) = U(i + 1)
      BY <1>0, <2>3
    <3> HIDE DEF U
    <3> QED  BY <2>3, <3>1
  <2> QED  BY <2>2, <2>3
<1>6. \A i : Rank(S, i) = Cardinality(U(i))
  BY DEF Rank
<1> HIDE DEF U
<1> QED  BY <1>1, <1>2, <1>4, <1>5, <1>6

(* A higher element has a lower rank.                                      *)
LEMMA RankFalls ==
    ASSUME NEW S \in SUBSET Index, NEW i \in S, NEW k \in 0 .. BITS, i < k
    PROVE  Rank(S, k) < Rank(S, i)
<1> DEFINE V(j) == {l \in S : l >= j}
<1>0. BITS \in Nat /\ i \in Index /\ i \in 0 .. BITS
  BY BitsAssumption DEF Index
<1>1. IsFiniteSet(V(i))
  <2>1. IsFiniteSet(Index)
    BY <1>0, FS_Interval DEF Index
  <2> QED  BY <2>1, FS_Subset
<1>2. V(k) \in SUBSET V(i) /\ V(k) # V(i)
  <2>1. i \in V(i) /\ i \notin V(k)
    BY <1>0
  <2>2. \A l \in S : l >= k => l >= i
    BY <1>0 DEF Index
  <2> QED  BY <2>1, <2>2
<1>3. Rank(S, k) = Cardinality(V(k)) /\ Rank(S, i) = Cardinality(V(i))
  BY DEF Rank
<1>4. Rank(S, k) \in Nat /\ Rank(S, i) \in Nat
  BY <1>0, RankSteps
<1> HIDE DEF V
<1> QED  BY <1>1, <1>2, <1>3, <1>4, FS_Subset

(* Every position is the rank of an element.                               *)
LEMMA RankOnto ==
    ASSUME NEW S \in SUBSET Index, NEW p \in 1 .. Cardinality(S)
    PROVE  \E i \in S : Rank(S, i) = p
<1> DEFINE A == {i \in 0 .. BITS : Rank(S, i) >= p}
<1>0. BITS \in Nat /\ p \in Nat /\ p >= 1 /\ p <= Cardinality(S) /\ Cardinality(S) \in Nat
  BY BitsAssumption, RankSteps
<1>1. A \in SUBSET (0 .. BITS) /\ 0 \in A
  BY <1>0, RankSteps
<1>2. PICK i \in A : \A j \in A : j <= i
  <2> HIDE DEF A
  <2> QED  BY <1>0, <1>1, LastOfNat
<1>3. i \in 0 .. BITS /\ Rank(S, i) >= p /\ Rank(S, i) \in Nat
  BY RankSteps
<1>4. i # BITS
  BY <1>0, <1>3, RankSteps
<1>5. i \in Index /\ i + 1 \in 0 .. BITS /\ ~(i + 1 <= i)
  BY <1>0, <1>3, <1>4 DEF Index
<1>6. ~(Rank(S, i + 1) >= p) /\ Rank(S, i + 1) \in Nat
  BY <1>2, <1>5, RankSteps
<1>7. Rank(S, i) = IF i \in S THEN Rank(S, i + 1) + 1 ELSE Rank(S, i + 1)
  BY <1>5, RankSteps
<1> QED  BY <1>0, <1>3, <1>6, <1>7

(* The backward loop over the entries of S visits each of them once, from  *)
(* the highest down.                                                       *)
LEMMA DownwardsIs ==
    ASSUME NEW S \in SUBSET Index, NEW d, d = Downwards(S)
    PROVE  /\ Cardinality(S) \in Nat
           /\ d \in [1 .. Cardinality(S) -> S]
           /\ \A p, q \in 1 .. Cardinality(S) : p < q => d[q] < d[p]
           /\ \A i \in S : \E p \in 1 .. Cardinality(S) : d[p] = i
<1> DEFINE c == Cardinality(S)
           D(p) == CHOOSE i \in S : Rank(S, i) = p
<1>0. c \in Nat
  BY RankSteps
<1>1. d = [p \in 1 .. c |-> D(p)]
  BY DEF Downwards, Rank
<1>2. \A p \in 1 .. c : D(p) \in S /\ Rank(S, D(p)) = p
  BY RankOnto
<1> HIDE DEF D, c
<1>3. \A i \in S : i \in Int /\ i \in 0 .. BITS
  BY BitsAssumption DEF Index
<1>4. ASSUME NEW p \in 1 .. c, NEW q \in 1 .. c, p < q PROVE d[q] < d[p]
  <2>1. D(p) \in S /\ Rank(S, D(p)) = p /\ D(q) \in S /\ Rank(S, D(q)) = q
    BY <1>2
  <2>2. CASE D(p) < D(q)
    <3>1. q < p
      BY <1>3, <2>1, <2>2, RankFalls
    <3> QED  BY <1>0, <1>4, <3>1
  <2>3. CASE D(p) = D(q)
    BY <1>0, <1>4, <2>1, <2>3
  <2> QED  BY <1>1, <1>3, <2>1, <2>2, <2>3
<1>5. ASSUME NEW i \in S PROVE \E p \in 1 .. c : d[p] = i
  <2> DEFINE p == Rank(S, i)
  <2>0. i \in Index /\ i + 1 \in 0 .. BITS /\ i \in 0 .. BITS
    BY BitsAssumption DEF Index
  <2>1. p \in 1 .. c
    <3>1. p \in 0 .. c /\ p = Rank(S, i + 1) + 1 /\ Rank(S, i + 1) \in 0 .. c
      BY <2>0, RankSteps DEF c
    <3> QED  BY <1>0, <3>1
  <2>2. D(p) \in S /\ Rank(S, D(p)) = p
    BY <1>2, <2>1
  <2>3. D(p) = i
    <3>1. ~(D(p) < i)
      <4> SUFFICES ASSUME D(p) < i PROVE FALSE
        OBVIOUS
      <4>1. Rank(S, i) < Rank(S, D(p))
        BY <2>0, <2>2, RankFalls
      <4> QED  BY <1>0, <2>1, <2>2, <4>1
    <3>2. ~(i < D(p))
      <4> SUFFICES ASSUME i < D(p) PROVE FALSE
        OBVIOUS
      <4>1. D(p) \in 0 .. BITS
        BY <1>3, <2>2
      <4>2. Rank(S, D(p)) < Rank(S, i)
        BY <2>2, <4>1, RankFalls
      <4> QED  BY <1>0, <2>1, <2>2, <4>2
    <3> QED  BY <1>3, <2>2, <3>1, <3>2
  <2> QED  BY <1>1, <2>1, <2>3
<1>6. d \in [1 .. c -> S]
  BY <1>1, <1>2
<1> QED  BY <1>0, <1>4, <1>5, <1>6 DEF c

-----------------------------------------------------------------------------
(* An identifier is known under one endpoint only: no two entries hold     *)
(* different nodes of the same uuid.                                       *)
OneEndpoint(r) ==
    \A i, j \in Index :
        Valid(r, i) /\ Valid(r, j) /\ r.successors[i].uuid = r.successors[j].uuid =>
            r.successors[i] = r.successors[j]

(* update does not take a node that an entry holds already under another   *)
(* endpoint ...                                                            *)
LEMMA UpdateOneEndpoint ==
    ASSUME NEW me \in Node, NEW r \in RouterState, InReach(me, r), Tight(me, r), OneEndpoint(r),
           NEW n \in Node, NEW q, q = update(me, r, n)
    PROVE  OneEndpoint(q)
<1>1. CASE n = me
  BY <1>1 DEF update
<1>2. CASE n # me
  <2> SUFFICES ASSUME NEW i \in Index, NEW j \in Index, Valid(q, i), Valid(q, j),
                      q.successors[i].uuid = q.successors[j].uuid
               PROVE  q.successors[i] = q.successors[j]
    BY DEF OneEndpoint
  <2> DEFINE Took(k) == From(me, k) < Distance(me.uuid, n.uuid) /\ Distance(me.uuid, n.uuid) < Reach(me, r, k)
  <2>1. \A k \in Index : q.successors[k] = IF Took(k) THEN n ELSE r.successors[k]
    <3>1. q.successors = [k \in Index |-> IF Improves(me, r, k, n) THEN n ELSE r.successors[k]]
      BY <1>2 DEF update
    <3> QED  BY <3>1, ImprovesDist
  <2>2. ASSUME NEW k \in Index, NEW l \in Index, Took(k), ~Took(l), Valid(q, l),
               q.successors[l].uuid = n.uuid
        PROVE  FALSE
    <3>1. q.successors[l] = r.successors[l] /\ Valid(r, l)
      BY <2>1, <2>2 DEF Valid
    <3>2. Reach(me, r, l) = Distance(me.uuid, n.uuid)
      BY <2>2, <3>1 DEF Reach
    <3>3. Reach(me, r, k) <= Reach(me, r, l)
      BY <2>2, <3>2 DEF Tight
    <3>4. Reach(me, r, k) \in Int /\ Reach(me, r, l) \in Int
      BY ReachRange, RingFacts
    <3> QED  BY <2>2, <3>2, <3>3, <3>4
  <2> HIDE DEF Took
  <2>3. CASE Took(i) /\ Took(j)
    BY <2>1, <2>3
  <2>4. CASE Took(i) /\ ~Took(j)
    BY <2>1, <2>2, <2>4
  <2>5. CASE ~Took(i) /\ Took(j)
    BY <2>1, <2>2, <2>5
  <2>6. CASE ~Took(i) /\ ~Took(j)
    BY <2>1, <2>6 DEF OneEndpoint, Valid
  <2> QED  BY <2>3, <2>4, <2>5, <2>6
<1> QED  BY <1>1, <1>2

(* ... and remove only copies nodes of the table.                          *)
LEMMA RemoveOneEndpoint ==
    ASSUME NEW me \in Node, NEW r \in RouterState, InReach(me, r), Tight(me, r), OneEndpoint(r),
           NEW u, NEW q, q = remove(me, r, u)
    PROVE  OneEndpoint(q)
<1>1. \A i \in Index : Valid(q, i) => \E k \in Index : Valid(r, k) /\ q.successors[i] = r.successors[k]
  BY RemoveEntry DEF Surviving, Valid
<1> QED  BY <1>1 DEF OneEndpoint

-----------------------------------------------------------------------------
(* Entries that are pushed hold every node of the entries looked at ...    *)
LEMMA PushedAll ==
    ASSUME NEW r, NEW P \in SUBSET Index, NEW i \in P
    PROVE  \E t \in Pushed(r, P) : r.successors[t] = r.successors[i]
<1> DEFINE T == {j \in P : r.successors[j] = r.successors[i]}
           t == Last(T)
           H == {j \in P : j > t}
<1>1. T \in SUBSET Index /\ T # {}
  OBVIOUS
<1>2. t \in T /\ \A j \in T : j <= t
  <2> HIDE DEF T
  <2> QED  BY <1>1, LastIsGreatest
<1> HIDE DEF t
<1>3. t \in P /\ r.successors[t] = r.successors[i]
  BY <1>2
<1>4. H # {} => First(H) \in H
  <2>1. H \in SUBSET Index
    OBVIOUS
  <2> HIDE DEF H
  <2> QED  BY <2>1, FirstIsLeast
<1>5. H # {} => r.successors[First(H)] # r.successors[t]
  <2> SUFFICES ASSUME H # {}, r.successors[First(H)] = r.successors[t] PROVE FALSE
    OBVIOUS
  <2>1. First(H) \in P /\ First(H) > t
    BY <1>4
  <2>2. First(H) \in T
    BY <1>3, <2>1
  <2>3. First(H) \in Int /\ t \in Int
    <3>1. \A k \in P : k \in Int
      BY BitsAssumption DEF Index
    <3> QED  BY ONLY <1>3, <2>1, <3>1
  <2>4. First(H) <= t
    BY <1>2, <2>2
  <2> HIDE DEF H
  <2> QED  BY <2>1, <2>3, <2>4
<1> QED  BY <1>3, <1>5 DEF Pushed

(* ... each of them once, and a higher entry a node further away.          *)
LEMMA PushedApart ==
    ASSUME NEW me \in Node, NEW r \in RouterState, InReach(me, r), Tight(me, r), OneEndpoint(r),
           NEW P \in SUBSET {k \in Index : Valid(r, k)},
           NEW i \in Pushed(r, P), NEW j \in Pushed(r, P), i < j
    PROVE  Distance(me.uuid, r.successors[i].uuid) < Distance(me.uuid, r.successors[j].uuid)
<1> DEFINE H == {k \in P : k > i}
           f == First(H)
<1>0. i \in P /\ j \in P /\ (H = {} \/ r.successors[f] # r.successors[i])
  BY DEF Pushed
<1>1. i \in Index /\ j \in Index /\ i \in Int /\ j \in Int /\ j \in H
  BY <1>0, BitsAssumption DEF Index
<1>2. f \in H /\ f <= j
  <2>1. H \in SUBSET Index /\ H # {}
    BY <1>1
  <2> HIDE DEF H
  <2> QED  BY <1>1, <2>1, FirstIsLeast
<1>3. f \in Index /\ f \in Int /\ i < f /\ Valid(r, f) /\ Valid(r, i) /\ Valid(r, j)
  <2>1. f \in P /\ f > i
    BY <1>2
  <2> HIDE DEF f
  <2> QED  BY <1>0, <1>1, <2>1, BitsAssumption DEF Index
<1>4. r.successors[f] # r.successors[i]
  BY <1>0, <1>1
<1> HIDE DEF f, H
<1>5. Reach(me, r, i) <= Reach(me, r, f) /\ Reach(me, r, f) <= Reach(me, r, j)
  BY <1>1, <1>2, <1>3, ReachOrdered
<1>6. /\ Reach(me, r, i) = Distance(me.uuid, r.successors[i].uuid)
      /\ Reach(me, r, f) = Distance(me.uuid, r.successors[f].uuid)
      /\ Reach(me, r, j) = Distance(me.uuid, r.successors[j].uuid)
  BY <1>3 DEF Reach
<1>7. /\ Reach(me, r, i) \in Int /\ Reach(me, r, f) \in Int /\ Reach(me, r, j) \in Int
      /\ r.successors[i].uuid \in Uuid /\ r.successors[f].uuid \in Uuid
  BY <1>1, <1>3, ReachRange, RingFacts
<1>8. Reach(me, r, i) # Reach(me, r, f)
  <2> SUFFICES ASSUME Reach(me, r, i) = Reach(me, r, f) PROVE FALSE
    OBVIOUS
  <2>1. r.successors[i].uuid = r.successors[f].uuid
    BY <1>6, <1>7, DistInjective
  <2>2. r.successors[i] = r.successors[f]
    BY <1>1, <1>3, <2>1 DEF OneEndpoint
  <2> QED  BY <1>4, <2>2
<1> QED  BY <1>5, <1>6, <1>7, <1>8

(* Router::closest_preceding_nodes(uuid): the nodes of the table before    *)
(* uuid, each once, from the furthest away to the closest, and the node    *)
(* itself.                                                                 *)
LEMMA ClosestPreceding ==
    ASSUME NEW me \in Node, NEW r \in RouterState, InReach(me, r), Tight(me, r), OneEndpoint(r),
           NEW uuid \in Uuid, NEW ret, ret = closest_preceding_nodes(me, r, uuid)
    PROVE  /\ ret[Len(ret)] = me
           /\ \A k \in 1 .. (Len(ret) - 2) :
                 Distance(me.uuid, ret[k].uuid) > Distance(me.uuid, ret[k + 1].uuid)
           /\ {ret[k] : k \in 1 .. (Len(ret) - 1)} =
                 {n \in get(r) : Between(me.uuid, n.uuid, uuid)}
<1> DEFINE P == Preceding(me, r, uuid)
           S == Pushed(r, P)
           d == Downwards(S)
           c == Cardinality(S)
           s == [p \in 1 .. Len(d) |-> r.successors[d[p]]]
<1>1. P \in SUBSET {k \in Index : Valid(r, k)} /\ P \in SUBSET Index /\ S \in SUBSET P
  BY DEF Preceding, Pushed
<1>2. /\ c \in Nat /\ d \in [1 .. c -> S]
      /\ \A p, q \in 1 .. c : p < q => d[q] < d[p]
      /\ \A i \in S : \E p \in 1 .. c : d[p] = i
  <2>1. S \in SUBSET Index
    BY <1>1
  <2> HIDE DEF S
  <2> QED  BY <2>1, DownwardsIs
<1>3. ret = IF s = << >> \/ s[1] # me THEN Append(s, me) ELSE s
  BY DEF closest_preceding_nodes
<1>4. \A i \in S : /\ Valid(r, i) /\ i \in Index /\ r.successors[i] \in Node
                   /\ r.successors[i].uuid # me.uuid
  <2> SUFFICES ASSUME NEW i \in S
               PROVE  /\ Valid(r, i) /\ i \in Index /\ r.successors[i] \in Node
                      /\ r.successors[i].uuid # me.uuid
    OBVIOUS
  <2>1. Valid(r, i) /\ i \in Index
    BY <1>1
  <2> HIDE DEF S, P
  <2>2. r.successors[i] \in Node /\ r.successors[i].uuid \in Uuid
        /\ From(me, i) \in 1 .. MaxUuid
    BY <2>1, ReachRange
  <2>3. From(me, i) < Distance(me.uuid, r.successors[i].uuid)
    BY <2>1 DEF InReach, Reach
  <2>4. Distance(me.uuid, r.successors[i].uuid) # 0
    BY <2>2, <2>3, DistRange, RingFacts
  <2> QED  BY <2>1, <2>2, <2>4, DistRange
<1> HIDE DEF d, c, S, P
<1>5. Len(d) = c /\ d \in Seq(S)
  BY <1>2
<1>6. s = [p \in 1 .. c |-> r.successors[d[p]]] /\ \A p \in 1 .. c : d[p] \in S /\ s[p] = r.successors[d[p]]
  BY <1>2, <1>5
<1> HIDE DEF s
<1>7. s \in Seq(Node) /\ Len(s) = c
  BY <1>2, <1>4, <1>6
<1>8. s = << >> \/ s[1] # me
  <2> SUFFICES ASSUME s # << >> PROVE s[1] # me
    OBVIOUS
  <2>1. 1 \in 1 .. c
    BY <1>2, <1>7
  <2> QED  BY <1>4, <1>6, <2>1
<1>9. ret = Append(s, me)
  BY <1>3, <1>8
<1>10. Len(ret) = c + 1 /\ ret[c + 1] = me /\ \A p \in 1 .. c : ret[p] = s[p]
  BY <1>2, <1>7, <1>9
<1>11. ASSUME NEW k \in 1 .. (Len(ret) - 2)
       PROVE  Distance(me.uuid, ret[k].uuid) > Distance(me.uuid, ret[k + 1].uuid)
  <2>1. k \in 1 .. c /\ k + 1 \in 1 .. c /\ k < k + 1
    BY <1>2, <1>10
  <2>2. d[k + 1] < d[k] /\ d[k] \in S /\ d[k + 1] \in S
    BY <1>2, <2>1
  <2>3. Distance(me.uuid, r.successors[d[k + 1]].uuid) < Distance(me.uuid, r.successors[d[k]].uuid)
    BY <1>1, <2>2, PushedApart DEF S
  <2>4. /\ Distance(me.uuid, r.successors[d[k + 1]].uuid) \in Int
        /\ Distance(me.uuid, r.successors[d[k]].uuid) \in Int
    <3>1. r.successors[d[k]].uuid \in Uuid /\ r.successors[d[k + 1]].uuid \in Uuid
      BY <1>4, <2>2, NodeUuid
    <3>2. /\ Distance(me.uuid, r.successors[d[k + 1]].uuid) \in 0 .. MaxUuid
          /\ Distance(me.uuid, r.successors[d[k]].uuid) \in 0 .. MaxUuid
      BY <3>1, DistRange
    <3> QED  BY <3>2
  <2> QED  BY <1>6, <1>10, <2>1, <2>3, <2>4
<1>12. {ret[k] : k \in 1 .. (Len(ret) - 1)} = {n \in get(r) : Between(me.uuid, n.uuid, uuid)}
  <2>1. Len(ret) - 1 = c
    BY <1>2, <1>10
  <2>2. {ret[k] : k \in 1 .. c} = {r.successors[i] : i \in S}
    BY <1>2, <1>6, <1>10
  <2>3. {r.successors[i] : i \in S} = {r.successors[i] : i \in P}
    BY <1>1, PushedAll DEF S
  <2>4. {r.successors[i] : i \in P} = {n \in get(r) : Between(me.uuid, n.uuid, uuid)}
    BY DEF P, Preceding, get, Valid
  <2> QED  BY <2>1, <2>2, <2>3, <2>4
<1> QED  BY <1>10, <1>11, <1>12
=============================================================================
