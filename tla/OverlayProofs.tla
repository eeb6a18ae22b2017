---------------------------- MODULE OverlayProofs ----------------------------
(***************************************************************************)
(* Overlay for every number of peers and every BITS: every router keeps    *)
(* the shape RouterOpsProofs speaks of, whatever calls and replies         *)
(* interleave, and a peer does not lose a successor that is there.         *)
(***************************************************************************)
EXTENDS Overlay, RouterOpsProofs, SequenceTheorems

(* The finger table of peer u is one that update and remove keep in shape. *)
Fit(u, r) == r \in RouterState /\ InReach(Me(u), r) /\ Tight(Me(u), r)

Routers == router \in [Members -> RouterState] /\ \A u \in Members : Fit(u, router[u])

(* The stack of a forwarded call is a sequence, of whatever frames.        *)
IsStack(s) == s \in Seq({s[k] : k \in 1 .. Len(s)})

(* What a process carries from one step to the next and what the handlers  *)
(* will put into a router are nodes.                                       *)
Message(p) ==
    /\ p.pc = "join" =>
          p \in [pc : {"join"}, target : {p.target}, stack : {p.stack}] /\ IsStack(p.stack)
    /\ p.pc \in {"successor", "probe"} =>
          /\ p \in [pc : {"successor", "probe"}, id : {p.id}, target : {p.target},
                    caller : Members, stack : {p.stack}, ring : {p.ring}]
          /\ IsStack(p.stack)
    /\ p.pc = "joined" => p.succ \in Node /\ p.pred \in Node
    /\ p.pc \in {"notify_pred", "notify_succ"} => p.nodes \in Node \X Node
    /\ p.pc = "stabilized" => p.pred \in OptNode
    /\ p.pc = "fixed" => p.succ \in Node
    /\ p.pc \in {"leave_succ", "leave_pred"} => p.entries \subseteq Node

Procs ==
    /\ DOMAIN proc = Members
    /\ \A u \in Members : DOMAIN proc[u] = Kind /\ \A k \in Kind : Message(proc[u][k])

(* The inductive invariant.                                                *)
IInv == TypeOK /\ Routers /\ Procs

(* SuccessorKept, for one peer and one step.                               *)
Excused(u) ==
    \/ Succ(u) \notin Settled
    \/ timeouts' > timeouts
    \/ Pc(u, "fix") = "fixed" /\ proc[u]["fix"].succ = Me(u) /\ proc[u]["fix"].id = Succ(u)
    \/ \E k \in JoinKind : Pc(u, k) = "join_failed"

Closer(u, r, q) ==
    has_successor(r) =>
        has_successor(q) /\ Distance(u, successor(q).uuid) <= Distance(u, successor(r).uuid)

Kept == \A u \in Up : Closer(u, router[u], router'[u]) \/ Excused(u)

(* What is shown of every step.                                            *)
Good == IInv' /\ Kept

-----------------------------------------------------------------------------
(* The nodes handlers make up are nodes.                                   *)
LEMMA NodesMade ==
    /\ \A u \in Members : Me(u) \in Node /\ Me(u).uuid = u
    /\ \A n \in Node : AsSeen(n) \in Node
    /\ Nowhere \in Node
<1>1. \A u \in Members : Me(u) \in Node /\ Me(u).uuid = u
  BY OverlayAssumption DEF Me, Node
<1>2. ASSUME NEW n \in Node PROVE AsSeen(n) \in Node
  BY OverlayAssumption DEF AsSeen, Node
<1>3. 0 \in Uuid
  BY RingFacts DEF Uuid
<1>4. Nowhere \in Node
  BY <1>3, OverlayAssumption DEF Nowhere, Node
<1> QED  BY <1>1, <1>2, <1>4

(* What is read from a router is a node.                                   *)
LEMMA NodesRead ==
    ASSUME NEW r \in RouterState
    PROVE  /\ r.predecessor \in OptNode
           /\ has_predecessor(r) => r.predecessor \in Node
           /\ has_successor(r) => successor(r) \in Node
           /\ get(r) \subseteq Node
<1>1. 0 \in Index
  BY BitsAssumption DEF Index
<1>2. r.successors \in [Index -> OptNode] /\ r.predecessor \in OptNode
  BY DEF RouterState
<1> QED  BY <1>1, <1>2 DEF OptNode, has_predecessor, has_successor, Valid, successor, get

(* A table that reaches no further has kept its successor or found a       *)
(* closer one.                                                             *)
LEMMA ReachCloser ==
    ASSUME NEW u \in Members, NEW r, NEW q, Fit(u, r), Fit(u, q),
           \A i \in Index : Reach(Me(u), q, i) <= Reach(Me(u), r, i)
    PROVE  Closer(u, r, q)
<1>0. 0 \in Index
  BY BitsAssumption DEF Index
<1>1. /\ Reach(Me(u), r, 0) \in 0 .. Ring /\ (Valid(r, 0) <=> Reach(Me(u), r, 0) < Ring)
      /\ Reach(Me(u), q, 0) \in 0 .. Ring /\ (Valid(q, 0) <=> Reach(Me(u), q, 0) < Ring)
  BY <1>0, NodesMade, ReachRange DEF Fit
<1>2. Reach(Me(u), q, 0) <= Reach(Me(u), r, 0)
  BY <1>0
<1>3. Valid(r, 0) => Valid(q, 0)
  BY <1>1, <1>2, RingFacts
<1>4. Me(u).uuid = u
  BY NodesMade
<1> QED  BY <1>2, <1>3, <1>4 DEF Closer, has_successor, successor, Reach

(* An unchanged table has.                                                 *)
LEMMA SameCloser ==
    ASSUME NEW u \in Members, NEW r, Fit(u, r)
    PROVE  Closer(u, r, r)
<1>1. \A i \in Index : Reach(Me(u), r, i) <= Reach(Me(u), r, i)
  BY NodesMade, ReachRange, RingFacts DEF Fit
<1> QED  BY <1>1, ReachCloser

(* Router::update, at any peer and with any node.                          *)
LEMMA UpdateFit ==
    ASSUME NEW u \in Members, NEW r, Fit(u, r), NEW n \in Node
    PROVE  Fit(u, update(Me(u), r, n)) /\ Closer(u, r, update(Me(u), r, n))
<1> DEFINE q == update(Me(u), r, n)
<1>1. /\ q \in RouterState /\ InReach(Me(u), q) /\ Tight(Me(u), q)
      /\ \A i \in Index : Reach(Me(u), q, i) <= Reach(Me(u), r, i)
  BY NodesMade, UpdateTable DEF Fit
<1> HIDE DEF q
<1>2. Fit(u, q)
  BY <1>1 DEF Fit
<1>3. Closer(u, r, q)
  BY <1>1, <1>2, ReachCloser
<1> QED  BY <1>2, <1>3 DEF q

(* Router::update(set).                                                    *)
LEMMA UpdateSetFit ==
    ASSUME NEW u \in Members, NEW r, Fit(u, r), NEW nodes \in SUBSET Node
    PROVE  Fit(u, update_set(Me(u), r, nodes)) /\ Closer(u, r, update_set(Me(u), r, nodes))
<1> DEFINE q == update_set(Me(u), r, nodes)
<1>1. /\ q \in RouterState /\ InReach(Me(u), q) /\ Tight(Me(u), q)
      /\ \A i \in Index : Reach(Me(u), q, i) <= Reach(Me(u), r, i)
  BY NodesMade, UpdateSetTable DEF Fit
<1> HIDE DEF q
<1>2. Fit(u, q)
  BY <1>1 DEF Fit
<1>3. Closer(u, r, q)
  BY <1>1, <1>2, ReachCloser
<1> QED  BY <1>2, <1>3 DEF q

(* Closer ones add up.                                                     *)
LEMMA CloserAgain ==
    ASSUME NEW u \in Members, NEW r, NEW q, NEW s, Fit(u, r), Fit(u, q), Fit(u, s),
           Closer(u, r, q), Closer(u, q, s)
    PROVE  Closer(u, r, s)
<1>1. ASSUME NEW x, Fit(u, x), has_successor(x) PROVE Distance(u, successor(x).uuid) \in Int
  <2>1. successor(x).uuid \in Uuid /\ Me(u) \in Node /\ Me(u).uuid = u
    BY <1>1, NodesRead, NodesMade, NodeUuid DEF Fit
  <2>2. Distance(Me(u).uuid, successor(x).uuid) \in 0 .. MaxUuid
    BY <2>1, DistRange
  <2> QED  BY <2>1, <2>2
<1> QED  BY <1>1 DEF Closer

(* Router::remove keeps a successor that is not the node removed.          *)
LEMMA RemoveFit ==
    ASSUME NEW u \in Members, NEW r, Fit(u, r), NEW uuid
    PROVE  /\ Fit(u, remove(Me(u), r, uuid))
           /\ successor_or_self(Me(u), r).uuid # uuid => Closer(u, r, remove(Me(u), r, uuid))
<1> DEFINE q == remove(Me(u), r, uuid)
<1>0. 0 \in Index
  BY BitsAssumption DEF Index
<1>1. q \in RouterState /\ InReach(Me(u), q) /\ Tight(Me(u), q)
  BY NodesMade, RemoveTable DEF Fit
<1>2. Fit(u, q)
  BY <1>1 DEF Fit
<1>3. ASSUME successor_or_self(Me(u), r).uuid # uuid, has_successor(r)
      PROVE  q.successors[0] = r.successors[0]
  BY <1>0, <1>3 DEF remove, successor_or_self, has_successor, successor
<1>4. Closer(u, r, r)
  BY SameCloser
<1> HIDE DEF q
<1>5. successor_or_self(Me(u), r).uuid # uuid => Closer(u, r, q)
  BY <1>3, <1>4 DEF Closer, has_successor, Valid, successor
<1> QED  BY <1>2, <1>5 DEF q

-----------------------------------------------------------------------------
(* A sequence of anything is a stack ...                                   *)
LEMMA StackOf ==
    ASSUME NEW S, NEW s \in Seq(S)
    PROVE  IsStack(s)
  BY DEF IsStack

(* ... such as the empty one ...                                           *)
LEMMA NoFrames == IsStack(<< >>)
<1>1. << >> \in Seq({})
  OBVIOUS
<1> QED  BY <1>1, StackOf

(* ... and one with another frame ...                                      *)
LEMMA PushStack ==
    ASSUME NEW s, IsStack(s), NEW v, NEW cands
    PROVE  IsStack(Push(s, v, cands))
<1> DEFINE f == Frame(v, cands)
           S == {s[k] : k \in 1 .. Len(s)}
<1>1. s \in Seq(S \cup {f})
  BY DEF IsStack
<1>2. Append(s, f) \in Seq(S \cup {f})
  <2> HIDE DEF f, S
  <2> QED  BY <1>1
<1>3. IsStack(Append(s, f))
  <2> HIDE DEF f, S
  <2> QED  BY <1>2, StackOf
<1> QED  BY <1>3 DEF Push

(* ... and what a failed call leaves of it, whose top is a peer's.         *)
LEMMA RetryStack ==
    ASSUME NEW s, IsStack(s), Retries(s) # {}
    PROVE  IsStack(Retry(s).stack) /\ Retry(s).caller \in Members
<1> DEFINE K == Retries(s)
           k == Last(K)
           S == {s[j] : j \in 1 .. Len(s)}
           e == [s[k] EXCEPT !.rest = Tail(@)]
           z == [SubSeq(s, 1, k) EXCEPT ![k].rest = Tail(@)]
<1>1. s \in Seq(S) /\ Len(s) \in Nat
  BY DEF IsStack
<1>2. K \in SUBSET (0 .. Len(s)) /\ K \in SUBSET (1 .. Len(s)) /\ K # {}
  BY <1>1 DEF Retries
<1>3. k \in K
  <2> HIDE DEF K
  <2> QED  BY <1>1, <1>2, LastOfNat
<1>4. k \in 1 .. Len(s) /\ Serving(s[k].at)
  <2>1. k \in 1 .. Len(s)
    BY <1>2, <1>3
  <2>2. k \in 1 .. k
    BY <1>1, <2>1
  <2> HIDE DEF k
  <2> QED  BY <1>3, <2>1, <2>2 DEF Retries
<1>5. Retry(s).stack = z /\ Retry(s).caller = s[k].at
  BY DEF Retry
<1> HIDE DEF k, K
<1>6. SubSeq(s, 1, k) \in Seq(S) /\ Len(SubSeq(s, 1, k)) = k
  <2> HIDE DEF S
  <2> QED  BY <1>1, <1>4
<1>7. z \in Seq(S \cup {z[k]})
  <2>1. DOMAIN SubSeq(s, 1, k) = 1 .. k
    BY <1>1, <1>4
  <2>2. \A j \in 1 .. k : j # k => z[j] = SubSeq(s, 1, k)[j] /\ SubSeq(s, 1, k)[j] \in S
    <3>1. \A j \in 1 .. k : j # k => z[j] = SubSeq(s, 1, k)[j]
      BY <2>1
    <3>2. \A j \in 1 .. k : SubSeq(s, 1, k)[j] \in S
      <4> HIDE DEF S
      <4> QED  BY <1>6, <2>1
    <3> QED  BY <3>1, <3>2
  <2>3. z = [j \in 1 .. k |-> z[j]]
    BY <2>1
  <2> HIDE DEF z, S
  <2>4. \A j \in 1 .. k : z[j] \in S \cup {z[k]}
    BY <2>2
  <2>5. k \in Nat
    BY <1>1, <1>4
  <2> QED  BY <2>3, <2>4, <2>5
<1>8. IsStack(z)
  <2> HIDE DEF z, S
  <2> QED  BY <1>7, StackOf
<1> QED  BY <1>4, <1>5, <1>8 DEF Serving

-----------------------------------------------------------------------------
(* Messages that carry nothing a handler puts into a router.               *)
LEMMA PlainMessage ==
    ASSUME NEW p,
           p.pc \notin {"join", "successor", "probe", "joined", "notify_pred", "notify_succ",
                       "stabilized", "fixed", "leave_succ", "leave_pred"}
    PROVE  Message(p)
  BY DEF Message

(* The ends of a process.                                                  *)
LEMMA EndMessages ==
    /\ Message(Idle) /\ Message(Ready)
    /\ \A k \in Kind : Message(AfterJoin(k))
    /\ \A u \in Members : Message(JoinVia(u))
    /\ \A u \in Members : \A r \in RouterState : Message(AfterStabilize(u, r))
<1>1. Message(Idle) /\ Message(Ready)
  BY PlainMessage DEF Idle, Ready
<1>2. \A k \in Kind : Message(AfterJoin(k))
  BY <1>1 DEF AfterJoin
<1>3. ASSUME NEW u \in Members PROVE Message(JoinVia(u))
  BY NoFrames DEF JoinVia, Message
<1>4. \A u \in Members : \A r \in RouterState : Message(AfterStabilize(u, r))
  BY <1>1, <1>3 DEF AfterStabilize
<1> QED  BY <1>1, <1>2, <1>3, <1>4

(* A process goes on with a message of its type.                           *)
LEMMA GotoKeeps ==
    ASSUME Procs, NEW u \in Members, NEW k \in Kind, NEW p, Message(p), Goto(u, k, p)
    PROVE  Procs'
<1>1. DOMAIN proc' = Members
  BY DEF Goto, Procs
<1>2. ASSUME NEW w \in Members
      PROVE  DOMAIN proc'[w] = Kind /\ \A j \in Kind : Message(proc'[w][j])
  <2>1. CASE w = u
    <3>1. proc'[w] = [proc[u] EXCEPT ![k] = p]
      BY <2>1 DEF Goto, Procs
    <3>2. DOMAIN proc[u] = Kind /\ \A j \in Kind : Message(proc[u][j])
      BY DEF Procs
    <3>3. \A j \in Kind : proc'[w][j] = IF j = k THEN p ELSE proc[u][j]
      BY <3>1, <3>2
    <3>4. \A j \in Kind : Message(proc'[w][j])
      BY <3>2, <3>3
    <3> QED  BY <3>1, <3>2, <3>4
  <2>2. CASE w # u
    BY <2>2 DEF Goto, Procs
  <2> QED  BY <2>1, <2>2
<1> QED  BY <1>1, <1>2 DEF Procs

(* A router is replaced by one that fits.                                  *)
LEMMA SetKeeps ==
    ASSUME Routers, NEW v \in Members, NEW q, Fit(v, q), SetRouter(v, q)
    PROVE  Routers'
  BY DEF Routers, SetRouter, Fit

(* A step that changes no router, or one router only, for a closer         *)
(* successor or with an excuse, keeps every successor.                     *)
LEMMA KeptSame ==
    ASSUME Routers, UNCHANGED router
    PROVE  Kept
  BY SameCloser DEF Kept, Routers, Up

(* When one router is set, only that peer's successor has to be looked at. *)
LEMMA KeptSet ==
    ASSUME Routers, NEW v \in Members, NEW q, SetRouter(v, q),
           Closer(v, router[v], q) \/ Excused(v)
    PROVE  Kept
<1> SUFFICES ASSUME NEW u \in Up PROVE Closer(u, router[u], router'[u]) \/ Excused(u)
  BY DEF Kept
<1>0. u \in Members
  BY DEF Up
<1>1. CASE u = v
  <2>1. router'[u] = q
    BY <1>1 DEF SetRouter, Routers
  <2> QED  BY <1>1, <2>1
<1>2. CASE u # v
  <2>1. router'[u] = router[u]
    BY <1>0, <1>2 DEF SetRouter, Routers
  <2> QED  BY <1>0, <2>1, SameCloser DEF Routers
<1> QED  BY <1>1, <1>2

-----------------------------------------------------------------------------
(* The types of everything but routers and processes.                      *)
Others ==
    /\ status \in [Members -> {"off", "up", "left", "crashed"}]
    /\ runs \in [Members -> [Task -> 0 .. Runs]]
    /\ next \in [Members -> Index]
    /\ timeouts \in 0 .. MaxTimeouts
    /\ announced \in [Members -> OptNode]
    /\ mishaps \subseteq Mishap

(* The three parts make the invariant.                                     *)
LEMMA Parts == IInv <=> Others /\ Routers /\ Procs
  BY DEF IInv, TypeOK, Others, Routers, Procs

(* The invariant and the action property, from their parts.                *)
LEMMA Assemble ==
    ASSUME Others', Routers', Procs', Kept
    PROVE  Good
<1>1. IInv'
  BY DEF IInv, TypeOK, Others, Routers, Procs
<1> QED  BY <1>1 DEF Good

(* A call counts the deadline it misses, and no other.                     *)
LEMMA CallCounts ==
    ASSUME Others, NEW v, Answers(v) \/ Fails(v)
    PROVE  timeouts' \in 0 .. MaxTimeouts
  BY OverlayAssumption DEF Others, Answers, Fails

(* A successor whose call failed may be given up.                          *)
LEMMA FailedExcuse ==
    ASSUME Others, NEW u, Fails(Succ(u))
    PROVE  Excused(u)
<1>1. CASE ~Serving(Succ(u))
  BY <1>1 DEF Excused, Settled, Up
<1>2. CASE timeouts' = timeouts + 1
  BY <1>2, OverlayAssumption DEF Excused, Others
<1> QED  BY <1>1, <1>2 DEF Fails

(* Router::remove of a peer that is not the successor, or of a successor   *)
(* there is an excuse to remove.                                           *)
LEMMA RemovePeerKeeps ==
    ASSUME Others, Routers, NEW u \in Members, NEW uuid, RemovePeer(u, uuid),
           Succ(u) = uuid => Excused(u)
    PROVE  Routers' /\ Kept /\ announced' \in [Members -> OptNode]
<1> DEFINE q == remove(Me(u), router[u], uuid)
<1>1. SetRouter(u, q)
  BY DEF RemovePeer
<1>2. Fit(u, router[u])
  BY DEF Routers
<1>3. Fit(u, q) /\ (Succ(u) # uuid => Closer(u, router[u], q))
  BY <1>2, RemoveFit DEF Succ
<1> HIDE DEF q
<1>4. Routers'
  BY <1>1, <1>3, SetKeeps
<1>5. Kept
  BY <1>1, <1>3, KeptSet
<1>6. announced' \in [Members -> OptNode]
  BY DEF RemovePeer, Others, OptNode
<1> QED  BY <1>4, <1>5, <1>6

(* Service::notify puts the caller and, if sent, two more nodes into the   *)
(* router: none can push a closer successor out.                           *)
LEMMA HandleNotifyKeeps ==
    ASSUME Others, Routers, NEW v \in Members, NEW source \in Node,
           NEW nodes, nodes = << >> \/ nodes \in Node \X Node,
           HandleNotify(v, source, nodes)
    PROVE  /\ Routers' /\ Kept
           /\ announced' \in [Members -> OptNode]
           /\ mishaps' \subseteq Mishap
<1>1. CASE source = Me(v)
  <2>1. UNCHANGED <<router, announced, mishaps>>
    BY <1>1 DEF HandleNotify
  <2>2. Routers'
    BY <2>1 DEF Routers, Fit
  <2> QED  BY <2>1, <2>2, KeptSame DEF Others
<1>2. CASE source # Me(v)
  <2> DEFINE r0 == router[v]
             r1 == update(Me(v), r0, source)
             r2 == update(Me(v), r1, AsSeen(nodes[1]))
             r3 == update(Me(v), r2, AsSeen(nodes[2]))
             q == IF nodes = << >> THEN r1 ELSE r3
  <2>1. PICK changed \in ChangesPredecessor(v, source) :
          /\ SetRouter(v, q)
          /\ announced' = [announced EXCEPT ![v] = IF changed THEN source ELSE @]
          /\ mishaps' = mishaps \cup
               {x \in {"Service::notify"} : Cardinality(ChangesPredecessor(v, source)) > 1}
    BY <1>2 DEF HandleNotify
  <2>2. Fit(v, r0)
    BY DEF Routers
  <2>3. Fit(v, r1) /\ Closer(v, r0, r1)
    BY <2>2, UpdateFit
  <2>4. ASSUME nodes # << >> PROVE Fit(v, r3) /\ Closer(v, r0, r3)
    <3>1. nodes[1] \in Node /\ nodes[2] \in Node
      BY <2>4
    <3>2. AsSeen(nodes[1]) \in Node /\ AsSeen(nodes[2]) \in Node
      BY <3>1, NodesMade
    <3> HIDE DEF r1, r0
    <3>3. Fit(v, r2) /\ Closer(v, r1, r2)
      BY <2>3, <3>2, UpdateFit
    <3> HIDE DEF r2
    <3>4. Fit(v, r3) /\ Closer(v, r2, r3)
      BY <3>2, <3>3, UpdateFit
    <3> HIDE DEF r3
    <3>5. Closer(v, r0, r2)
      BY <2>2, <2>3, <3>3, CloserAgain
    <3>6. Closer(v, r0, r3)
      BY <2>2, <3>3, <3>4, <3>5, CloserAgain
    <3> QED  BY <3>4, <3>6
  <2>5. Fit(v, q) /\ Closer(v, r0, q)
    <3> HIDE DEF r0, r1, r3
    <3> QED  BY <2>3, <2>4
  <2> HIDE DEF q
  <2>6. Routers'
    BY <2>1, <2>5, SetKeeps
  <2>7. Kept
    BY <2>1, <2>5, KeptSet
  <2>8. announced' \in [Members -> OptNode]
    BY <2>1 DEF Others, OptNode
  <2>9. mishaps' \subseteq Mishap
    BY <2>1 DEF Others, Mishap, Dereference
  <2> QED  BY <2>6, <2>7, <2>8, <2>9
<1> QED  BY <1>1, <1>2

(* A call of Service::notify: handled or not, answered or not.             *)
LEMMA CallNotifyKeeps ==
    ASSUME Others, Routers, NEW v, NEW u \in Members,
           NEW nodes, nodes = << >> \/ nodes \in Node \X Node,
           NEW ok, CallNotify(v, Me(u), nodes, ok), UNCHANGED <<status, runs, next>>
    PROVE  Others' /\ Routers' /\ Kept
<1>1. timeouts' \in 0 .. MaxTimeouts
  BY CallCounts DEF CallNotify
<1>2. CASE Serving(v) /\ HandleNotify(v, Me(u), nodes)
  <2>1. v \in Members /\ Me(u) \in Node
    BY <1>2, NodesMade DEF Serving
  <2>2. /\ Routers' /\ Kept
        /\ announced' \in [Members -> OptNode]
        /\ mishaps' \subseteq Mishap
    BY <1>2, <2>1, HandleNotifyKeeps
  <2> QED  BY <1>1, <2>2 DEF Others
<1>3. CASE UNCHANGED <<router, announced, mishaps>>
  <2>1. Routers'
    BY <1>3 DEF Routers, Fit
  <2>2. Kept
    BY <1>3, KeptSame
  <2>3. Others'
    BY <1>1, <1>3 DEF Others
  <2> QED  BY <2>1, <2>2, <2>3
<1> QED  BY <1>2, <1>3 DEF CallNotify, Answers

(* Client::leave and Service::leave: the node that goes was nobody's       *)
(* successor to keep, and what it hands over comes closer or is ignored.   *)
LEMMA InformKeeps ==
    ASSUME Others, Routers, NEW u \in Members, Pc(u, "main") # "ready",
           NEW p, p.entries \subseteq Node, Inform(u, p),
           UNCHANGED <<status, runs, next, announced, mishaps>>
    PROVE  Others' /\ Routers' /\ Kept
<1>1. CASE UNCHANGED router /\ timeouts' \in 0 .. MaxTimeouts
  <2>1. Routers'
    BY <1>1 DEF Routers, Fit
  <2>2. Kept
    BY <1>1, KeptSame
  <2>3. Others'
    BY <1>1 DEF Others
  <2> QED  BY <2>1, <2>2, <2>3
<1>2. ASSUME NEW v, Answers(v), HandleLeave(v, u, p.entries)
      PROVE  Others' /\ Routers' /\ Kept
  <2> DEFINE nodes == {AsSeen(n) : n \in p.entries}
             r == router[v]
             m == remove(Me(v), r, u)
             q == update_set(Me(v), m, nodes)
  <2>1. v \in Members
    BY <1>2 DEF Answers, Serving
  <2>2. SetRouter(v, q)
    BY <1>2 DEF HandleLeave
  <2>3. Fit(v, r)
    BY <2>1 DEF Routers
  <2>4. Fit(v, m) /\ (Succ(v) # u => Closer(v, r, m))
    BY <2>1, <2>3, RemoveFit DEF Succ
  <2>5. nodes \in SUBSET Node
    BY NodesMade
  <2>6. Fit(v, q) /\ Closer(v, m, q)
    <3> HIDE DEF m, nodes
    <3> QED  BY <2>1, <2>4, <2>5, UpdateSetFit
  <2>7. Succ(v) = u => Excused(v)
    BY DEF Excused, Settled
  <2> HIDE DEF q, m, r
  <2>8. Closer(v, r, q) \/ Excused(v)
    BY <2>1, <2>3, <2>4, <2>6, <2>7, CloserAgain
  <2>9. Routers'
    BY <2>1, <2>2, <2>6, SetKeeps
  <2>10. Kept
    BY <2>1, <2>2, <2>8, KeptSet DEF r
  <2>11. Others'
    BY <1>2 DEF Others, Answers
  <2> QED  BY <2>9, <2>10, <2>11
<1>3. ASSUME NEW v, Fails(v) PROVE timeouts' \in 0 .. MaxTimeouts
  BY <1>3, CallCounts
<1>4. UNCHANGED timeouts => timeouts' \in 0 .. MaxTimeouts
  BY DEF Others
<1> QED  BY <1>1, <1>2, <1>3, <1>4 DEF Inform, CallLeave

-----------------------------------------------------------------------------
(* A step that touches no router.                                          *)
LEMMA Quiet ==
    ASSUME Routers, UNCHANGED router, Others', Procs'
    PROVE  Good
<1>1. Routers'
  BY DEF Routers, Fit
<1>2. Kept
  BY KeptSame
<1> QED  BY <1>1, <1>2, Assemble

(* The processes of a peer.                                                *)
LEMMA Kinds ==
    /\ \A k \in JoinKind : k \in Kind
    /\ {"main", "stab", "check", "fix"} \subseteq Kind
    /\ Tasks \subseteq Task
  BY OverlayAssumption DEF JoinKind, Kind, Task

(* ChordFacade::start                                                      *)
LEMMA StartKeeps ==
    ASSUME IInv, NEW u \in Members, Start(u)
    PROVE  Good
<1>0. Others /\ Routers /\ Procs
  BY Parts
<1>1. Procs'
  BY <1>0, Kinds, EndMessages, GotoKeeps DEF Start
<1>2. Others'
  BY <1>0 DEF Others, Start, Notes, Mishap
<1> QED  BY <1>0, <1>1, <1>2, Quiet DEF Start

(* Service::join, forwarded.                                               *)
LEMMA JoinForwardKeeps ==
    ASSUME IInv, NEW u \in Members, NEW k \in JoinKind, JoinForward(u, k)
    PROVE  Good
<1> DEFINE p == proc[u][k]
           cands == closest_preceding_nodes(Me(p.target), router[p.target], u)
           m == [p EXCEPT !.target = Head(cands).uuid, !.stack = Push(@, p.target, cands)]
<1>0. Others /\ Routers /\ Procs /\ k \in Kind
  BY Parts, Kinds
<1>1. Message(p) /\ p.pc = "join"
  BY <1>0 DEF Procs, JoinForward
<1>2. p \in [pc : {"join"}, target : {p.target}, stack : {p.stack}] /\ IsStack(p.stack)
  <2> HIDE DEF p
  <2> QED  BY <1>1 DEF Message
<1>3. IsStack(Push(p.stack, p.target, cands))
  <2> HIDE DEF p, cands
  <2> QED  BY <1>2, PushStack
<1>4. m.pc = "join" /\ m.stack = Push(p.stack, p.target, cands)
      /\ m \in [pc : {"join"}, target : {m.target}, stack : {m.stack}]
  <2> HIDE DEF p, cands
  <2> QED  BY <1>1, <1>2
<1>5. Goto(u, k, m)
  BY DEF JoinForward
<1>6. Message(m)
  <2> HIDE DEF m
  <2> QED  BY <1>3, <1>4 DEF Message
<1>7. Procs'
  <2> HIDE DEF m
  <2> QED  BY <1>0, <1>5, <1>6, GotoKeeps
<1>8. Others'
  BY <1>0 DEF Others, JoinForward, Answers
<1> QED  BY <1>0, <1>7, <1>8, Quiet DEF JoinForward

(* Service::join, answered: with two nodes, whatever the routers hold.     *)
LEMMA JoinAnswerKeeps ==
    ASSUME IInv, NEW u \in Members, NEW k \in JoinKind, JoinAnswer(u, k)
    PROVE  Good
<1> DEFINE v == proc[u][k].target
           res == JoinResponse(v, u)
           m == [pc |-> "joined", succ |-> res.succ, pred |-> res.pred]
<1>0. Others /\ Routers /\ Procs /\ k \in Kind
  BY Parts, Kinds
<1>1. v \in Members
  BY DEF JoinAnswer, Answers, Serving
<1>2. router[v] \in RouterState
  <2> HIDE DEF v
  <2> QED  BY <1>0, <1>1 DEF Routers
<1>3. res.succ \in Node /\ res.pred \in Node
  <2> HIDE DEF v
  <2>1. Me(v) \in Node /\ Nowhere \in Node
    BY <1>1, NodesMade
  <2>2. successor_or_self(Me(v), router[v]) \in Node
    BY <1>2, <2>1, NodesRead DEF successor_or_self
  <2>3. has_predecessor(router[v]) => router[v].predecessor \in Node
    BY <1>2, NodesRead
  <2> QED  BY <2>1, <2>2, <2>3 DEF JoinResponse
<1>4. Goto(u, k, m)
  BY DEF JoinAnswer
<1>5. Message(m)
  <2> HIDE DEF res
  <2> QED  BY <1>3 DEF Message
<1>6. Procs'
  <2> HIDE DEF m
  <2> QED  BY <1>0, <1>4, <1>5, GotoKeeps
<1>7. Others'
  BY <1>0 DEF Others, JoinAnswer, Answers, Mishap, Dereference
<1> QED  BY <1>0, <1>6, <1>7, Quiet DEF JoinAnswer

(* Client::join when a call fails.                                         *)
LEMMA JoinFailsKeeps ==
    ASSUME IInv, NEW u \in Members, NEW k \in JoinKind, JoinFails(u, k)
    PROVE  Good
<1> DEFINE p == proc[u][k]
           again == [pc |-> "join", target |-> Retry(p.stack).target, stack |-> Retry(p.stack).stack]
           m == IF Retries(p.stack) = {} THEN AfterJoin(k) ELSE again
<1>0. Others /\ Routers /\ Procs /\ k \in Kind
  BY Parts, Kinds
<1>1. Message(p) /\ p.pc = "join"
  BY <1>0 DEF Procs, JoinFails
<1>2. IsStack(p.stack)
  <2> HIDE DEF p
  <2> QED  BY <1>1 DEF Message
<1>3. Retries(p.stack) # {} => Message(again)
  <2> HIDE DEF p
  <2>1. Retries(p.stack) # {} => IsStack(Retry(p.stack).stack)
    BY <1>2, RetryStack
  <2> QED  BY <2>1 DEF Message
<1>4. Goto(u, k, m)
  BY DEF JoinFails
<1>5. Message(m)
  <2> HIDE DEF again, p
  <2> QED  BY <1>0, <1>3, EndMessages
<1>6. Procs'
  <2> HIDE DEF m
  <2> QED  BY <1>0, <1>4, <1>5, GotoKeeps
<1>7. timeouts' \in 0 .. MaxTimeouts
  BY <1>0, CallCounts DEF JoinFails
<1>8. Others'
  BY <1>0, <1>7 DEF Others, JoinFails
<1> QED  BY <1>0, <1>6, <1>8, Quiet DEF JoinFails

(* A notification is sent with nodes of the router, or is garbage.         *)
LEMMA SendNotifyKeeps ==
    ASSUME Others, Procs, NEW u \in Members, NEW k \in JoinKind, NEW r, NEW message,
           Joined(r) => Message(message), SendNotify(u, k, r, message),
           UNCHANGED <<status, runs, next, timeouts, announced>>
    PROVE  Procs' /\ Others'
<1>0. k \in Kind
  BY Kinds
<1>1. CASE Joined(r)
  <2>1. Goto(u, k, message) /\ UNCHANGED mishaps
    BY <1>1 DEF SendNotify
  <2> QED  BY <1>0, <1>1, <2>1, GotoKeeps DEF Others
<1>2. CASE ~Joined(r)
  <2>1. Message([pc |-> "garbage"])
    BY PlainMessage
  <2>2. Goto(u, k, [pc |-> "garbage"]) /\ mishaps' = mishaps \cup {"ChordFacade::join"}
    BY <1>2 DEF SendNotify
  <2>3. Procs'
    BY <1>0, <2>1, <2>2, GotoKeeps
  <2> QED  BY <2>2, <2>3 DEF Others, Mishap, Dereference
<1> QED  BY <1>1, <1>2

(* The messages to predecessor and successor.                              *)
LEMMA NotifyMessages ==
    ASSUME NEW u \in Members, NEW r \in RouterState, Joined(r), NEW ok
    PROVE  Message(ToPredecessor(u, r)) /\ Message(ToSuccessor(u, r, ok))
<1>1. successor(r) \in Node /\ r.predecessor \in Node /\ Me(u) \in Node
  BY NodesRead, NodesMade DEF Joined
<1>2. <<successor(r), Me(u)>> \in Node \X Node /\ <<r.predecessor, Me(u)>> \in Node \X Node
  BY <1>1
<1> QED  BY <1>2 DEF Message, ToPredecessor, ToSuccessor

(* Client::join, the answer: two nodes go into the router.                 *)
LEMMA JoinReplyKeeps ==
    ASSUME IInv, NEW u \in Members, NEW k \in JoinKind, JoinReply(u, k)
    PROVE  Good
<1> DEFINE p == proc[u][k]
           r1 == update(Me(u), router[u], p.succ)
           r == update(Me(u), r1, p.pred)
<1>0. Others /\ Routers /\ Procs /\ k \in Kind
  BY Parts, Kinds
<1>1. Message(p) /\ p.pc = "joined"
  BY <1>0 DEF Procs, JoinReply
<1>2. p.succ \in Node /\ p.pred \in Node
  <2> HIDE DEF p
  <2> QED  BY <1>1 DEF Message
<1>3. /\ SetRouter(u, r) /\ SendNotify(u, k, r, ToPredecessor(u, r))
      /\ UNCHANGED <<status, runs, next, timeouts, announced>>
  BY DEF JoinReply
<1>4. Fit(u, router[u])
  BY <1>0 DEF Routers
<1> HIDE DEF p
<1>5. Fit(u, r1) /\ Closer(u, router[u], r1)
  BY <1>2, <1>4, UpdateFit
<1> HIDE DEF r1
<1>6. Fit(u, r) /\ Closer(u, r1, r)
  BY <1>2, <1>5, UpdateFit
<1> HIDE DEF r
<1>7. Closer(u, router[u], r)
  BY <1>4, <1>5, <1>6, CloserAgain
<1>8. Joined(r) => Message(ToPredecessor(u, r))
  BY <1>6, NotifyMessages DEF Fit
<1>9. Procs' /\ Others'
  BY <1>0, <1>3, <1>8, SendNotifyKeeps
<1>10. Routers' /\ Kept
  BY <1>0, <1>3, <1>6, <1>7, SetKeeps, KeptSet
<1> QED  BY <1>9, <1>10, Assemble

(* ChordFacade::join, the first notification ...                           *)
LEMMA NotifyPredecessorKeeps ==
    ASSUME IInv, NEW u \in Members, NEW k \in JoinKind, NotifyPredecessor(u, k)
    PROVE  Good
<1> DEFINE p == proc[u][k]
<1>0. Others /\ Routers /\ Procs /\ k \in Kind
  BY Parts, Kinds
<1>1. Message(p) /\ p.pc = "notify_pred" /\ UNCHANGED <<status, runs, next>>
  BY <1>0 DEF Procs, NotifyPredecessor
<1>2. PICK ok \in BOOLEAN : /\ CallNotify(p.target, Me(u), p.nodes, ok)
                           /\ Goto(u, k, [pc |-> "notified_pred", ok |-> ok])
  BY DEF NotifyPredecessor
<1> HIDE DEF p
<1>3. p.nodes \in Node \X Node
  BY <1>1 DEF Message
<1>4. Others' /\ Routers' /\ Kept
  BY <1>0, <1>1, <1>2, <1>3, CallNotifyKeeps
<1>5. Message([pc |-> "notified_pred", ok |-> ok])
  BY PlainMessage
<1>6. Procs'
  BY <1>0, <1>2, <1>5, GotoKeeps
<1> QED  BY <1>4, <1>6, Assemble

(* ... the second is prepared ...                                          *)
LEMMA NotifyNextKeeps ==
    ASSUME IInv, NEW u \in Members, NEW k \in JoinKind, NotifyNext(u, k)
    PROVE  Good
<1> DEFINE r == router[u]
           m == ToSuccessor(u, r, proc[u][k].ok)
<1>0. Others /\ Routers /\ Procs
  BY Parts
<1>1. SendNotify(u, k, r, m) /\ UNCHANGED <<status, router, runs, next, timeouts, announced>>
  BY DEF NotifyNext
<1>2. r \in RouterState
  BY <1>0 DEF Routers
<1>3. Joined(r) => Message(m)
  <2> HIDE DEF r
  <2> QED  BY <1>2, NotifyMessages
<1> HIDE DEF r, m
<1>4. Procs' /\ Others'
  BY <1>0, <1>1, <1>3, SendNotifyKeeps
<1> QED  BY <1>0, <1>1, <1>4, Quiet

(* ... and made.                                                           *)
LEMMA NotifySuccessorKeeps ==
    ASSUME IInv, NEW u \in Members, NEW k \in JoinKind, NotifySuccessor(u, k)
    PROVE  Good
<1> DEFINE p == proc[u][k]
           m(ok) == IF p.ok /\ ok THEN AfterJoin(k) ELSE [pc |-> "join_failed"]
<1>0. Others /\ Routers /\ Procs /\ k \in Kind
  BY Parts, Kinds
<1>1. Message(p) /\ p.pc = "notify_succ" /\ UNCHANGED <<status, runs, next>>
  BY <1>0 DEF Procs, NotifySuccessor
<1>2. PICK ok \in BOOLEAN : CallNotify(p.target, Me(u), p.nodes, ok) /\ Goto(u, k, m(ok))
  BY DEF NotifySuccessor
<1>3. p.nodes \in Node \X Node
  <2> HIDE DEF p
  <2> QED  BY <1>1 DEF Message
<1>4. Others' /\ Routers' /\ Kept
  <2> HIDE DEF p
  <2> QED  BY <1>0, <1>1, <1>2, <1>3, CallNotifyKeeps
<1>5. Message([pc |-> "join_failed"])
  BY PlainMessage
<1>6. Message(m(ok))
  BY <1>0, <1>5, EndMessages
<1>7. Procs'
  <2> HIDE DEF m
  <2> QED  BY <1>0, <1>2, <1>6, GotoKeeps
<1> QED  BY <1>4, <1>7, Assemble

(* join_failed: the empty router fits, and giving the successor up is      *)
(* excused.                                                                *)
LEMMA EmptyFit == \A u \in Members : Fit(u, EmptyRouter)
<1> SUFFICES ASSUME NEW u \in Members PROVE Fit(u, EmptyRouter)
  OBVIOUS
<1>1. EmptyRouter \in RouterState
  BY DEF EmptyRouter, RouterState, OptNode
<1>2. \A i \in Index : Reach(Me(u), EmptyRouter, i) = Ring
  BY DEF EmptyRouter, Reach, Valid
<1>3. \A i \in Index : From(Me(u), i) \in 1 .. MaxUuid
  BY <1>1, NodesMade, ReachRange
<1> QED  BY <1>1, <1>2, <1>3, RingFacts DEF Fit, InReach, Tight

(* Giving up a join resets the router.                                     *)
LEMMA JoinFailedKeeps ==
    ASSUME IInv, NEW u \in Members, NEW k \in JoinKind, JoinFailed(u, k)
    PROVE  Good
<1>0. Others /\ Routers /\ Procs /\ k \in Kind
  BY Parts, Kinds
<1>1. Procs'
  BY <1>0, EndMessages, GotoKeeps DEF JoinFailed
<1>2. Others'
  BY <1>0 DEF Others, JoinFailed
<1>3. SetRouter(u, EmptyRouter) /\ Fit(u, EmptyRouter)
  BY EmptyFit DEF JoinFailed
<1>4. Excused(u)
  BY DEF Excused, JoinFailed
<1>5. Routers' /\ Kept
  BY <1>0, <1>3, <1>4, SetKeeps, KeptSet
<1> QED  BY <1>1, <1>2, <1>5, Assemble

(* A process that dies leaves nothing in flight.                           *)
LEMMA DiesKeeps ==
    ASSUME IInv, NEW u \in Members, Dies(u),
           UNCHANGED <<router, runs, next, timeouts, announced, mishaps>>
    PROVE  Good
<1>0. Others /\ Routers /\ Procs
  BY Parts
<1>1. Others'
  BY <1>0 DEF Others, Dies
<1>2. Message(Idle)
  BY EndMessages
<1>3. Procs'
  BY <1>0, <1>2 DEF Procs, Dies
<1> QED  BY <1>0, <1>1, <1>3, Quiet

(* A dereferenced empty optional.                                          *)
LEMMA JoinUndefinedKeeps ==
    ASSUME IInv, NEW u \in Members, NEW k \in JoinKind, JoinUndefined(u, k)
    PROVE  Good
<1>0. Others /\ Routers /\ Procs /\ k \in Kind
  BY Parts, Kinds
<1>1. CASE Goto(u, k, [pc |-> "join_failed"]) /\ UNCHANGED status
  <2>1. Message([pc |-> "join_failed"])
    BY PlainMessage
  <2>2. Procs'
    BY <1>0, <1>1, <2>1, GotoKeeps
  <2>3. Others'
    BY <1>0, <1>1 DEF Others, JoinUndefined
  <2> QED  BY <1>0, <2>2, <2>3, Quiet DEF JoinUndefined
<1>2. CASE Dies(u)
  BY <1>2, DiesKeeps DEF JoinUndefined
<1> QED  BY <1>1, <1>2 DEF JoinUndefined

(* ChordFacade::join                                                       *)
LEMMA JoinKeeps ==
    ASSUME IInv, NEW u \in Members, NEW k \in JoinKind, Join(u, k)
    PROVE  Good
  BY JoinForwardKeeps, JoinAnswerKeeps, JoinFailsKeeps, JoinReplyKeeps, NotifyPredecessorKeeps,
     NotifyNextKeeps, NotifySuccessorKeeps, JoinFailedKeeps, JoinUndefinedKeeps DEF Join

-----------------------------------------------------------------------------
(* A periodic task begins: its runs stay within the bound.                 *)
LEMMA BeginsCounts ==
    ASSUME Others, NEW u \in Members, NEW k \in Task, Begins(u, k)
    PROVE  runs' \in [Members -> [Task -> 0 .. Runs]]
<1>1. runs[u] \in [Task -> 0 .. Runs] /\ runs[u][k] + 1 \in 0 .. Runs
  BY OverlayAssumption DEF Others, Begins
<1>2. runs' = [runs EXCEPT ![u] = [runs[u] EXCEPT ![k] = runs[u][k] + 1]]
  BY DEF Begins
<1> QED  BY <1>1, <1>2 DEF Others

(* The call of a peer failed: removing it is excused.                      *)
LEMMA RemoveFailed ==
    ASSUME Others, Routers, NEW u \in Members, NEW uuid, Fails(uuid), RemovePeer(u, uuid),
           UNCHANGED <<status, runs, next, mishaps>>
    PROVE  Others' /\ Routers' /\ Kept
<1>1. Succ(u) = uuid => Excused(u)
  BY FailedExcuse
<1>2. Routers' /\ Kept /\ announced' \in [Members -> OptNode]
  BY <1>1, RemovePeerKeeps
<1>3. timeouts' \in 0 .. MaxTimeouts
  BY CallCounts
<1> QED  BY <1>2, <1>3 DEF Others

(* ChordFacade::stabilize and Client::stabilize.                           *)
LEMMA StabilizeBeginKeeps ==
    ASSUME IInv, NEW u \in Members, StabilizeBegin(u)
    PROVE  Good
<1> DEFINE m == IF has_successor(router[u])
                THEN [pc |-> "stabilize", peer |-> successor(router[u])]
                ELSE AfterStabilize(u, router[u])
<1>0. Others /\ Routers /\ Procs /\ "stab" \in Kind /\ "stab" \in Task
  BY Parts, Kinds DEF Task
<1>1. Goto(u, "stab", m) /\ UNCHANGED <<status, router, next, timeouts, announced, mishaps>>
  BY DEF StabilizeBegin
<1>2. Message(m)
  <2>1. Message([pc |-> "stabilize", peer |-> successor(router[u])])
    BY PlainMessage
  <2>2. Message(AfterStabilize(u, router[u]))
    BY <1>0, EndMessages DEF Routers
  <2> QED  BY <2>1, <2>2
<1> HIDE DEF m
<1>3. Procs'
  BY <1>0, <1>1, <1>2, GotoKeeps
<1>4. runs' \in [Members -> [Task -> 0 .. Runs]]
  BY <1>0, BeginsCounts DEF StabilizeBegin
<1>5. Others'
  BY <1>0, <1>1, <1>4 DEF Others
<1> QED  BY <1>0, <1>1, <1>3, <1>5, Quiet

(* The successor answers a stabilize call with its predecessor.            *)
LEMMA StabilizeHandledKeeps ==
    ASSUME IInv, NEW u \in Members, StabilizeHandled(u)
    PROVE  Good
<1> DEFINE v == proc[u]["stab"].peer.uuid
           m == [pc |-> "stabilized", peer |-> proc[u]["stab"].peer, pred |-> router[v].predecessor]
<1>0. Others /\ Routers /\ Procs /\ "stab" \in Kind
  BY Parts, Kinds
<1>1. v \in Members
  BY DEF StabilizeHandled, Answers, Serving
<1>2. router[v].predecessor \in OptNode
  <2> HIDE DEF v
  <2> QED  BY <1>0, <1>1, NodesRead DEF Routers
<1>3. Goto(u, "stab", m)
  BY DEF StabilizeHandled
<1>4. Message(m)
  <2> HIDE DEF v
  <2> QED  BY <1>2 DEF Message
<1> HIDE DEF m
<1>5. Procs'
  BY <1>0, <1>3, <1>4, GotoKeeps
<1>6. Others'
  BY <1>0 DEF Others, StabilizeHandled, Answers
<1> QED  BY <1>0, <1>5, <1>6, Quiet DEF StabilizeHandled

(* A stabilize call that fails removes the successor from the router.      *)
LEMMA StabilizeFailsKeeps ==
    ASSUME IInv, NEW u \in Members, StabilizeFails(u)
    PROVE  Good
<1> DEFINE uuid == proc[u]["stab"].peer.uuid
<1>0. Others /\ Routers /\ Procs /\ "stab" \in Kind
  BY Parts, Kinds
<1>1. /\ Fails(uuid) /\ RemovePeer(u, uuid) /\ UNCHANGED <<status, runs, next, mishaps>>
      /\ Goto(u, "stab", AfterStabilize(u, router'[u]))
  BY DEF StabilizeFails
<1> HIDE DEF uuid
<1>2. Others' /\ Routers' /\ Kept
  BY <1>0, <1>1, RemoveFailed
<1>3. router'[u] \in RouterState
  BY <1>2 DEF Routers
<1>4. Message(AfterStabilize(u, router'[u]))
  BY <1>3, EndMessages
<1>5. Procs'
  BY <1>0, <1>1, <1>4, GotoKeeps
<1> QED  BY <1>2, <1>5, Assemble

(* Client::stabilize: what the successor answered goes into the router,    *)
(* late or not.                                                            *)
LEMMA StabilizeReplyKeeps ==
    ASSUME IInv, NEW u \in Members, StabilizeReply(u)
    PROVE  Good
<1> DEFINE p == proc[u]["stab"]
           r == IF p.pred # NoNode /\ Between(u, p.pred.uuid, p.peer.uuid)
                THEN update(Me(u), router[u], p.pred) ELSE router[u]
           m == IF has_successor(r) THEN [pc |-> "notify", target |-> successor(r).uuid]
                                    ELSE AfterStabilize(u, r)
<1>0. Others /\ Routers /\ Procs /\ "stab" \in Kind
  BY Parts, Kinds
<1>1. Message(p) /\ p.pc = "stabilized"
  BY <1>0 DEF Procs, StabilizeReply
<1>2. SetRouter(u, r) /\ Goto(u, "stab", m)
      /\ UNCHANGED <<status, runs, next, timeouts, announced, mishaps>>
  BY DEF StabilizeReply
<1> HIDE DEF p
<1>3. p.pred # NoNode => p.pred \in Node
  BY <1>1 DEF Message, OptNode
<1>4. Fit(u, router[u])
  BY <1>0 DEF Routers
<1>5. Fit(u, r) /\ Closer(u, router[u], r)
  BY <1>3, <1>4, UpdateFit, SameCloser
<1> HIDE DEF r
<1>6. Message(m)
  <2>1. Message([pc |-> "notify", target |-> successor(r).uuid])
    BY PlainMessage
  <2>2. Message(AfterStabilize(u, r))
    BY <1>5, EndMessages DEF Fit
  <2> QED  BY <2>1, <2>2
<1> HIDE DEF m
<1>7. Procs'
  BY <1>0, <1>2, <1>6, GotoKeeps
<1>8. Routers' /\ Kept
  BY <1>0, <1>2, <1>5, SetKeeps, KeptSet
<1>9. Others'
  BY <1>0, <1>2 DEF Others
<1> QED  BY <1>7, <1>8, <1>9, Assemble

(* The notify that follows a stabilize call.                               *)
LEMMA StabilizeNotifyKeeps ==
    ASSUME IInv, NEW u \in Members, StabilizeNotify(u)
    PROVE  Good
<1> DEFINE v == proc[u]["stab"].target
<1>0. Others /\ Routers /\ Procs /\ "stab" \in Kind
  BY Parts, Kinds
<1>1. PICK ok \in BOOLEAN : CallNotify(v, Me(u), << >>, ok)
  BY DEF StabilizeNotify
<1>2. Goto(u, "stab", AfterStabilize(u, router[u])) /\ UNCHANGED <<status, runs, next>>
  BY DEF StabilizeNotify
<1> HIDE DEF v
<1>3. Others' /\ Routers' /\ Kept
  BY <1>0, <1>1, <1>2, CallNotifyKeeps
<1>4. Message(AfterStabilize(u, router[u]))
  BY <1>0, EndMessages DEF Routers
<1>5. Procs'
  BY <1>0, <1>2, <1>4, GotoKeeps
<1> QED  BY <1>3, <1>5, Assemble

(* Client::check                                                           *)
LEMMA CheckKeeps ==
    ASSUME IInv, NEW u \in Members, Check(u)
    PROVE  Good
<1>0. Others /\ Routers /\ Procs /\ "check" \in Kind /\ "check" \in Task
  BY Parts, Kinds DEF Task
<1>1. CASE CheckBegin(u)
  <2> DEFINE m == IF Joined(router[u]) THEN [pc |-> "ping", peer |-> router[u].predecessor] ELSE Idle
  <2>1. Goto(u, "check", m) /\ UNCHANGED <<status, router, next, timeouts, announced, mishaps>>
    BY <1>1 DEF CheckBegin
  <2>2. Message(m)
    <3>1. Message([pc |-> "ping", peer |-> router[u].predecessor])
      BY PlainMessage
    <3> QED  BY <3>1, EndMessages
  <2> HIDE DEF m
  <2>3. Procs'
    BY <1>0, <2>1, <2>2, GotoKeeps
  <2>4. runs' \in [Members -> [Task -> 0 .. Runs]]
    BY <1>0, <1>1, BeginsCounts DEF CheckBegin
  <2>5. Others'
    BY <1>0, <2>1, <2>4 DEF Others
  <2> QED  BY <1>0, <2>1, <2>3, <2>5, Quiet
<1>2. CASE CheckPing(u)
  <2> DEFINE uuid == proc[u]["check"].peer.uuid
  <2>1. /\ Goto(u, "check", Idle) /\ UNCHANGED <<status, runs, next, mishaps>>
        /\ \/ Answers(uuid) /\ UNCHANGED <<router, announced>>
           \/ Fails(uuid) /\ RemovePeer(u, uuid)
    BY <1>2 DEF CheckPing
  <2> HIDE DEF uuid
  <2>2. Procs'
    BY <1>0, <2>1, EndMessages, GotoKeeps
  <2>3. CASE Answers(uuid) /\ UNCHANGED <<router, announced>>
    <3>1. Others'
      BY <1>0, <2>1, <2>3 DEF Others, Answers
    <3> QED  BY <1>0, <2>2, <2>3, <3>1, Quiet
  <2>4. CASE Fails(uuid) /\ RemovePeer(u, uuid)
    <3>1. Others' /\ Routers' /\ Kept
      BY <1>0, <2>1, <2>4, RemoveFailed
    <3> QED  BY <2>2, <3>1, Assemble
  <2> QED  BY <2>1, <2>3, <2>4
<1> QED  BY <1>1, <1>2 DEF Check

-----------------------------------------------------------------------------
(* A lookup under way: its record, the caller and the stack.               *)
Lookup(p) ==
    /\ p \in [pc : {"successor", "probe"}, id : {p.id}, target : {p.target},
              caller : Members, stack : {p.stack}, ring : {p.ring}]
    /\ IsStack(p.stack)

(* For a lookup, a message that is well formed is a Lookup.                *)
LEMMA LookupMessage ==
    ASSUME NEW p, p.pc \in {"successor", "probe"}
    PROVE  Message(p) <=> Lookup(p)
  BY DEF Message, Lookup

(* Lookups go on with another target, caller or stack.                     *)
LEMMA LookupGoesOn ==
    ASSUME NEW p, Lookup(p), NEW pc \in {"successor", "probe"}, NEW target,
           NEW caller \in Members, NEW stack, IsStack(stack)
    PROVE  /\ Message([p EXCEPT !.pc = pc])
           /\ Message([p EXCEPT !.pc = pc, !.target = target, !.caller = caller, !.stack = stack])
<1> DEFINE l == [p EXCEPT !.pc = pc]
           m == [p EXCEPT !.pc = pc, !.target = target, !.caller = caller, !.stack = stack]
<1>1. Lookup(l) /\ l.pc = pc
  BY DEF Lookup
<1>2. /\ m \in [pc : {"successor", "probe"}, id : {m.id}, target : {m.target},
                 caller : Members, stack : {m.stack}, ring : {m.ring}]
      /\ m.stack = stack /\ m.pc = pc
  BY DEF Lookup
<1> HIDE DEF l, m
<1>3. Message(l)
  BY <1>1, LookupMessage
<1>4. Lookup(m)
  BY <1>2 DEF Lookup
<1>5. Message(m)
  BY <1>2, <1>4, LookupMessage
<1> QED  BY <1>3, <1>5 DEF l, m

(* ChordFacade::fix_fingers                                                *)
LEMMA FixBeginKeeps ==
    ASSUME IInv, NEW u \in Members, FixBegin(u)
    PROVE  Good
<1> DEFINE index == (next[u] + 1) % BITS
           m == [pc |-> "successor", id |-> FingerStart(Me(u), index),
                 target |-> u, caller |-> u, stack |-> << >>, ring |-> RingOf(u)]
<1>0. Others /\ Routers /\ Procs /\ "fix" \in Kind /\ "fix" \in Task
  BY Parts, Kinds DEF Task
<1>1. /\ Goto(u, "fix", m) /\ UNCHANGED <<status, router, timeouts, announced, mishaps>>
      /\ next' = [next EXCEPT ![u] = index]
  BY DEF FixBegin
<1>2. index \in Index
  <2>1. next[u] \in Nat
    BY <1>0, BitsAssumption DEF Others, Index
  <2> QED  BY <2>1, BitsAssumption DEF Index
<1> HIDE DEF index
<1>3. Lookup(m) /\ m.pc = "successor"
  BY NoFrames DEF Lookup
<1> HIDE DEF m
<1>4. Message(m)
  BY <1>3, LookupMessage
<1>5. Procs'
  BY <1>0, <1>1, <1>4, GotoKeeps
<1>6. runs' \in [Members -> [Task -> 0 .. Runs]]
  BY <1>0, BeginsCounts DEF FixBegin
<1>7. Others'
  BY <1>0, <1>1, <1>2, <1>6 DEF Others
<1> QED  BY <1>0, <1>1, <1>5, <1>7, Quiet

(* Service::successor takes note of the caller.                            *)
LEMMA SuccessorArrivesKeeps ==
    ASSUME IInv, NEW u \in Members, SuccessorArrives(u)
    PROVE  Good
<1> DEFINE p == proc[u]["fix"]
           v == p.target
           q == update(Me(v), router[v], Me(p.caller))
           m == [p EXCEPT !.pc = "probe"]
<1>0. Others /\ Routers /\ Procs /\ "fix" \in Kind
  BY Parts, Kinds
<1>1. /\ Message(p) /\ p.pc = "successor" /\ v \in Members
      /\ SetRouter(v, q) /\ Goto(u, "fix", m)
      /\ UNCHANGED <<status, runs, next, timeouts, announced, mishaps>>
  BY <1>0 DEF Procs, SuccessorArrives, Serving
<1> HIDE DEF p
<1>2. Lookup(p)
  BY <1>1, LookupMessage
<1>3. Me(p.caller) \in Node
  BY <1>2, NodesMade DEF Lookup
<1>4. Message(m)
  BY <1>2, LookupGoesOn, NoFrames
<1> HIDE DEF m, v
<1>5. Fit(v, router[v])
  BY <1>0, <1>1 DEF Routers
<1>6. Fit(v, q) /\ Closer(v, router[v], q)
  BY <1>1, <1>3, <1>5, UpdateFit
<1> HIDE DEF q
<1>7. Routers' /\ Kept
  BY <1>0, <1>1, <1>6, SetKeeps, KeptSet
<1>8. Procs'
  BY <1>0, <1>1, <1>4, GotoKeeps
<1>9. Others'
  BY <1>0, <1>1 DEF Others
<1> QED  BY <1>7, <1>8, <1>9, Assemble

(* ... removes a successor that does not answer.                           *)
LEMMA SuccessorProbesKeeps ==
    ASSUME IInv, NEW u \in Members, SuccessorProbes(u)
    PROVE  Good
<1> DEFINE v == proc[u]["fix"].target
           uuid == successor_or_self(Me(v), router[v]).uuid
<1>0. Others /\ Routers /\ Procs
  BY Parts
<1>1. /\ v \in Members /\ Fails(uuid) /\ RemovePeer(v, uuid)
      /\ UNCHANGED <<status, proc, runs, next, mishaps>>
  BY DEF SuccessorProbes, Serving
<1> HIDE DEF uuid, v
<1>2. Others' /\ Routers' /\ Kept
  BY <1>0, <1>1, RemoveFailed
<1>3. Procs'
  BY <1>0, <1>1 DEF Procs
<1> QED  BY <1>2, <1>3, Assemble

(* ... and answers with a node ...                                         *)
LEMMA SuccessorAnswersKeeps ==
    ASSUME IInv, NEW u \in Members, SuccessorAnswers(u)
    PROVE  Good
<1> DEFINE p == proc[u]["fix"]
           v == p.target
           succ == successor_or_self(Me(v), router[v])
           m == [pc |-> "fixed", id |-> p.id, succ |-> succ, ring |-> p.ring]
<1>0. Others /\ Routers /\ Procs /\ "fix" \in Kind
  BY Parts, Kinds
<1>1. /\ v \in Members /\ Goto(u, "fix", m) /\ UNCHANGED timeouts
      /\ UNCHANGED <<status, router, runs, next, announced, mishaps>>
  BY DEF SuccessorAnswers, Serving, Answers
<1> HIDE DEF p, v
<1>2. succ \in Node
  <2>1. router[v] \in RouterState /\ Me(v) \in Node
    BY <1>0, <1>1, NodesMade DEF Routers
  <2> QED  BY <2>1, NodesRead DEF successor_or_self
<1> HIDE DEF succ
<1>3. Message(m)
  BY <1>2 DEF Message
<1> HIDE DEF m
<1>4. Procs'
  BY <1>0, <1>1, <1>3, GotoKeeps
<1>5. Others'
  BY <1>0, <1>1 DEF Others
<1> QED  BY <1>0, <1>1, <1>4, <1>5, Quiet

(* ... or forwards the request.                                            *)
LEMMA SuccessorForwardsKeeps ==
    ASSUME IInv, NEW u \in Members, SuccessorForwards(u)
    PROVE  Good
<1> DEFINE p == proc[u]["fix"]
           v == p.target
           cands == closest_preceding_nodes(Me(v), router[v], p.id)
           m == [p EXCEPT !.pc = "successor", !.target = Head(cands).uuid,
                          !.caller = v, !.stack = Push(@, v, cands)]
<1>0. Others /\ Routers /\ Procs /\ "fix" \in Kind
  BY Parts, Kinds
<1>1. /\ Message(p) /\ p.pc = "probe" /\ v \in Members
      /\ Goto(u, "fix", m) /\ UNCHANGED timeouts
      /\ UNCHANGED <<status, router, runs, next, announced, mishaps>>
  BY <1>0 DEF Procs, SuccessorForwards, Serving, Answers
<1> HIDE DEF p
<1>2. Lookup(p)
  BY <1>1, LookupMessage
<1> HIDE DEF cands, v
<1>3. IsStack(Push(p.stack, v, cands))
  BY <1>2, PushStack DEF Lookup
<1>4. m = [p EXCEPT !.pc = "successor", !.target = Head(cands).uuid,
                    !.caller = v, !.stack = Push(p.stack, v, cands)]
  BY <1>2 DEF Lookup
<1>5. Message(m)
  BY <1>1, <1>2, <1>3, <1>4, LookupGoesOn
<1> HIDE DEF m
<1>6. Procs'
  BY <1>0, <1>1, <1>5, GotoKeeps
<1>7. Others'
  BY <1>0, <1>1 DEF Others
<1> QED  BY <1>0, <1>1, <1>6, <1>7, Quiet

(* A lookup whose call fails is tried again by a handler that is there.    *)
LEMMA SuccessorFailsKeeps ==
    ASSUME IInv, NEW u \in Members, SuccessorFails(u)
    PROVE  Good
<1> DEFINE p == proc[u]["fix"]
           again == [p EXCEPT !.pc = "successor", !.target = Retry(p.stack).target,
                              !.caller = Retry(p.stack).caller, !.stack = Retry(p.stack).stack]
           m == IF Retries(p.stack) = {} THEN Idle ELSE again
<1>0. Others /\ Routers /\ Procs /\ "fix" \in Kind
  BY Parts, Kinds
<1>1. /\ Message(p) /\ p.pc \in {"successor", "probe"} /\ Goto(u, "fix", m)
      /\ UNCHANGED <<status, router, runs, next, timeouts, announced, mishaps>>
  BY <1>0 DEF Procs, SuccessorFails
<1> HIDE DEF p
<1>2. Lookup(p)
  BY <1>1, LookupMessage
<1>3. Retries(p.stack) # {} => Message(again)
  <2> SUFFICES ASSUME Retries(p.stack) # {} PROVE Message(again)
    OBVIOUS
  <2>1. IsStack(Retry(p.stack).stack) /\ Retry(p.stack).caller \in Members
    BY <1>2, RetryStack DEF Lookup
  <2> QED  BY <1>2, <2>1, LookupGoesOn
<1> HIDE DEF again
<1>4. Message(m)
  BY <1>3, EndMessages
<1> HIDE DEF m
<1>5. Procs'
  BY <1>0, <1>1, <1>4, GotoKeeps
<1>6. Others'
  BY <1>0, <1>1 DEF Others
<1> QED  BY <1>0, <1>1, <1>5, <1>6, Quiet

(* Service::fix_fingers, the answer: the one stale reply that removes a    *)
(* successor is the excuse SuccessorKept names.                            *)
LEMMA FixReplyKeeps ==
    ASSUME IInv, NEW u \in Members, FixReply(u)
    PROVE  Good
<1> DEFINE p == proc[u]["fix"]
<1>0. Others /\ Routers /\ Procs /\ "fix" \in Kind
  BY Parts, Kinds
<1>1. Message(p) /\ p.pc = "fixed" /\ Goto(u, "fix", Idle)
      /\ UNCHANGED <<status, runs, next, timeouts>>
  BY <1>0 DEF Procs, FixReply
<1>2. Procs'
  BY <1>0, <1>1, EndMessages, GotoKeeps
<1>3. CASE p.succ = Me(u)
  <2>1. RemovePeer(u, p.id)
    BY <1>3 DEF FixReply
  <2>2. Succ(u) = p.id => Excused(u)
    BY <1>1, <1>3 DEF Excused, Pc
  <2>3. Routers' /\ Kept /\ announced' \in [Members -> OptNode]
    <3> HIDE DEF p
    <3> QED  BY <1>0, <2>1, <2>2, RemovePeerKeeps
  <2>4. mishaps' \subseteq Mishap
    BY <1>0, <1>3 DEF Others, FixReply, Notes, Mishap
  <2>5. Others'
    BY <1>0, <1>1, <2>3, <2>4 DEF Others
  <2> QED  BY <1>2, <2>3, <2>5, Assemble
<1>4. CASE p.succ # Me(u)
  <2> DEFINE q == update(Me(u), router[u], p.succ)
  <2>1. SetRouter(u, q) /\ UNCHANGED <<announced, mishaps>>
    BY <1>4 DEF FixReply
  <2> HIDE DEF p
  <2>2. p.succ \in Node
    BY <1>1 DEF Message
  <2>3. Fit(u, router[u])
    BY <1>0 DEF Routers
  <2>4. Fit(u, q) /\ Closer(u, router[u], q)
    BY <2>2, <2>3, UpdateFit
  <2> HIDE DEF q
  <2>5. Routers' /\ Kept
    BY <1>0, <2>1, <2>4, SetKeeps, KeptSet
  <2>6. Others'
    BY <1>0, <1>1, <2>1 DEF Others
  <2> QED  BY <1>2, <2>5, <2>6, Assemble
<1> QED  BY <1>3, <1>4

(* ChordFacade::stabilize and fix_fingers.                                 *)
LEMMA TasksKeep ==
    ASSUME IInv, NEW u \in Members, Stabilize(u) \/ FixFingers(u)
    PROVE  Good
<1>1. CASE Stabilize(u)
  BY <1>1, StabilizeBeginKeeps, StabilizeHandledKeeps, StabilizeFailsKeeps, StabilizeReplyKeeps,
     StabilizeNotifyKeeps DEF Stabilize
<1>2. CASE FixFingers(u)
  BY <1>2, FixBeginKeeps, SuccessorArrivesKeeps, SuccessorProbesKeeps, SuccessorAnswersKeeps,
     SuccessorForwardsKeeps, SuccessorFailsKeeps, FixReplyKeeps DEF FixFingers
<1> QED  BY <1>1, <1>2

-----------------------------------------------------------------------------
(* What a leaving peer hands over are nodes.                               *)
LEMMA LeaveMessage ==
    ASSUME NEW pc \in {"leave_succ", "leave_pred"}, NEW n, NEW r \in RouterState
    PROVE  Message(ToLeave(pc, n, r))
<1>1. get(r) \subseteq Node
  BY NodesRead
<1> QED  BY <1>1 DEF ToLeave, Message

(* ChordFacade::stop                                                       *)
LEMMA StopBeginKeeps ==
    ASSUME IInv, NEW u \in Members, StopBegin(u)
    PROVE  Good
<1> DEFINE m == ToLeave("leave_succ", successor(router[u]), router[u])
<1>0. Others /\ Routers /\ Procs /\ "main" \in Kind
  BY Parts, Kinds
<1>1. Goto(u, "main", m) /\ UNCHANGED <<status, router, runs, next, timeouts, announced, mishaps>>
  BY DEF StopBegin
<1>2. Message(m)
  BY <1>0, LeaveMessage DEF Routers
<1> HIDE DEF m
<1>3. Procs'
  BY <1>0, <1>1, <1>2, GotoKeeps
<1>4. Others'
  BY <1>0, <1>1 DEF Others
<1> QED  BY <1>0, <1>1, <1>3, <1>4, Quiet

(* The successor has been told of the leave.                               *)
LEMMA LeaveNextKeeps ==
    ASSUME IInv, NEW u \in Members, LeaveNext(u)
    PROVE  Good
<1> DEFINE m == ToLeave("leave_pred", router[u].predecessor, router[u])
<1>0. Others /\ Routers /\ Procs /\ "main" \in Kind
  BY Parts, Kinds
<1>1. Goto(u, "main", m) /\ UNCHANGED <<status, router, runs, next, timeouts, announced, mishaps>>
  BY DEF LeaveNext
<1>2. Message(m)
  BY <1>0, LeaveMessage DEF Routers
<1> HIDE DEF m
<1>3. Procs'
  BY <1>0, <1>1, <1>2, GotoKeeps
<1>4. Others'
  BY <1>0, <1>1 DEF Others
<1> QED  BY <1>0, <1>1, <1>3, <1>4, Quiet

(* Client::leave: the successor is informed, then the predecessor.         *)
LEMMA LeaveKeeps ==
    ASSUME IInv, NEW u \in Members, LeaveSuccessor(u) \/ LeavePredecessor(u)
    PROVE  Good
<1> DEFINE p == proc[u]["main"]
<1>0. Others /\ Routers /\ Procs /\ "main" \in Kind
  BY Parts, Kinds
<1>1. PICK pc \in {"leave_next", "left"} :
        /\ p.pc \in {"leave_succ", "leave_pred"} /\ Inform(u, p)
        /\ Goto(u, "main", [pc |-> pc])
        /\ UNCHANGED <<status, runs, next, announced, mishaps>>
  BY DEF LeaveSuccessor, LeavePredecessor
<1>2. Message(p) /\ Pc(u, "main") # "ready"
  BY <1>0, <1>1 DEF Procs, Pc
<1> HIDE DEF p
<1>3. p.entries \subseteq Node
  BY <1>1, <1>2 DEF Message
<1>4. Others' /\ Routers' /\ Kept
  BY <1>0, <1>1, <1>2, <1>3, InformKeeps
<1>5. Message([pc |-> pc])
  BY PlainMessage
<1>6. Procs'
  BY <1>0, <1>1, <1>5, GotoKeeps
<1> QED  BY <1>4, <1>6, Assemble

(* The process ends, or crashes.                                           *)
LEMMA ExitKeeps ==
    ASSUME IInv, NEW u \in Members, Exit(u) \/ Crash(u)
    PROVE  Good
<1>0. Others /\ Routers /\ Procs
  BY Parts
<1>1. CASE Exit(u)
  <2>1. Others'
    BY <1>0, <1>1 DEF Others, Exit
  <2>2. Procs'
    BY <1>0, <1>1 DEF Procs, Exit
  <2> QED  BY <1>0, <1>1, <2>1, <2>2, Quiet DEF Exit
<1>2. CASE Crash(u)
  BY <1>2, DiesKeeps DEF Crash
<1> QED  BY <1>1, <1>2

(* A step in which nothing happens.                                        *)
LEMMA RestKeeps ==
    ASSUME IInv, UNCHANGED vars
    PROVE  Good
<1>0. Others /\ Routers /\ Procs
  BY Parts
<1>1. UNCHANGED <<status, router, proc, runs, next, timeouts, announced, mishaps>>
  BY DEF vars
<1>2. Others' /\ Procs'
  BY <1>0, <1>1 DEF Others, Procs
<1> QED  BY <1>0, <1>1, <1>2, Quiet

-----------------------------------------------------------------------------
(* Bootstrap peers with empty routers, all others off.                     *)
LEMMA Initially == Init => IInv
<1> SUFFICES ASSUME Init PROVE IInv
  OBVIOUS
<1>1. 0 \in Index
  BY BitsAssumption DEF Index
<1>2. Others
  BY <1>1, OverlayAssumption DEF Init, Others, OptNode
<1>3. Routers
  BY EmptyFit DEF Init, Routers, Fit
<1>4. Procs
  BY EndMessages DEF Init, Procs
<1> QED  BY <1>2, <1>3, <1>4, Parts

(* Every step of every process keeps the invariant and every successor     *)
(* that is there.                                                          *)
LEMMA EveryStep ==
    ASSUME IInv, [Next]_vars
    PROVE  Good
<1>1. ASSUME NEW u \in Members, Step(u) \/ StopBegin(u) \/ Crash(u) PROVE Good
  <2>1. CASE Main(u)
    BY <2>1, StartKeeps, LeaveKeeps, LeaveNextKeeps, ExitKeeps DEF Main
  <2>2. CASE \E k \in JoinKind : Join(u, k)
    BY <2>2, JoinKeeps
  <2>3. CASE Stabilize(u) \/ Check(u) \/ FixFingers(u)
    BY <2>3, TasksKeep, CheckKeeps
  <2>4. CASE StopBegin(u) \/ Crash(u)
    BY <2>4, StopBeginKeeps, ExitKeeps
  <2> QED  BY <1>1, <2>1, <2>2, <2>3, <2>4 DEF Step
<1>2. ASSUME Rest \/ UNCHANGED vars PROVE Good
  BY <1>2, RestKeeps DEF Rest
<1> QED  BY <1>1, <1>2 DEF Next

(* Whatever joins, leaves, crashes, late answers and lookups interleave,   *)
(* in a ring of any size: every router keeps its shape, and every node a   *)
(* reply or a notification carries is a node.                              *)
THEOREM Invariance == Spec => []IInv
<1>1. IInv /\ [Next]_vars => IInv'
  BY EveryStep DEF Good
<1> QED  BY <1>1, Initially, PTL DEF Spec

(* Type correctness of the ring protocol, for every number of peers.       *)
THEOREM TypeCorrect == Spec => []TypeOK
  BY Invariance, PTL DEF IInv

(* ChordFacade, Client and Service: stale replies and gossip never push a  *)
(* good successor out of a peer's router, in a ring of any size.           *)
THEOREM SuccessorKeptHolds == Spec => SuccessorKept
<1> DEFINE A == \A u \in Up : has_successor(router[u]) =>
          \/ has_successor(router'[u]) /\ Distance(u, Succ(u)') <= Distance(u, Succ(u))
          \/ Succ(u) \notin Settled
          \/ timeouts' > timeouts
          \/ Pc(u, "fix") = "fixed" /\ proc[u]["fix"].succ = Me(u) /\ proc[u]["fix"].id = Succ(u)
          \/ \E k \in JoinKind : Pc(u, k) = "join_failed"
<1>1. ASSUME Kept PROVE A
  <2> SUFFICES ASSUME NEW u \in Up, has_successor(router[u]), ~Excused(u)
               PROVE  has_successor(router'[u]) /\ Distance(u, Succ(u)') <= Distance(u, Succ(u))
    BY DEF Excused
  <2>1. Closer(u, router[u], router'[u])
    BY <1>1 DEF Kept
  <2>2. has_successor(router'[u]) => Succ(u)' = successor(router'[u]).uuid
    BY DEF Succ, successor_or_self
  <2>3. Succ(u) = successor(router[u]).uuid
    BY DEF Succ, successor_or_self
  <2> QED  BY <2>1, <2>2, <2>3 DEF Closer
<1>2. IInv /\ [Next]_vars => [A]_vars
  BY <1>1, EveryStep DEF Good
<1> QED  BY <1>2, Invariance, PTL DEF Spec, SuccessorKept
=============================================================================
