------------------------- MODULE OverlayJoinProofs --------------------------
(***************************************************************************)
(* NoUndefined and OneRing of Overlay: however joins, stabilisation,       *)
(* checks and lookups of any number of peers interleave, no handler        *)
(* dereferences an empty successor or predecessor and the ring is never    *)
(* split, as long as nobody leaves, crashes or misses a deadline.  When    *)
(* peers join one after the other, CalmIdeal and LookupCorrect hold, too.  *)
(* Every peer joins through any peer of the ring; a uuid may lie anywhere  *)
(* but directly after another one: see Spread.                             *)
(***************************************************************************)
EXTENDS OverlayProofs

(* The router of u knows peers of S only, and not u itself; it has a       *)
(* successor exactly when it has a predecessor.                            *)
Linked(S, u, r) ==
    /\ \A i \in Index : Valid(r, i) => r.successors[i].uuid \in S \ {u}
    /\ has_predecessor(r) => r.predecessor.uuid \in S \ {u}
    /\ has_successor(r) <=> has_predecessor(r)

(* The nodes that a handler has still to try are peers of W.               *)
Tries(frame, W) ==
    /\ frame \in [at : {frame.at}, rest : {frame.rest}]
    /\ IsStack(frame.rest) /\ \A j \in 1 .. Len(frame.rest) : frame.rest[j].uuid \in W

(* What process p of u, whose router is r, knows: the nodes in flight are  *)
(* peers of S, a join is not sent to the peer that joins, a peer that      *)
(* notifies others has a successor, and a lookup that left u found one.    *)
Sound(S, u, r, p) ==
    /\ p.pc \notin {"garbage", "join_failed"}
    /\ p # Idle => u \in S
    /\ p.pc = "join" => p.target # u /\ \A i \in 1 .. Len(p.stack) : Tries(p.stack[i], Members \ {u})
    /\ p.pc = "joined" => p.succ.uuid \in S \ {u} /\ p.pred.uuid \in S \ {u}
    /\ p.pc \in {"notify_pred", "notify_succ"} =>
          p.target \in S \ {u} /\ p.nodes[1].uuid \in S /\ p.nodes[2].uuid \in S
    /\ p.pc \in {"notify_pred", "notified_pred", "notify_succ"} => has_successor(r)
    /\ p.pc \in {"notified_pred", "notify_succ"} => p.ok = TRUE
    /\ p.pc = "stabilize" => p.peer.uuid \in S \ {u}
    /\ p.pc = "stabilized" => p.peer.uuid \in S /\ (p.pred = NoNode \/ p.pred.uuid \in S)
    /\ p.pc = "notify" => p.target \in S \ {u}
    /\ p.pc = "ping" => p.peer.uuid \in S
    /\ p.pc \in {"successor", "probe"} =>
          /\ p.id \in Uuid /\ p.target # p.id /\ p.target \in S /\ p.caller \in S
          /\ \A i \in 1 .. Len(p.stack) : p.stack[i].at \in S
          /\ (p.target = u /\ p.stack = << >>) \/ has_successor(r)
    /\ p.pc = "fixed" =>
          p.succ.uuid \in S /\ (p.succ = Me(u) \/ has_successor(r))

(* No empty optional has been dereferenced.                                *)
Defined == mishaps \cap Dereference = {}

JoinInv ==
    /\ Defined /\ Bootstrap \subseteq Up
    /\ \A u \in Members : Linked(Up, u, router[u])
    /\ \A u \in Members, k \in Kind : Sound(Up, u, router[u], proc[u][k])

(* Nobody has left, crashed or been late: OnlyJoins, but for what is said  *)
(* of peers that have not started.                                         *)
Leaving == {"leave_succ", "leave_next", "leave_pred", "left"}

StillJoins ==
    /\ timeouts = 0 /\ "Service::fix_fingers" \notin mishaps
    /\ \A u \in Members : status[u] \in {"off", "up"} /\ (u \in Up => Pc(u, "main") \notin Leaving)

(* The inductive invariant.                                                *)
IInvJoins == IInv /\ (StillJoins => JoinInv)

-----------------------------------------------------------------------------
(* What holds goes on to hold when more peers are up and more have a       *)
(* successor.                                                              *)
LEMMA GrowSound ==
    ASSUME NEW S, NEW T, S \subseteq T, NEW u, NEW r, NEW q,
           has_successor(r) => has_successor(q), NEW p, Sound(S, u, r, p)
    PROVE  Sound(T, u, q, p)
  BY DEF Sound

(* The same for what a router knows.                                       *)
LEMMA GrowLinked ==
    ASSUME NEW S, NEW T, S \subseteq T, NEW u, NEW r, Linked(S, u, r)
    PROVE  Linked(T, u, r)
  BY DEF Linked

(* An interval does not contain its ends.                                  *)
LEMMA BetweenEnds ==
    ASSUME NEW x \in Uuid, NEW y \in Uuid
    PROVE  ~Between(x, x, y) /\ ~Between(y, x, x) /\ (x # y => Between(x, y, x))
  BY DEF Between, Uuid

(* Router::update gives a router that was empty a successor as well as a   *)
(* predecessor.  A node with the own uuid under another endpoint would     *)
(* only become the predecessor: it may come when there is one.             *)
LEMMA LinkedUpdate ==
    ASSUME Spread, NEW S \in SUBSET Members, NEW u \in Members, NEW r, Fit(u, r), Linked(S, u, r),
           NEW n \in Node, n.uuid \in S, n.uuid # u \/ n = Me(u) \/ has_successor(r),
           NEW q, q = update(Me(u), r, n)
    PROVE  /\ Linked(S, u, q)
           /\ has_successor(r) => has_successor(q)
           /\ n.uuid # u => has_successor(q)
<1>0. /\ Me(u) \in Node /\ Me(u).uuid = u /\ 0 \in Index /\ n.uuid \in Uuid /\ n # NoNode
      /\ r \in RouterState /\ InReach(Me(u), r) /\ Tight(Me(u), r)
  BY NodesMade, NodeUuid, BitsAssumption, NoNodeAssumption DEF Fit, Index
<1>1. CASE n = Me(u)
  BY <1>0, <1>1 DEF update
<1>2. CASE n # Me(u)
  <2>1. /\ \A i \in Index : q.successors[i] = IF Improves(Me(u), r, i, n) THEN n ELSE r.successors[i]
        /\ q.predecessor = IF BecomesPredecessor(Me(u), r, n) THEN n ELSE r.predecessor
    BY <1>2 DEF update
  <2>2. q \in RouterState /\ \A i \in Index : Reach(Me(u), q, i) <= Reach(Me(u), r, i)
    BY <1>0, UpdateTable
  <2>3. has_successor(r) => has_successor(q)
    BY <1>0, <2>1, NoNodeAssumption DEF has_successor, Valid
  <2>4. n.uuid # u => has_successor(q)
    <3> SUFFICES ASSUME n.uuid # u PROVE has_successor(q)
      OBVIOUS
    <3>1. From(Me(u), 0) < Distance(u, n.uuid)
      BY <1>0 DEF Spread, From
    <3>2. Distance(u, n.uuid) \in 0 .. MaxUuid
      BY <1>0, DistRange
    <3>3. CASE has_successor(r)
      BY <2>3, <3>3
    <3>4. CASE ~has_successor(r)
      <4>1. Reach(Me(u), r, 0) = Ring
        BY <3>4 DEF Reach, has_successor
      <4>2. Improves(Me(u), r, 0, n)
        BY <1>0, <3>1, <3>2, <4>1, ImprovesDist, RingFacts
      <4> QED  BY <1>0, <2>1, <4>2 DEF has_successor, Valid
    <3> QED  BY <3>3, <3>4
  <2>5. \A i \in Index : Valid(q, i) => q.successors[i].uuid \in S \ {u}
    <3> SUFFICES ASSUME NEW i \in Index, Valid(q, i) PROVE q.successors[i].uuid \in S \ {u}
      OBVIOUS
    <3>1. CASE ~Improves(Me(u), r, i, n)
      BY <2>1, <3>1 DEF Valid, Linked
    <3>2. CASE Improves(Me(u), r, i, n)
      <4>1. From(Me(u), i) < Distance(u, n.uuid)
        BY <1>0, <3>2, ImprovesDist
      <4>2. From(Me(u), i) \in 1 .. MaxUuid
        BY <1>0, ReachRange
      <4>3. n.uuid # u
        BY <1>0, <4>1, <4>2, DistRange, RingFacts
      <4> QED  BY <2>1, <3>2, <4>3
    <3> QED  BY <3>1, <3>2
  <2>6. has_predecessor(q) /\ q.predecessor.uuid \in S \ {u}
    <3>1. CASE n.uuid # u
      <4>1. CASE BecomesPredecessor(Me(u), r, n)
        BY <1>0, <2>1, <3>1, <4>1 DEF has_predecessor
      <4>2. CASE ~BecomesPredecessor(Me(u), r, n)
        BY <2>1, <4>2 DEF has_predecessor, BecomesPredecessor, Linked
      <4> QED  BY <4>1, <4>2
    <3>2. CASE n.uuid = u
      <4>1. has_predecessor(r) /\ r.predecessor.uuid \in S \ {u} /\ r.predecessor \in Node
        BY <1>0, <1>2, <3>2, NodesRead DEF Linked
      <4>2. ~Between(r.predecessor.uuid, n.uuid, Me(u).uuid)
        BY <1>0, <3>2, <4>1, NodeUuid, BetweenEnds
      <4>3. ~BecomesPredecessor(Me(u), r, n)
        BY <4>1, <4>2 DEF BecomesPredecessor, has_predecessor
      <4> QED  BY <2>1, <4>1, <4>3 DEF has_predecessor
    <3> QED  BY <3>1, <3>2
  <2>7. has_successor(q)
    BY <1>2, <2>3, <2>4
  <2> QED  BY <2>3, <2>4, <2>5, <2>6, <2>7 DEF Linked
<1> QED  BY <1>1, <1>2

(* Router::remove of a uuid that is not in the router.                     *)
LEMMA RemoveAbsent ==
    ASSUME NEW S \in SUBSET Members, NEW u \in Members, NEW r \in RouterState, Linked(S, u, r),
           NEW x, x \notin S
    PROVE  remove(Me(u), r, x) = r
<1>1. \A i \in Index : ~(Valid(r, i) /\ r.successors[i].uuid = x)
  BY DEF Linked
<1>2. ~(has_predecessor(r) /\ r.predecessor.uuid = x)
  BY DEF Linked
<1>3. r.successors = [i \in Index |-> r.successors[i]]
  BY DEF RouterState
<1>4. r = [successors |-> r.successors, predecessor |-> r.predecessor]
  BY DEF RouterState
<1>5. remove(Me(u), r, x) = [successors |-> [i \in Index |-> r.successors[i]], predecessor |-> r.predecessor]
  BY <1>1, <1>2 DEF remove
<1> QED  BY <1>3, <1>4, <1>5

(* The nodes a request is forwarded to are peers, and the one whose uuid   *)
(* is looked for is not among them.                                        *)
Leads(S, v, x, c) ==
    /\ c \in Seq(Node) /\ c # << >>
    /\ \A j \in 1 .. Len(c) : c[j].uuid \in S /\ (c[j] = Me(v) \/ c[j].uuid # x)

(* Router::closest_preceding_nodes returns such a list.                    *)
LEMMA Candidates ==
    ASSUME NEW S \in SUBSET Members, NEW v \in S, NEW r \in RouterState, Linked(S, v, r),
           NEW x \in Uuid
    PROVE  Leads(S, v, x, closest_preceding_nodes(Me(v), r, x))
<1> DEFINE c == closest_preceding_nodes(Me(v), r, x)
           P == Preceding(Me(v), r, x)
           I == Pushed(r, P)
           d == Downwards(I)
           n == Cardinality(I)
           s == [p \in 1 .. Len(d) |-> r.successors[d[p]]]
<1> SUFFICES Leads(S, v, x, c)
  OBVIOUS
<1>0. Me(v) \in Node /\ Me(v).uuid = v /\ v \in Uuid
  BY NodesMade, NodeUuid
<1>1. I \in SUBSET P /\ I \in SUBSET Index
  BY DEF Preceding, Pushed
<1>2. n \in Nat /\ d \in [1 .. n -> I]
  <2> HIDE DEF I
  <2> QED  BY <1>1, DownwardsIs
<1>3. \A i \in P : /\ r.successors[i] \in Node /\ r.successors[i].uuid \in S
                   /\ r.successors[i].uuid # x
  <2> SUFFICES ASSUME NEW i \in P
               PROVE  /\ r.successors[i] \in Node /\ r.successors[i].uuid \in S
                      /\ r.successors[i].uuid # x
    OBVIOUS
  <2>1. i \in Index /\ Valid(r, i) /\ Between(v, r.successors[i].uuid, x)
    BY <1>0 DEF Preceding
  <2>2. r.successors[i] \in Node /\ r.successors[i].uuid \in Uuid
    BY <1>0, <2>1, ReachRange
  <2>3. r.successors[i].uuid # x
    BY <1>0, <2>1, <2>2, BetweenEnds
  <2> QED  BY <2>1, <2>2, <2>3 DEF Linked
<1>4. c = IF s = << >> \/ s[1] # Me(v) THEN Append(s, Me(v)) ELSE s
  BY DEF closest_preceding_nodes
<1> HIDE DEF c, d, n, I, P
<1>5. Len(d) = n
  BY <1>2
<1>6. s = [p \in 1 .. n |-> r.successors[d[p]]] /\ \A p \in 1 .. n : d[p] \in P /\ s[p] = r.successors[d[p]]
  BY <1>1, <1>2, <1>5
<1> HIDE DEF s
<1>7. /\ s \in Seq(Node) /\ Len(s) = n
      /\ \A p \in 1 .. n : s[p].uuid \in S /\ s[p].uuid # x
  BY <1>2, <1>3, <1>6
<1>8. CASE c = Append(s, Me(v))
  <2>1. /\ c \in Seq(Node) /\ Len(c) = n + 1 /\ c[n + 1] = Me(v)
        /\ \A p \in 1 .. n : c[p] = s[p]
    BY <1>0, <1>2, <1>7, <1>8
  <2>2. \A j \in 1 .. Len(c) : j \in 1 .. n \/ j = n + 1
    BY <1>2, <2>1
  <2>3. c # << >>
    BY <1>2, <2>1
  <2>4. \A j \in 1 .. Len(c) : c[j].uuid \in S /\ (c[j] = Me(v) \/ c[j].uuid # x)
    BY <1>0, <1>7, <2>1, <2>2
  <2> QED  BY <2>1, <2>3, <2>4 DEF Leads
<1>9. CASE c = s /\ s # << >>
  <2>1. /\ c \in Seq(Node) /\ c # << >> /\ Len(c) = n
        /\ \A j \in 1 .. n : c[j].uuid \in S /\ c[j].uuid # x
    BY <1>7, <1>9
  <2> QED  BY <2>1 DEF Leads
<1>10. (s = << >> \/ s[1] # Me(v)) \/ s # << >>
  OBVIOUS
<1>11. c = Append(s, Me(v)) \/ (c = s /\ s # << >>)
  BY ONLY <1>4, <1>10
<1> QED  BY <1>8, <1>9, <1>11

-----------------------------------------------------------------------------
(* No router loses its successor or learns of a peer that is not there.    *)
Grown ==
    \A w \in Members : /\ Linked(Up', w, router'[w])
                       /\ has_successor(router[w]) => has_successor(router'[w])

(* What is left of a step: nobody has left, crashed or been late before,   *)
(* and the invariant holds afterwards.                                     *)
Goes == StillJoins /\ JoinInv /\ JoinInv' /\ Up \subseteq Up' /\ Grown

(* A call is answered, or counts as late.                                  *)
OnTime == timeouts' = timeouts \/ timeouts' = timeouts + 1

(* A call that is answered or fails does one of the two.                   *)
LEMMA CallsOnTime ==
    ASSUME NEW v, Answers(v) \/ Fails(v)
    PROVE  OnTime
  BY DEF Answers, Fails, OnTime

(* The processes after a step of one of them.                              *)
LEMMA ProcAfter ==
    ASSUME Procs, NEW u \in Members, NEW k \in Kind, NEW p, Goto(u, k, p)
    PROVE  /\ proc'[u][k] = p
           /\ \A w \in Members, j \in Kind : w # u \/ j # k => proc'[w][j] = proc[w][j]
<1>1. DOMAIN proc = Members /\ DOMAIN proc[u] = Kind
  BY DEF Procs
<1>2. proc'[u] = [proc[u] EXCEPT ![k] = p] /\ \A w \in Members : w # u => proc'[w] = proc[w]
  BY <1>1 DEF Goto
<1> QED  BY <1>1, <1>2

(* What went wrong is not forgotten.                                       *)
Growing == mishaps \subseteq mishaps'

(* A step after which only joins have happened comes after such a state.   *)
LEMMA JoinsBefore ==
    ASSUME Others, StillJoins', Growing, UNCHANGED status, OnTime,
           \A w \in Up : Pc(w, "main") \in Leaving => Pc(w, "main")' \in Leaving
    PROVE  StillJoins /\ UNCHANGED timeouts /\ Up' = Up
<1>1. timeouts \in Nat /\ timeouts' = 0
  BY DEF Others, StillJoins
<1>2. timeouts = 0 /\ UNCHANGED timeouts
  BY <1>1 DEF OnTime
<1>3. \A w \in Members : status[w] \in {"off", "up"}
  BY DEF StillJoins
<1>4. Up' = Up
  BY DEF Up, Serving
<1>5. \A w \in Up : Pc(w, "main") \notin Leaving
  BY <1>4 DEF StillJoins, Up
<1>6. "Service::fix_fingers" \notin mishaps
  BY DEF StillJoins, Growing
<1> QED  BY <1>2, <1>3, <1>4, <1>5, <1>6 DEF StillJoins

(* So does a step of a process that does not leave.                        *)
LEMMA Calmly ==
    ASSUME IInvJoins, StillJoins', Growing, UNCHANGED status, OnTime,
           NEW u \in Members, NEW k \in Kind, NEW p, Goto(u, k, p), Pc(u, k) \notin Leaving
    PROVE  StillJoins /\ JoinInv /\ UNCHANGED timeouts /\ Up' = Up
<1>1. Others /\ Procs
  BY Parts DEF IInvJoins
<1>2. "main" \in Kind
  BY DEF Kind
<1>3. \A w \in Up : Pc(w, "main") \in Leaving => Pc(w, "main")' \in Leaving
  <2> SUFFICES ASSUME NEW w \in Up, w \in Members, Pc(w, "main") \in Leaving
               PROVE  Pc(w, "main")' \in Leaving
    BY DEF Up
  <2>1. w # u \/ "main" # k
    OBVIOUS
  <2>2. proc'[w]["main"] = proc[w]["main"]
    BY <1>1, <1>2, <2>1, ProcAfter
  <2> QED  BY <2>2 DEF Pc
<1>4. StillJoins /\ UNCHANGED timeouts /\ Up' = Up
  BY <1>1, <1>3, JoinsBefore
<1> QED  BY <1>4 DEF IInvJoins

(* A call to a peer that is up does not fail.                              *)
LEMMA NoFailure ==
    ASSUME Others, UNCHANGED timeouts, NEW v \in Up
    PROVE  ~Fails(v) /\ Serving(v)
<1>1. timeouts \in Nat
  BY DEF Others
<1> QED  BY <1>1 DEF Fails, Up

(* Routers grow when they stay as they are ...                             *)
LEMMA SameRouters ==
    ASSUME JoinInv, Up \subseteq Up', UNCHANGED router
    PROVE  Grown
  BY GrowLinked DEF JoinInv, Grown

(* ... or one of them learns.                                              *)
LEMMA OneRouter ==
    ASSUME Routers, JoinInv, Up' = Up, NEW v \in Members, NEW q, SetRouter(v, q), Linked(Up, v, q),
           has_successor(router[v]) => has_successor(q)
    PROVE  Grown /\ router'[v] = q
<1>1. router'[v] = q /\ \A w \in Members : w # v => router'[w] = router[w]
  BY DEF SetRouter, Routers
<1>2. ASSUME NEW w \in Members
      PROVE  /\ Linked(Up', w, router'[w])
             /\ has_successor(router[w]) => has_successor(router'[w])
  BY <1>1 DEF JoinInv
<1> QED  BY <1>1, <1>2 DEF Grown

(* A process goes on with what is sound.                                   *)
LEMMA Advance ==
    ASSUME IInvJoins, JoinInv, StillJoins, Up \subseteq Up', Defined', Grown,
           NEW u \in Members, NEW k \in Kind, NEW p, Goto(u, k, p), Sound(Up', u, router'[u], p)
    PROVE  Goes
<1>1. Procs
  BY Parts DEF IInvJoins
<1>2. ASSUME NEW w \in Members, NEW j \in Kind
      PROVE  Sound(Up', w, router'[w], proc'[w][j])
  <2>1. CASE w = u /\ j = k
    BY <1>1, <2>1, ProcAfter
  <2>2. CASE w # u \/ j # k
    <3>1. proc'[w][j] = proc[w][j]
      BY <1>1, <2>2, ProcAfter
    <3>2. Sound(Up, w, router[w], proc[w][j])
      BY DEF JoinInv
    <3> QED  BY <3>1, <3>2, GrowSound DEF Grown
  <2> QED  BY <2>1, <2>2
<1>3. \A w \in Members : Linked(Up', w, router'[w])
  BY DEF Grown
<1> QED  BY <1>2, <1>3 DEF Goes, JoinInv

-----------------------------------------------------------------------------
(* A join begins with the peer that is configured.                         *)
LEMMA SoundJoin ==
    ASSUME Spread, NEW S, NEW u \in S, NEW r, u \in DOMAIN JoinAddr
    PROVE  Sound(S, u, r, JoinVia(u))
<1>1. JoinAddr[u] # u
  BY DEF Spread
<1>2. Len(<< >>) = 0
  OBVIOUS
<1> QED  BY <1>1, <1>2 DEF Sound, JoinVia

(* The ends of a process know nothing.                                     *)
LEMMA SoundEnds ==
    ASSUME Spread, NEW S, NEW u \in S, NEW r
    PROVE  /\ Sound(S, u, r, Idle)
           /\ \A k : Sound(S, u, r, AfterJoin(k))
           /\ \A q : Sound(S, u, r, AfterStabilize(u, q))
<1>1. Sound(S, u, r, Idle) /\ Sound(S, u, r, Ready)
  BY DEF Sound, Idle, Ready
<1>2. \A k : Sound(S, u, r, AfterJoin(k))
  BY <1>1 DEF AfterJoin
<1>3. \A q : Sound(S, u, r, AfterStabilize(u, q))
  BY <1>1, SoundJoin DEF AfterStabilize
<1> QED  BY <1>1, <1>2, <1>3

(* A process that has begun belongs to a peer that is up.                  *)
LEMMA SoundUp ==
    ASSUME JoinInv, NEW u \in Members, NEW k \in Kind, Pc(u, k) # "idle"
    PROVE  u \in Up /\ Sound(Up, u, router[u], proc[u][k])
<1>1. Sound(Up, u, router[u], proc[u][k])
  BY DEF JoinInv
<1>2. proc[u][k] # Idle
  BY DEF Pc, Idle
<1> QED  BY <1>1, <1>2 DEF Sound

(* The frames of a stack on which one was pushed.                          *)
LEMMA PushFrames ==
    ASSUME NEW s, IsStack(s), NEW v, NEW c, NEW z, z = Push(s, v, c)
    PROVE  \A i \in 1 .. Len(z) : z[i] = Frame(v, c) \/ (i \in 1 .. Len(s) /\ z[i] = s[i])
<1> DEFINE f == Frame(v, c)
           S == {s[k] : k \in 1 .. Len(s)}
<1>1. s \in Seq(S \cup {f}) /\ f \in S \cup {f}
  BY DEF IsStack
<1>2. z = s \/ z = Append(s, f)
  BY DEF Push
<1> HIDE DEF f, S
<1>3. \A i \in 1 .. Len(z) : z[i] = f \/ (i \in 1 .. Len(s) /\ z[i] = s[i])
  BY <1>1, <1>2
<1> QED  BY <1>3 DEF f

(* ChordFacade::start: one peer more is up.                                *)
LEMMA StartJoins ==
    ASSUME Spread, IInvJoins, StillJoins', Growing, NEW u \in Members, Start(u)
    PROVE  Goes
<1>1. Others /\ Procs /\ "main" \in Kind
  BY Parts DEF IInvJoins, Kind
<1>2. /\ status[u] = "off" /\ status' = [status EXCEPT ![u] = "up"]
      /\ Goto(u, "main", JoinVia(u)) /\ UNCHANGED <<router, timeouts>>
      /\ mishaps' = mishaps \cup {x \in {"ChordFacade::start"} : JoinAddr[u] \notin Inside}
  BY DEF Start, Notes
<1>3. /\ Up \subseteq Up' /\ u \in Up' /\ u \notin Up
      /\ \A w \in Members : w # u => status'[w] = status[w]
  BY <1>1, <1>2 DEF Up, Serving, Others
<1>4. StillJoins
  <2>1. ASSUME NEW w \in Up PROVE Pc(w, "main") \notin Leaving
    <3>1. w \in Members /\ w # u /\ w \in Up'
      BY <1>3 DEF Up
    <3>2. proc'[w]["main"] = proc[w]["main"]
      BY <1>1, <1>2, <3>1, ProcAfter
    <3> QED  BY <3>1, <3>2 DEF StillJoins, Pc
  <2>2. \A w \in Members : status[w] \in {"off", "up"}
    BY <1>2, <1>3 DEF StillJoins
  <2> QED  BY <1>2, <2>1, <2>2 DEF StillJoins, Growing
<1>5. JoinInv
  BY <1>4 DEF IInvJoins
<1>6. u \in DOMAIN JoinAddr
  BY <1>3, <1>5, OverlayAssumption DEF JoinInv
<1>7. Sound(Up', u, router'[u], JoinVia(u))
  BY <1>3, <1>6, SoundJoin
<1>8. Grown
  BY <1>2, <1>3, <1>5, SameRouters
<1>9. Defined'
  BY <1>2, <1>5 DEF JoinInv, Defined, Dereference
<1> QED  BY <1>1, <1>2, <1>3, <1>4, <1>5, <1>7, <1>8, <1>9, Advance

(* What a process in flight knows before its step.                         *)
LEMMA InFlight ==
    ASSUME IInvJoins, StillJoins', Growing, UNCHANGED status, OnTime,
           NEW u \in Members, NEW k \in Kind, NEW p, Goto(u, k, p),
           Pc(u, k) \notin Leaving, Pc(u, k) # "idle"
    PROVE  /\ Others /\ Routers /\ Message(proc[u][k])
           /\ StillJoins /\ JoinInv /\ UNCHANGED timeouts /\ Up' = Up /\ Up \in SUBSET Members
           /\ u \in Up /\ Sound(Up, u, router[u], proc[u][k])
           /\ \A v \in Up : /\ Linked(Up, v, router[v]) /\ Fit(v, router[v])
                            /\ v \in Members /\ v \in Uuid /\ Me(v) \in Node /\ Me(v).uuid = v
<1>1. Others /\ Routers /\ Procs
  BY Parts DEF IInvJoins
<1>2. StillJoins /\ JoinInv /\ UNCHANGED timeouts /\ Up' = Up
  BY Calmly
<1>3. u \in Up /\ Sound(Up, u, router[u], proc[u][k])
  BY <1>2, SoundUp
<1>4. Up \in SUBSET Members
  BY DEF Up
<1>5. ASSUME NEW v \in Up
      PROVE  /\ Linked(Up, v, router[v]) /\ Fit(v, router[v])
             /\ v \in Members /\ v \in Uuid /\ Me(v) \in Node /\ Me(v).uuid = v
  BY <1>1, <1>2, <1>4, NodesMade, OverlayAssumption DEF JoinInv, Routers
<1>6. Message(proc[u][k])
  BY <1>1 DEF Procs
<1> QED  BY <1>1, <1>2, <1>3, <1>4, <1>5, <1>6

(* A join on its way.                                                      *)
LEMMA SoundOnWay ==
    ASSUME NEW S, NEW u \in S, NEW r, NEW p, p.pc = "join", p.target # u,
           \A i \in 1 .. Len(p.stack) : Tries(p.stack[i], Members \ {u})
    PROVE  Sound(S, u, r, p)
  BY DEF Sound

(* A handler forwards to the first node and keeps the others.              *)
LEMMA FrameTries ==
    ASSUME NEW W, NEW v, NEW c \in Seq(Node), c # << >>, \A j \in 1 .. Len(c) : c[j].uuid \in W
    PROVE  Tries(Frame(v, c), W) /\ Head(c).uuid \in W
<1>1. Tail(c) \in Seq(Node) /\ Len(Tail(c)) = Len(c) - 1 /\ Len(c) \in Nat /\ Len(c) >= 1
  OBVIOUS
<1>2. \A j \in 1 .. Len(Tail(c)) : Tail(c)[j] = c[j + 1] /\ j + 1 \in 1 .. Len(c)
  BY <1>1
<1>3. IsStack(Tail(c)) /\ \A j \in 1 .. Len(Tail(c)) : Tail(c)[j].uuid \in W
  BY <1>1, <1>2, StackOf
<1>4. Head(c) = c[1] /\ 1 \in 1 .. Len(c)
  BY <1>1
<1>5. Frame(v, c).rest = Tail(c) /\ Frame(v, c) \in [at : {Frame(v, c).at}, rest : {Frame(v, c).rest}]
  BY DEF Frame
<1> QED  BY <1>3, <1>4, <1>5 DEF Tries

(* Service::join, forwarded.                                               *)
LEMMA JoinForwardJoins ==
    ASSUME Spread, IInvJoins, StillJoins', Growing, NEW u \in Members, NEW k \in JoinKind, JoinForward(u, k)
    PROVE  Goes
<1> DEFINE p == proc[u][k]
           v == p.target
           c == closest_preceding_nodes(Me(v), router[v], u)
           z == Push(p.stack, v, c)
           m == [p EXCEPT !.target = Head(c).uuid, !.stack = Push(@, v, c)]
<1>0. /\ p.pc = "join" /\ Answers(v) /\ Goto(u, k, m) /\ k \in Kind
      /\ UNCHANGED <<status, router, mishaps>>
  BY Kinds DEF JoinForward
<1>1. OnTime /\ Pc(u, k) \notin Leaving /\ Pc(u, k) # "idle"
  BY <1>0, CallsOnTime DEF Pc, Leaving
<1> HIDE DEF m
<1>2. /\ Others /\ Routers /\ Message(p)
      /\ StillJoins /\ JoinInv /\ UNCHANGED timeouts /\ Up' = Up /\ Up \in SUBSET Members
      /\ u \in Up /\ Sound(Up, u, router[u], p)
      /\ \A w \in Up : /\ Linked(Up, w, router[w]) /\ Fit(w, router[w])
                       /\ w \in Members /\ w \in Uuid /\ Me(w) \in Node /\ Me(w).uuid = w
  BY <1>0, <1>1, InFlight
<1>3. v \in Up
  BY <1>0 DEF Answers, Up, Serving
<1> HIDE DEF p
<1>4. v # u /\ \A i \in 1 .. Len(p.stack) : Tries(p.stack[i], Members \ {u})
  BY <1>0, <1>2 DEF Sound
<1>5. p \in [pc : {"join"}, target : {p.target}, stack : {p.stack}] /\ IsStack(p.stack)
  BY <1>0, <1>2 DEF Message
<1>6. m.pc = "join" /\ m.target = Head(c).uuid /\ m.stack = z
  <2> HIDE DEF c, v
  <2> QED  BY <1>0, <1>5 DEF m
<1> HIDE DEF v
<1>7. /\ Linked(Up, v, router[v]) /\ router[v] \in RouterState /\ u \in Uuid /\ Me(v).uuid = v
      /\ Up \in SUBSET Members
  BY <1>2, <1>3 DEF Fit
<1>8. Leads(Up, v, u, c)
  BY <1>3, <1>7, Candidates
<1> HIDE DEF c
<1>9. Tries(Frame(v, c), Members \ {u}) /\ Head(c).uuid \in Members \ {u}
  BY <1>4, <1>7, <1>8, FrameTries DEF Leads
<1>10. \A i \in 1 .. Len(z) : z[i] = Frame(v, c) \/ (i \in 1 .. Len(p.stack) /\ z[i] = p.stack[i])
  BY <1>5, PushFrames
<1> HIDE DEF z
<1>11. \A i \in 1 .. Len(z) : Tries(z[i], Members \ {u})
  BY <1>4, <1>9, <1>10
<1>12. Sound(Up', u, router'[u], m)
  BY <1>2, <1>6, <1>9, <1>11, SoundOnWay
<1>13. Grown /\ Defined' /\ Up \subseteq Up'
  BY <1>0, <1>2, SameRouters DEF JoinInv, Defined
<1> QED  BY <1>0, <1>2, <1>12, <1>13, Advance

(* Service::join answers with two peers that are not the one that joins.   *)
LEMMA JoinAnswerJoins ==
    ASSUME Spread, IInvJoins, StillJoins', Growing, NEW u \in Members, NEW k \in JoinKind, JoinAnswer(u, k)
    PROVE  Goes
<1> DEFINE p == proc[u][k]
           v == p.target
           r == router[v]
           succ == successor_or_self(Me(v), r)
           res == JoinResponse(v, u)
           m == [pc |-> "joined", succ |-> res.succ, pred |-> res.pred]
<1>0. /\ p.pc = "join" /\ Answers(v) /\ ~ForwardsJoin(v, u) /\ Goto(u, k, m) /\ k \in Kind
      /\ mishaps' = mishaps \cup {x \in {"Service::join"} : ~Precedes(v, u) /\ ~has_predecessor(r)}
                            \cup {x \in {"ChordFacade::stabilize"} : u \in Bootstrap}
      /\ UNCHANGED <<status, router>>
  BY Kinds DEF JoinAnswer
<1>1. OnTime /\ Pc(u, k) \notin Leaving /\ Pc(u, k) # "idle"
  BY <1>0, CallsOnTime DEF Pc, Leaving
<1> HIDE DEF m
<1>2. /\ Others /\ Routers /\ Message(p)
      /\ StillJoins /\ JoinInv /\ UNCHANGED timeouts /\ Up' = Up /\ Up \in SUBSET Members
      /\ u \in Up /\ Sound(Up, u, router[u], p)
      /\ \A w \in Up : /\ Linked(Up, w, router[w]) /\ Fit(w, router[w])
                       /\ w \in Members /\ w \in Uuid /\ Me(w) \in Node /\ Me(w).uuid = w
  BY <1>0, <1>1, InFlight
<1>3. v \in Up
  BY <1>0 DEF Answers, Up, Serving
<1> HIDE DEF p
<1>4. v # u
  BY <1>0, <1>2 DEF Sound
<1> HIDE DEF v
<1>5. Linked(Up, v, r) /\ u \in Uuid /\ v \in Uuid /\ Me(v).uuid = v /\ 0 \in Index
      /\ (has_predecessor(r) => r.predecessor.uuid \in Up /\ r.predecessor.uuid \in Uuid)
  BY <1>2, <1>3, BitsAssumption DEF Index, Linked
<1>6. succ.uuid \in Up /\ succ.uuid \in Uuid /\ (~has_successor(r) => succ = Me(v))
  BY <1>2, <1>3, <1>5 DEF Linked, successor_or_self, has_successor, successor
<1>7. /\ res.succ.uuid \in Up \ {u} /\ res.pred.uuid \in Up \ {u}
      /\ Precedes(v, u) \/ has_predecessor(r)
  <2>1. CASE Between(v, u, succ.uuid)
    <3>1. succ.uuid # u
      BY <1>5, <1>6, <2>1, BetweenEnds
    <3>2. res = [succ |-> succ, pred |-> Me(v)] /\ Precedes(v, u)
      BY <2>1 DEF JoinResponse, Precedes
    <3> HIDE DEF res, succ
    <3> QED  BY <1>3, <1>4, <1>5, <1>6, <3>1, <3>2
  <2>2. CASE ~Between(v, u, succ.uuid)
    <3>1. has_predecessor(r)
      <4> SUFFICES ASSUME ~has_predecessor(r) PROVE FALSE
        OBVIOUS
      <4>1. succ.uuid = v
        BY <1>5, <1>6 DEF Linked
      <4> QED  BY <1>4, <1>5, <2>2, <4>1, BetweenEnds
    <3>2. Between(r.predecessor.uuid, u, v)
      BY <1>0, <2>2, <3>1 DEF ForwardsJoin
    <3>3. r.predecessor.uuid \in Up \ {u}
      BY <1>5, <3>1, <3>2, BetweenEnds
    <3>4. res = [succ |-> Me(v), pred |-> r.predecessor]
      BY <2>2, <3>1 DEF JoinResponse, Precedes
    <3> HIDE DEF res, succ, r
    <3> QED  BY <1>3, <1>4, <1>5, <3>1, <3>3, <3>4
  <2> QED  BY <2>1, <2>2
<1> HIDE DEF res
<1>8. Defined'
  BY <1>0, <1>2, <1>7 DEF JoinInv, Defined, Dereference
<1>9. Sound(Up', u, router'[u], m)
  BY <1>2, <1>7 DEF Sound, m
<1>10. Grown /\ Up \subseteq Up'
  BY <1>0, <1>2, SameRouters
<1> QED  BY <1>0, <1>2, <1>8, <1>9, <1>10, Advance

(* A failed call is tried again with one of those nodes.                   *)
LEMMA RetryTries ==
    ASSUME NEW W, NEW s, IsStack(s), Retries(s) # {},
           \A i \in 1 .. Len(s) : Tries(s[i], W)
    PROVE  /\ Retry(s).target \in W
           /\ \A i \in 1 .. Len(Retry(s).stack) : Tries(Retry(s).stack[i], W)
<1> DEFINE K == Retries(s)
           k == Last(K)
           S == {s[j] : j \in 1 .. Len(s)}
           e == [s[k] EXCEPT !.rest = Tail(@)]
           z == [SubSeq(s, 1, k) EXCEPT ![k].rest = Tail(@)]
<1>1. s \in Seq(S) /\ Len(s) \in Nat
  BY DEF IsStack
<1>2. K \in SUBSET (0 .. Len(s)) /\ K \in SUBSET (1 .. Len(s)) /\ K # {}
  BY <1>1 DEF Retries
<1>3. k \in K
  <2> HIDE DEF K
  <2> QED  BY <1>1, <1>2, LastOfNat
<1>4. k \in 1 .. Len(s) /\ s[k].rest # << >>
  <2> HIDE DEF k
  <2> QED  BY <1>3 DEF Retries
<1>5. Retry(s).stack = z /\ Retry(s).target = Head(s[k].rest).uuid
  BY DEF Retry
<1> HIDE DEF k, K
<1>6. DOMAIN SubSeq(s, 1, k) = 1 .. k /\ \A j \in 1 .. k : SubSeq(s, 1, k)[j] = s[j]
  <2> HIDE DEF S
  <2> QED  BY <1>1, <1>4
<1>7. z[k] = e /\ \A j \in 1 .. k : j # k => z[j] = s[j]
  <2>1. k \in 1 .. k
    BY <1>1, <1>4
  <2>2. z[k] = [SubSeq(s, 1, k)[k] EXCEPT !.rest = Tail(@)]
    BY <1>6, <2>1
  <2>3. SubSeq(s, 1, k)[k] = s[k]
    BY <1>6, <2>1
  <2>4. z[k] = e
    BY <2>2, <2>3
  <2> QED  BY <1>6, <2>4
<1>8. DOMAIN z = 1 .. k
  BY <1>6
<1>9. Tries(s[k], W)
  BY <1>4
<1> DEFINE f == s[k]
<1> HIDE DEF z, S
<1>10. Tries(e, W) /\ Head(f.rest).uuid \in W
  <2>1. f.rest # << >> /\ f \in [at : {f.at}, rest : {f.rest}]
        /\ IsStack(f.rest) /\ \A j \in 1 .. Len(f.rest) : f.rest[j].uuid \in W
    BY <1>4, <1>9 DEF Tries
  <2> HIDE DEF f
  <2> DEFINE t == f.rest
             T == {t[j] : j \in 1 .. Len(t)}
  <2>2. t \in Seq(T) /\ t # << >>
    BY <2>1 DEF IsStack
  <2>3. e.rest = Tail(t) /\ e \in [at : {e.at}, rest : {e.rest}]
    BY <2>1 DEF f
  <2>4. \A j \in 1 .. Len(t) : t[j].uuid \in W
    BY <2>1
  <2> HIDE DEF T, e, t
  <2>5. Tail(t) \in Seq(T) /\ Len(Tail(t)) = Len(t) - 1 /\ Len(t) \in Nat /\ Len(t) >= 1
    BY <2>2
  <2>6. \A j \in 1 .. Len(Tail(t)) : Tail(t)[j] = t[j + 1] /\ j + 1 \in 1 .. Len(t)
    BY <2>2, <2>5
  <2>7. IsStack(Tail(t)) /\ \A j \in 1 .. Len(Tail(t)) : Tail(t)[j].uuid \in W
    BY <2>4, <2>5, <2>6, StackOf
  <2>8. Head(t) = t[1] /\ 1 \in 1 .. Len(t)
    BY <2>2, <2>5
  <2>9. Tries(e, W)
    BY <2>3, <2>7 DEF Tries
  <2>10. Head(t).uuid \in W
    BY <2>4, <2>8
  <2> QED  BY <2>9, <2>10 DEF t
<1> HIDE DEF e
<1>11. \A j \in 1 .. k : Tries(z[j], W)
  <2>1. \A j \in 1 .. k : j \in 1 .. Len(s)
    BY <1>1, <1>4
  <2> QED  BY <1>7, <1>10, <2>1
<1>12. Len(z) = k
  BY <1>1, <1>4, <1>8
<1> QED  BY <1>5, <1>10, <1>11, <1>12

(* Client::join when a call fails.                                         *)
LEMMA JoinFailsJoins ==
    ASSUME Spread, IInvJoins, StillJoins', Growing, NEW u \in Members, NEW k \in JoinKind, JoinFails(u, k)
    PROVE  Goes
<1> DEFINE p == proc[u][k]
           again == [pc |-> "join", target |-> Retry(p.stack).target, stack |-> Retry(p.stack).stack]
           m == IF Retries(p.stack) = {} THEN AfterJoin(k) ELSE again
<1>0. /\ p.pc = "join" /\ (Answers(p.target) \/ Fails(p.target)) /\ Goto(u, k, m) /\ k \in Kind
      /\ UNCHANGED <<status, router, mishaps>>
  BY Kinds DEF JoinFails
<1>1. OnTime /\ Pc(u, k) \notin Leaving /\ Pc(u, k) # "idle"
  BY <1>0, CallsOnTime DEF Pc, Leaving
<1> HIDE DEF m
<1>2. /\ Message(p) /\ StillJoins /\ JoinInv /\ Up' = Up
      /\ u \in Up /\ Sound(Up, u, router[u], p)
  BY <1>0, <1>1, InFlight
<1> HIDE DEF p
<1>3. \A i \in 1 .. Len(p.stack) : Tries(p.stack[i], Members \ {u})
  BY <1>0, <1>2 DEF Sound
<1>4. IsStack(p.stack)
  BY <1>0, <1>2 DEF Message
<1>5. Retries(p.stack) # {} => Sound(Up', u, router'[u], again)
  <2> SUFFICES ASSUME Retries(p.stack) # {} PROVE Sound(Up', u, router'[u], again)
    OBVIOUS
  <2>1. /\ Retry(p.stack).target \in Members \ {u}
        /\ \A i \in 1 .. Len(Retry(p.stack).stack) : Tries(Retry(p.stack).stack[i], Members \ {u})
    BY <1>3, <1>4, RetryTries
  <2>2. again.pc = "join" /\ again.target = Retry(p.stack).target /\ again.stack = Retry(p.stack).stack
    OBVIOUS
  <2> HIDE DEF again
  <2> QED  BY <1>2, <2>1, <2>2, SoundOnWay
<1>6. Sound(Up', u, router'[u], m)
  <2>1. Sound(Up', u, router'[u], AfterJoin(k))
    BY <1>2, SoundEnds
  <2> HIDE DEF again
  <2> QED  BY <1>5, <2>1 DEF m
<1>7. Grown /\ Defined' /\ Up \subseteq Up'
  BY <1>0, <1>2, SameRouters DEF JoinInv, Defined
<1> QED  BY <1>0, <1>2, <1>6, <1>7, Advance

(* A router with a successor that is linked has both neighbours.           *)
LEMMA Neighbours ==
    ASSUME NEW S, NEW u, NEW r, Linked(S, u, r), has_successor(r)
    PROVE  Joined(r) /\ successor(r).uuid \in S \ {u} /\ r.predecessor.uuid \in S \ {u}
<1>1. 0 \in Index
  BY BitsAssumption DEF Index
<1> QED  BY <1>1 DEF Linked, Joined, has_successor, successor

(* The notifications go to the two neighbours.                             *)
LEMMA SoundNotify ==
    ASSUME NEW S \in SUBSET Members, NEW u \in S, NEW r, Linked(S, u, r), has_successor(r)
    PROVE  Sound(S, u, r, ToPredecessor(u, r)) /\ Sound(S, u, r, ToSuccessor(u, r, TRUE))
<1>1. successor(r).uuid \in S \ {u} /\ r.predecessor.uuid \in S \ {u} /\ Me(u).uuid = u
  BY Neighbours, NodesMade
<1>2. /\ <<successor(r), Me(u)>>[1] = successor(r) /\ <<successor(r), Me(u)>>[2] = Me(u)
      /\ <<r.predecessor, Me(u)>>[1] = r.predecessor /\ <<r.predecessor, Me(u)>>[2] = Me(u)
  OBVIOUS
<1>3. Sound(S, u, r, ToPredecessor(u, r))
  BY <1>1, <1>2 DEF Sound, ToPredecessor
<1>4. Sound(S, u, r, ToSuccessor(u, r, TRUE))
  BY <1>1, <1>2 DEF Sound, ToSuccessor
<1> QED  BY <1>3, <1>4

(* Client::join: the two nodes of the answer make a successor and a        *)
(* predecessor, whatever the router was told before.                       *)
LEMMA JoinReplyJoins ==
    ASSUME Spread, IInvJoins, StillJoins', Growing, NEW u \in Members, NEW k \in JoinKind, JoinReply(u, k)
    PROVE  Goes
<1> DEFINE p == proc[u][k]
           r1 == update(Me(u), router[u], p.succ)
           r == update(Me(u), r1, p.pred)
<1>0. /\ p.pc = "joined" /\ SetRouter(u, r) /\ SendNotify(u, k, r, ToPredecessor(u, r))
      /\ k \in Kind /\ UNCHANGED <<status, timeouts>>
  BY Kinds DEF JoinReply
<1>1. OnTime /\ Pc(u, k) \notin Leaving /\ Pc(u, k) # "idle"
  BY <1>0 DEF OnTime, Pc, Leaving
<1> DEFINE m == IF Joined(r) THEN ToPredecessor(u, r) ELSE [pc |-> "garbage"]
<1>2. Goto(u, k, m)
  <2> HIDE DEF r
  <2> QED  BY <1>0 DEF SendNotify
<1> HIDE DEF m
<1>3. /\ Others /\ Routers /\ Message(p) /\ Up \in SUBSET Members
      /\ StillJoins /\ JoinInv /\ Up' = Up /\ u \in Up /\ Sound(Up, u, router[u], p)
      /\ Linked(Up, u, router[u]) /\ Fit(u, router[u])
  BY <1>0, <1>1, <1>2, InFlight
<1> HIDE DEF p
<1>4. p.succ \in Node /\ p.pred \in Node /\ p.succ.uuid \in Up \ {u} /\ p.pred.uuid \in Up \ {u}
  BY <1>0, <1>3 DEF Sound, Message
<1>5. Fit(u, r1) /\ Linked(Up, u, r1) /\ has_successor(r1)
  <2>1. Fit(u, r1) /\ r1 = update(Me(u), router[u], p.succ)
    BY <1>3, <1>4, UpdateFit
  <2> HIDE DEF r1
  <2>2. Linked(Up, u, r1) /\ has_successor(r1)
    BY <1>3, <1>4, <2>1, LinkedUpdate
  <2> QED  BY <2>1, <2>2
<1> HIDE DEF r1
<1>6. Linked(Up, u, r) /\ has_successor(r)
  BY <1>3, <1>4, <1>5, LinkedUpdate
<1> HIDE DEF r
<1>7. Joined(r) /\ Sound(Up, u, r, ToPredecessor(u, r))
  BY <1>3, <1>6, Neighbours, SoundNotify
<1>8. m = ToPredecessor(u, r) /\ Defined'
  BY <1>0, <1>3, <1>7 DEF m, SendNotify, JoinInv, Defined
<1>9. Grown /\ router'[u] = r
  BY <1>0, <1>3, <1>6, OneRouter
<1> QED  BY <1>0, <1>2, <1>3, <1>7, <1>8, <1>9, Advance

(* Service::notify at another peer: the router has a successor afterwards, *)
(* and had one before if it had a predecessor, so nothing empty is read.   *)
LEMMA NotifyLinks ==
    ASSUME Spread, Routers, JoinInv, Up' = Up, NEW u \in Up, NEW v \in Up, u # v,
           NEW nodes, nodes = << >> \/ (/\ nodes \in Node \X Node
                                        /\ nodes[1].uuid \in Up /\ nodes[2].uuid \in Up),
           HandleNotify(v, Me(u), nodes)
    PROVE  Defined' /\ Grown
<1> DEFINE r0 == router[v]
           r1 == update(Me(v), r0, Me(u))
           r2 == update(Me(v), r1, AsSeen(nodes[1]))
           r3 == update(Me(v), r2, AsSeen(nodes[2]))
           q == IF nodes = << >> THEN r1 ELSE r3
<1>0. /\ Up \in SUBSET Members /\ u \in Members /\ v \in Members
      /\ Me(u) \in Node /\ Me(u).uuid = u /\ Me(v).uuid = v
  BY NodesMade DEF Up
<1>1. Me(u) # Me(v)
  BY <1>0
<1>2. PICK changed \in ChangesPredecessor(v, Me(u)) :
        /\ SetRouter(v, q)
        /\ mishaps' = mishaps \cup
             {x \in {"Service::notify"} : Cardinality(ChangesPredecessor(v, Me(u))) > 1}
  BY <1>1 DEF HandleNotify
<1>3. Fit(v, r0) /\ Linked(Up, v, r0)
  BY <1>0 DEF Routers, JoinInv
<1>4. Cardinality(ChangesPredecessor(v, Me(u))) = 1
  <2>1. \E x : ChangesPredecessor(v, Me(u)) = {x}
    BY <1>3 DEF ChangesPredecessor, Linked
  <2> QED  BY <2>1, FS_Singleton
<1>5. Defined'
  BY <1>2, <1>4 DEF JoinInv, Defined
<1> HIDE DEF r0
<1>6. Fit(v, r1) /\ Linked(Up, v, r1) /\ has_successor(r1)
  <2>1. Fit(v, r1) /\ r1 = update(Me(v), r0, Me(u))
    BY <1>0, <1>3, UpdateFit
  <2> HIDE DEF r1
  <2> QED  BY <1>0, <1>3, <2>1, LinkedUpdate
<1> HIDE DEF r1
<1>7. nodes # << >> => Linked(Up, v, r3) /\ has_successor(r3)
  <2> SUFFICES ASSUME nodes # << >> PROVE Linked(Up, v, r3) /\ has_successor(r3)
    OBVIOUS
  <2>1. /\ nodes[1] \in Node /\ nodes[1].uuid \in Up
        /\ nodes[2] \in Node /\ nodes[2].uuid \in Up
    OBVIOUS
  <2> DEFINE m1 == AsSeen(nodes[1])
             m2 == AsSeen(nodes[2])
  <2>2. m1 \in Node /\ m1.uuid \in Up /\ m2 \in Node /\ m2.uuid \in Up
    BY <2>1, NodesMade DEF AsSeen, Node
  <2> HIDE DEF m1, m2
  <2>3. r2 = update(Me(v), r1, m1) /\ r3 = update(Me(v), r2, m2)
    BY DEF m1, m2
  <2>4. Fit(v, r2)
    BY <1>0, <1>6, <2>2, <2>3, UpdateFit
  <2> HIDE DEF r2, r3
  <2>5. Linked(Up, v, r2) /\ has_successor(r2)
    BY <1>0, <1>6, <2>2, <2>3, LinkedUpdate
  <2> QED  BY <1>0, <2>2, <2>3, <2>4, <2>5, LinkedUpdate
<1>8. Linked(Up, v, q) /\ has_successor(q)
  <2> HIDE DEF r3
  <2> QED  BY <1>6, <1>7
<1> HIDE DEF q
<1>9. Grown
  BY <1>0, <1>2, <1>8, OneRouter
<1> QED  BY <1>5, <1>9

(* The call is answered.                                                   *)
LEMMA CallLinks ==
    ASSUME Spread, Others, Routers, JoinInv, Up' = Up, UNCHANGED timeouts,
           NEW u \in Up, NEW v \in Up, u # v,
           NEW nodes, nodes = << >> \/ (/\ nodes \in Node \X Node
                                        /\ nodes[1].uuid \in Up /\ nodes[2].uuid \in Up),
           NEW ok, CallNotify(v, Me(u), nodes, ok)
    PROVE  ok = TRUE /\ Defined' /\ Grown
<1>1. ~Fails(v)
  BY NoFailure
<1>2. Me(u) # Me(v)
  BY NodesMade DEF Up
<1>3. ok = TRUE /\ HandleNotify(v, Me(u), nodes)
  BY <1>1, <1>2 DEF CallNotify
<1> QED  BY <1>3, NotifyLinks

(* What CallNotify makes of the deadline.                                  *)
LEMMA NotifyOnTime ==
    ASSUME NEW v, NEW source, NEW nodes, NEW ok, CallNotify(v, source, nodes, ok)
    PROVE  OnTime
  BY CallsOnTime DEF CallNotify

(* ChordFacade::join notifies the predecessor ...                          *)
LEMMA NotifyPredecessorJoins ==
    ASSUME Spread, IInvJoins, StillJoins', Growing, NEW u \in Members, NEW k \in JoinKind,
           NotifyPredecessor(u, k)
    PROVE  Goes
<1> DEFINE p == proc[u][k]
<1>0. PICK ok \in BOOLEAN : CallNotify(p.target, Me(u), p.nodes, ok)
                            /\ Goto(u, k, [pc |-> "notified_pred", ok |-> ok])
  BY DEF NotifyPredecessor
<1> DEFINE m == [pc |-> "notified_pred", ok |-> ok]
<1>1. /\ p.pc = "notify_pred" /\ k \in Kind /\ UNCHANGED status
      /\ OnTime /\ Pc(u, k) \notin Leaving /\ Pc(u, k) # "idle"
  BY <1>0, NotifyOnTime, Kinds DEF NotifyPredecessor, Pc, Leaving
<1>2. /\ Others /\ Routers /\ Message(p) /\ StillJoins /\ JoinInv /\ UNCHANGED timeouts
      /\ Up' = Up /\ u \in Up /\ Sound(Up, u, router[u], p)
  <2> HIDE DEF p
  <2> QED  BY <1>0, <1>1, InFlight DEF p
<1> HIDE DEF p
<1>3. /\ p.target \in Up /\ p.target # u /\ has_successor(router[u])
      /\ p.nodes \in Node \X Node /\ p.nodes[1].uuid \in Up /\ p.nodes[2].uuid \in Up
  BY <1>1, <1>2 DEF Sound, Message
<1>4. ok = TRUE /\ Defined' /\ Grown
  BY <1>0, <1>2, <1>3, CallLinks
<1>5. Sound(Up', u, router'[u], m)
  BY <1>2, <1>3, <1>4 DEF Sound, Grown
<1> QED  BY <1>0, <1>1, <1>2, <1>4, <1>5, Advance

(* ... reads the successor again ...                                       *)
LEMMA NotifyNextJoins ==
    ASSUME Spread, IInvJoins, StillJoins', Growing, NEW u \in Members, NEW k \in JoinKind, NotifyNext(u, k)
    PROVE  Goes
<1> DEFINE p == proc[u][k]
           r == router[u]
           m == IF Joined(r) THEN ToSuccessor(u, r, p.ok) ELSE [pc |-> "garbage"]
<1>0. /\ p.pc = "notified_pred" /\ k \in Kind /\ UNCHANGED <<status, router, timeouts>>
      /\ SendNotify(u, k, r, ToSuccessor(u, r, p.ok))
  BY Kinds DEF NotifyNext, Pc
<1>1. Goto(u, k, m)
  BY <1>0 DEF SendNotify
<1>2. OnTime /\ Pc(u, k) \notin Leaving /\ Pc(u, k) # "idle"
  BY <1>0 DEF OnTime, Pc, Leaving
<1> HIDE DEF m
<1>3. /\ StillJoins /\ JoinInv /\ Up' = Up /\ Up \in SUBSET Members /\ u \in Up
      /\ Sound(Up, u, r, p) /\ Linked(Up, u, r)
  BY <1>0, <1>1, <1>2, InFlight
<1> HIDE DEF p
<1>4. has_successor(r) /\ p.ok = TRUE
  BY <1>0, <1>3 DEF Sound
<1>5. Joined(r) /\ Sound(Up, u, r, ToSuccessor(u, r, TRUE))
  BY <1>3, <1>4, Neighbours, SoundNotify
<1>6. m = ToSuccessor(u, r, TRUE) /\ Defined'
  BY <1>0, <1>3, <1>4, <1>5 DEF m, SendNotify, JoinInv, Defined
<1>7. Grown /\ router'[u] = r /\ Up \subseteq Up'
  BY <1>0, <1>3, SameRouters
<1> QED  BY <1>0, <1>1, <1>3, <1>5, <1>6, <1>7, Advance

(* ... and notifies it.                                                    *)
LEMMA NotifySuccessorJoins ==
    ASSUME Spread, IInvJoins, StillJoins', Growing, NEW u \in Members, NEW k \in JoinKind,
           NotifySuccessor(u, k)
    PROVE  Goes
<1> DEFINE p == proc[u][k]
<1>0. PICK ok \in BOOLEAN :
        /\ CallNotify(p.target, Me(u), p.nodes, ok)
        /\ Goto(u, k, IF p.ok /\ ok THEN AfterJoin(k) ELSE [pc |-> "join_failed"])
  BY DEF NotifySuccessor
<1> DEFINE m == IF p.ok /\ ok THEN AfterJoin(k) ELSE [pc |-> "join_failed"]
<1>1. /\ p.pc = "notify_succ" /\ k \in Kind /\ UNCHANGED status /\ Goto(u, k, m)
      /\ OnTime /\ Pc(u, k) \notin Leaving /\ Pc(u, k) # "idle"
  BY <1>0, NotifyOnTime, Kinds DEF NotifySuccessor, Pc, Leaving
<1> HIDE DEF m
<1>2. /\ Others /\ Routers /\ Message(p) /\ StillJoins /\ JoinInv /\ UNCHANGED timeouts
      /\ Up' = Up /\ u \in Up /\ Sound(Up, u, router[u], p)
  BY <1>1, InFlight
<1> HIDE DEF p
<1>3. /\ p.target \in Up /\ p.target # u /\ p.ok = TRUE
      /\ p.nodes \in Node \X Node /\ p.nodes[1].uuid \in Up /\ p.nodes[2].uuid \in Up
  BY <1>1, <1>2 DEF Sound, Message
<1>4. ok = TRUE /\ Defined' /\ Grown
  BY <1>0, <1>2, <1>3, CallLinks
<1>5. m = AfterJoin(k)
  BY <1>3, <1>4 DEF m
<1>6. Sound(Up', u, router'[u], m)
  BY <1>2, <1>5, SoundEnds
<1> QED  BY <1>1, <1>2, <1>4, <1>6, Advance

(* No join fails or reads what is not there.                               *)
LEMMA JoinFailedJoins ==
    ASSUME Spread, IInvJoins, StillJoins', Growing, NEW u \in Members, NEW k \in JoinKind,
           JoinFailed(u, k) \/ JoinUndefined(u, k)
    PROVE  FALSE
<1>1. Others /\ k \in Kind /\ UNCHANGED timeouts /\ Pc(u, k) \in {"join_failed", "garbage"}
  BY Parts, Kinds DEF IInvJoins, JoinFailed, JoinUndefined
<1>2. OnTime /\ Pc(u, k) \notin Leaving /\ Pc(u, k) # "idle"
  BY <1>1 DEF OnTime, Leaving
<1>3. CASE Dies(u)
  <2>1. status'[u] = "crashed"
    BY <1>1, <1>3 DEF Dies, Others
  <2> QED  BY <2>1 DEF StillJoins
<1>4. ASSUME NEW m, Goto(u, k, m), UNCHANGED status PROVE FALSE
  <2>1. Sound(Up, u, router[u], proc[u][k])
    BY <1>1, <1>2, <1>4, InFlight
  <2> QED  BY <1>1, <2>1 DEF Sound, Pc
<1> QED  BY <1>3, <1>4 DEF JoinFailed, JoinUndefined

-----------------------------------------------------------------------------
(* What is known when a periodic task begins.                              *)
LEMMA AtRest ==
    ASSUME IInvJoins, StillJoins', Growing, UNCHANGED <<status, timeouts>>,
           NEW u \in Members, NEW k \in Task, Begins(u, k), NEW p, Goto(u, k, p)
    PROVE  /\ k \in Kind /\ Others /\ StillJoins /\ JoinInv /\ Up' = Up /\ Up \in SUBSET Members
           /\ u \in Up /\ Linked(Up, u, router[u])
<1>1. Others /\ k \in Kind
  BY Parts DEF IInvJoins, Kind
<1>2. OnTime /\ Pc(u, k) \notin Leaving
  BY DEF OnTime, Begins, Leaving
<1>3. StillJoins /\ JoinInv /\ Up' = Up
  BY <1>1, <1>2, Calmly
<1>4. u \in Up /\ Up \in SUBSET Members
  BY DEF Begins, Up
<1> QED  BY <1>1, <1>3, <1>4 DEF JoinInv

(* ChordFacade::stabilize asks the successor ...                           *)
LEMMA StabilizeBeginJoins ==
    ASSUME Spread, IInvJoins, StillJoins', Growing, NEW u \in Members, StabilizeBegin(u)
    PROVE  Goes
<1> DEFINE r == router[u]
           ask == [pc |-> "stabilize", peer |-> successor(r)]
           m == IF has_successor(r) THEN ask ELSE AfterStabilize(u, r)
<1>0. /\ Begins(u, "stab") /\ Goto(u, "stab", m) /\ "stab" \in Task
      /\ UNCHANGED <<status, router, timeouts, mishaps>>
  BY DEF StabilizeBegin, Task
<1> HIDE DEF m
<1>1. /\ "stab" \in Kind /\ StillJoins /\ JoinInv /\ Up' = Up
      /\ u \in Up /\ Linked(Up, u, r)
  BY <1>0, AtRest
<1>2. has_successor(r) => Sound(Up, u, r, ask)
  BY <1>1, Neighbours DEF Sound
<1>3. Sound(Up, u, r, AfterStabilize(u, r))
  BY <1>1, SoundEnds
<1> HIDE DEF ask
<1>4. Sound(Up', u, router'[u], m)
  BY <1>0, <1>1, <1>2, <1>3 DEF m
<1>5. Grown /\ Defined' /\ Up \subseteq Up'
  BY <1>0, <1>1, SameRouters DEF JoinInv, Defined
<1> QED  BY <1>0, <1>1, <1>4, <1>5, Advance

(* ... which answers with its predecessor, if it has one ...               *)
LEMMA StabilizeHandledJoins ==
    ASSUME Spread, IInvJoins, StillJoins', Growing, NEW u \in Members, StabilizeHandled(u)
    PROVE  Goes
<1> DEFINE p == proc[u]["stab"]
           v == p.peer.uuid
           m == [pc |-> "stabilized", peer |-> p.peer, pred |-> router[v].predecessor]
<1>0. /\ p.pc = "stabilize" /\ Answers(v) /\ Goto(u, "stab", m) /\ "stab" \in Kind
      /\ UNCHANGED <<status, router, mishaps>>
  BY Kinds DEF StabilizeHandled
<1>1. OnTime /\ Pc(u, "stab") \notin Leaving /\ Pc(u, "stab") # "idle"
  BY <1>0, CallsOnTime DEF Pc, Leaving
<1> HIDE DEF m
<1>2. /\ StillJoins /\ JoinInv /\ Up' = Up /\ u \in Up
      /\ Sound(Up, u, router[u], p) /\ \A w \in Up : Linked(Up, w, router[w])
  BY <1>0, <1>1, InFlight
<1> HIDE DEF p
<1>3. v \in Up
  BY <1>0, <1>2 DEF Sound
<1>4. router[v].predecessor = NoNode \/ router[v].predecessor.uuid \in Up
  BY <1>2, <1>3 DEF Linked, has_predecessor
<1>5. Sound(Up', u, router'[u], m)
  BY <1>2, <1>3, <1>4 DEF Sound, m
<1>6. Grown /\ Defined' /\ Up \subseteq Up'
  BY <1>0, <1>2, SameRouters DEF JoinInv, Defined
<1> QED  BY <1>0, <1>2, <1>5, <1>6, Advance

(* ... and does not fail.                                                  *)
LEMMA StabilizeFailsJoins ==
    ASSUME Spread, IInvJoins, StillJoins', Growing, NEW u \in Members, StabilizeFails(u)
    PROVE  FALSE
<1> DEFINE p == proc[u]["stab"]
           m == AfterStabilize(u, router'[u])
<1>0. /\ p.pc = "stabilize" /\ Fails(p.peer.uuid) /\ Goto(u, "stab", m) /\ "stab" \in Kind
      /\ UNCHANGED status
  BY Kinds DEF StabilizeFails
<1>1. OnTime /\ Pc(u, "stab") \notin Leaving /\ Pc(u, "stab") # "idle"
  BY <1>0, CallsOnTime DEF Pc, Leaving
<1>2. Others /\ UNCHANGED timeouts /\ Sound(Up, u, router[u], p)
  <2>1. \E x : Goto(u, "stab", x)
    BY <1>0
  <2> HIDE DEF m
  <2> QED  BY <1>0, <1>1, <2>1, InFlight
<1> HIDE DEF p
<1>3. p.peer.uuid \in Up
  BY <1>0, <1>2 DEF Sound
<1> QED  BY <1>0, <1>2, <1>3, NoFailure

(* A closer successor is taken over.                                       *)
LEMMA StabilizeReplyJoins ==
    ASSUME Spread, IInvJoins, StillJoins', Growing, NEW u \in Members, StabilizeReply(u)
    PROVE  Goes
<1> DEFINE p == proc[u]["stab"]
           takes == p.pred # NoNode /\ Between(u, p.pred.uuid, p.peer.uuid)
           n == update(Me(u), router[u], p.pred)
           r == IF takes THEN n ELSE router[u]
           note == [pc |-> "notify", target |-> successor(r).uuid]
           m == IF has_successor(r) THEN note ELSE AfterStabilize(u, r)
<1>0. /\ p.pc = "stabilized" /\ SetRouter(u, r) /\ Goto(u, "stab", m) /\ "stab" \in Kind
      /\ UNCHANGED <<status, timeouts, mishaps>>
  BY Kinds DEF StabilizeReply
<1>1. OnTime /\ Pc(u, "stab") \notin Leaving /\ Pc(u, "stab") # "idle"
  BY <1>0 DEF OnTime, Pc, Leaving
<1> HIDE DEF m, r
<1>2. /\ Routers /\ Message(p) /\ StillJoins /\ JoinInv /\ Up' = Up /\ Up \in SUBSET Members
      /\ u \in Up /\ Sound(Up, u, router[u], p) /\ Linked(Up, u, router[u]) /\ Fit(u, router[u])
      /\ \A w \in Up : w \in Uuid
  BY <1>0, <1>1, InFlight
<1> HIDE DEF p
<1>3. /\ p.peer.uuid \in Up /\ p.pred \in OptNode
      /\ p.pred # NoNode => p.pred \in Node /\ p.pred.uuid \in Up
  BY <1>0, <1>2 DEF Sound, Message, OptNode
<1>4. takes => Linked(Up, u, n) /\ (has_successor(router[u]) => has_successor(n))
  <2> SUFFICES ASSUME takes PROVE Linked(Up, u, n) /\ (has_successor(router[u]) => has_successor(n))
    OBVIOUS
  <2>1. p.pred.uuid # u
    BY <1>2, <1>3, BetweenEnds
  <2>2. n = update(Me(u), router[u], p.pred)
    OBVIOUS
  <2> HIDE DEF n
  <2> QED  BY <1>2, <1>3, <2>1, <2>2, LinkedUpdate
<1> HIDE DEF takes, n
<1>5. Linked(Up, u, r) /\ (has_successor(router[u]) => has_successor(r))
  BY <1>2, <1>4 DEF r
<1>6. Grown /\ router'[u] = r
  BY <1>0, <1>2, <1>5, OneRouter
<1>7. has_successor(r) => Sound(Up, u, r, note)
  BY <1>2, <1>5, Neighbours DEF Sound
<1>8. Sound(Up, u, r, AfterStabilize(u, r))
  BY <1>2, SoundEnds
<1> HIDE DEF note
<1>9. Sound(Up', u, router'[u], m)
  BY <1>2, <1>6, <1>7, <1>8 DEF m
<1>10. Defined' /\ Up \subseteq Up'
  BY <1>0, <1>2 DEF JoinInv, Defined
<1> QED  BY <1>0, <1>2, <1>6, <1>9, <1>10, Advance

(* Client::notify                                                          *)
LEMMA StabilizeNotifyJoins ==
    ASSUME Spread, IInvJoins, StillJoins', Growing, NEW u \in Members, StabilizeNotify(u)
    PROVE  Goes
<1> DEFINE p == proc[u]["stab"]
           m == AfterStabilize(u, router[u])
<1>0. PICK ok \in BOOLEAN : CallNotify(p.target, Me(u), << >>, ok)
  BY DEF StabilizeNotify
<1>1. /\ p.pc = "notify" /\ "stab" \in Kind /\ UNCHANGED status /\ Goto(u, "stab", m)
      /\ OnTime /\ Pc(u, "stab") \notin Leaving /\ Pc(u, "stab") # "idle"
  BY <1>0, NotifyOnTime, Kinds DEF StabilizeNotify, Pc, Leaving
<1> HIDE DEF m
<1>2. /\ Others /\ Routers /\ StillJoins /\ JoinInv /\ UNCHANGED timeouts
      /\ Up' = Up /\ u \in Up /\ Sound(Up, u, router[u], p)
  BY <1>1, InFlight
<1> HIDE DEF p
<1>3. p.target \in Up /\ p.target # u
  BY <1>1, <1>2 DEF Sound
<1>4. Defined' /\ Grown
  BY <1>0, <1>2, <1>3, CallLinks
<1>5. Sound(Up', u, router'[u], m)
  BY <1>2, SoundEnds DEF m
<1> QED  BY <1>1, <1>2, <1>4, <1>5, Advance

(* Client::check: the predecessor is there, and answers.                   *)
LEMMA CheckBeginJoins ==
    ASSUME Spread, IInvJoins, StillJoins', Growing, NEW u \in Members, CheckBegin(u)
    PROVE  Goes
<1> DEFINE r == router[u]
           ping == [pc |-> "ping", peer |-> r.predecessor]
           m == IF Joined(r) THEN ping ELSE Idle
<1>0. /\ Begins(u, "check") /\ Goto(u, "check", m) /\ "check" \in Task
      /\ UNCHANGED <<status, router, timeouts, mishaps>>
  BY DEF CheckBegin, Task
<1> HIDE DEF m
<1>1. /\ "check" \in Kind /\ StillJoins /\ JoinInv /\ Up' = Up
      /\ u \in Up /\ Linked(Up, u, r)
  BY <1>0, AtRest
<1>2. Joined(r) => Sound(Up, u, r, ping)
  BY <1>1, Neighbours DEF Sound, Joined
<1>3. Sound(Up, u, r, Idle)
  BY <1>1, SoundEnds
<1> HIDE DEF ping
<1>4. Sound(Up', u, router'[u], m)
  BY <1>0, <1>1, <1>2, <1>3 DEF m
<1>5. Grown /\ Defined' /\ Up \subseteq Up'
  BY <1>0, <1>1, SameRouters DEF JoinInv, Defined
<1> QED  BY <1>0, <1>1, <1>4, <1>5, Advance

(* ... so the ping removes nobody.                                         *)
LEMMA CheckPingJoins ==
    ASSUME Spread, IInvJoins, StillJoins', Growing, NEW u \in Members, CheckPing(u)
    PROVE  Goes
<1> DEFINE p == proc[u]["check"]
           v == p.peer.uuid
<1>0. /\ p.pc = "ping" /\ (Answers(v) \/ Fails(v)) /\ Goto(u, "check", Idle) /\ "check" \in Kind
      /\ (Fails(v) \/ UNCHANGED router) /\ UNCHANGED <<status, mishaps>>
  BY Kinds DEF CheckPing
<1>1. OnTime /\ Pc(u, "check") \notin Leaving /\ Pc(u, "check") # "idle"
  BY <1>0, CallsOnTime DEF Pc, Leaving
<1>2. /\ Others /\ UNCHANGED timeouts /\ StillJoins /\ JoinInv /\ Up' = Up /\ u \in Up
      /\ Sound(Up, u, router[u], p)
  BY <1>0, <1>1, InFlight
<1> HIDE DEF p
<1>3. v \in Up
  BY <1>0, <1>2 DEF Sound
<1>4. UNCHANGED router
  BY <1>0, <1>2, <1>3, NoFailure
<1>5. Sound(Up', u, router'[u], Idle)
  BY <1>2, SoundEnds
<1>6. Grown /\ Defined' /\ Up \subseteq Up'
  BY <1>0, <1>2, <1>4, SameRouters DEF JoinInv, Defined
<1> QED  BY <1>0, <1>2, <1>5, <1>6, Advance

-----------------------------------------------------------------------------
(* ChordFacade::fix_fingers looks for an id that is not the peer's own.    *)
LEMMA FixBeginJoins ==
    ASSUME Spread, IInvJoins, StillJoins', Growing, NEW u \in Members, FixBegin(u)
    PROVE  Goes
<1> DEFINE index == (next[u] + 1) % BITS
           m == [pc |-> "successor", id |-> FingerStart(Me(u), index),
                 target |-> u, caller |-> u, stack |-> << >>, ring |-> RingOf(u)]
<1>0. /\ Begins(u, "fix") /\ Goto(u, "fix", m) /\ "fix" \in Task
      /\ UNCHANGED <<status, router, timeouts, mishaps>>
  BY DEF FixBegin, Task
<1> HIDE DEF m
<1>1. "fix" \in Kind /\ Others /\ StillJoins /\ JoinInv /\ Up' = Up /\ u \in Up
  BY <1>0, AtRest
<1>2. index \in Index
  <2>1. next[u] \in Nat
    BY <1>1, BitsAssumption DEF Others, Index
  <2> QED  BY <2>1, BitsAssumption DEF Index
<1> HIDE DEF index
<1>3. FingerStart(Me(u), index) \in Uuid /\ FingerStart(Me(u), index) # u
  BY <1>2, NodesMade, StartsOrdered, OverlayAssumption, RingFacts DEF Distance, Uuid
<1>4. Len(<< >>) = 0
  OBVIOUS
<1>5. Sound(Up', u, router'[u], m)
  BY <1>1, <1>3, <1>4 DEF Sound, m
<1>6. Grown /\ Defined' /\ Up \subseteq Up'
  BY <1>0, <1>1, SameRouters DEF JoinInv, Defined
<1> QED  BY <1>0, <1>1, <1>5, <1>6, Advance

(* What a lookup under way knows.                                          *)
Seeks(S, u, r, p) ==
    /\ p.id \in Uuid /\ p.target # p.id /\ p.target \in S /\ p.caller \in S
    /\ \A i \in 1 .. Len(p.stack) : p.stack[i].at \in S
    /\ (p.target = u /\ p.stack = << >>) \/ has_successor(r)

(* For a lookup, what is sound is what Seeks says.                         *)
LEMMA SoundSeeks ==
    ASSUME NEW S, NEW u \in S, NEW r, NEW p, p.pc \in {"successor", "probe"}
    PROVE  Sound(S, u, r, p) <=> Seeks(S, u, r, p)
  BY DEF Sound, Seeks

(* Service::successor takes note of the caller ...                         *)
LEMMA SuccessorArrivesJoins ==
    ASSUME Spread, IInvJoins, StillJoins', Growing, NEW u \in Members, SuccessorArrives(u)
    PROVE  Goes
<1> DEFINE p == proc[u]["fix"]
           v == p.target
           q == update(Me(v), router[v], Me(p.caller))
           m == [p EXCEPT !.pc = "probe"]
<1>0. /\ p.pc = "successor" /\ SetRouter(v, q) /\ Goto(u, "fix", m) /\ "fix" \in Kind
      /\ UNCHANGED <<status, timeouts, mishaps>>
  BY Kinds DEF SuccessorArrives
<1>1. OnTime /\ Pc(u, "fix") \notin Leaving /\ Pc(u, "fix") # "idle"
  BY <1>0 DEF OnTime, Pc, Leaving
<1> HIDE DEF m
<1>2. /\ Routers /\ Message(p) /\ StillJoins /\ JoinInv /\ Up' = Up /\ Up \in SUBSET Members
      /\ u \in Up /\ Sound(Up, u, router[u], p)
      /\ \A w \in Up : /\ Linked(Up, w, router[w]) /\ Fit(w, router[w])
                       /\ w \in Members /\ Me(w) \in Node /\ Me(w).uuid = w
  BY <1>0, <1>1, InFlight
<1> HIDE DEF p
<1>3. Lookup(p) /\ Seeks(Up, u, router[u], p)
  BY <1>0, <1>2, LookupMessage, SoundSeeks
<1>4. /\ m.pc = "probe" /\ m.id = p.id /\ m.target = p.target /\ m.caller = p.caller
      /\ m.stack = p.stack
  BY <1>3 DEF m, Lookup
<1>5. v \in Up /\ p.caller \in Up
  BY <1>3 DEF Seeks
<1> HIDE DEF v
<1>6. Linked(Up, v, q) /\ (has_successor(router[v]) => has_successor(q))
  <2> DEFINE n == Me(p.caller)
  <2>1. /\ n \in Node /\ n.uuid \in Up /\ (n.uuid # v \/ n = Me(v))
        /\ Fit(v, router[v]) /\ Linked(Up, v, router[v]) /\ v \in Members
    BY <1>2, <1>5
  <2>2. q = update(Me(v), router[v], n)
    OBVIOUS
  <2> HIDE DEF q, n
  <2> QED  BY <1>2, <2>1, <2>2, LinkedUpdate
<1> HIDE DEF q
<1>7. Grown
  BY <1>0, <1>2, <1>5, <1>6, OneRouter
<1>8. Seeks(Up', u, router'[u], m)
  BY <1>2, <1>3, <1>4, <1>7 DEF Seeks, Grown
<1>9. Sound(Up', u, router'[u], m)
  BY <1>2, <1>4, <1>8, SoundSeeks
<1>10. Defined' /\ Up \subseteq Up'
  BY <1>0, <1>2 DEF JoinInv, Defined
<1> QED  BY <1>0, <1>2, <1>7, <1>9, <1>10, Advance

(* The node a handler answers with is up.                                  *)
LEMMA SuccessorUp ==
    ASSUME NEW S \in SUBSET Members, NEW v \in S, NEW r, Linked(S, v, r)
    PROVE  successor_or_self(Me(v), r).uuid \in S
  BY Neighbours, NodesMade DEF successor_or_self

(* ... finds its successor there ...                                       *)
LEMMA SuccessorProbesJoins ==
    ASSUME Spread, IInvJoins, StillJoins', Growing, NEW u \in Members, SuccessorProbes(u)
    PROVE  FALSE
<1> DEFINE p == proc[u]["fix"]
           v == p.target
           x == successor_or_self(Me(v), router[v]).uuid
<1>0. p.pc = "probe" /\ Fails(x) /\ UNCHANGED <<status, proc>> /\ "fix" \in Kind
  BY Kinds DEF SuccessorProbes
<1>1. Others /\ OnTime
  BY <1>0, Parts, CallsOnTime DEF IInvJoins
<1>2. StillJoins /\ UNCHANGED timeouts
  BY <1>0, <1>1, JoinsBefore DEF Pc
<1>3. JoinInv
  BY <1>2 DEF IInvJoins
<1>4. u \in Up /\ Sound(Up, u, router[u], p)
  BY <1>0, <1>3, SoundUp DEF Pc
<1> HIDE DEF p
<1>5. v \in Up
  BY <1>0, <1>4, SoundSeeks DEF Seeks
<1>6. Up \in SUBSET Members /\ Linked(Up, v, router[v])
  BY <1>3, <1>5 DEF JoinInv, Up
<1> HIDE DEF v
<1>7. x \in Up
  BY <1>5, <1>6, SuccessorUp
<1> QED  BY <1>0, <1>1, <1>2, <1>7, NoFailure

(* ... answers with it ...                                                 *)
LEMMA SuccessorAnswersJoins ==
    ASSUME Spread, IInvJoins, StillJoins', Growing, NEW u \in Members, SuccessorAnswers(u)
    PROVE  Goes
<1> DEFINE p == proc[u]["fix"]
           v == p.target
           succ == successor_or_self(Me(v), router[v])
           m == [pc |-> "fixed", id |-> p.id, succ |-> succ, ring |-> p.ring]
<1>0. /\ p.pc = "probe" /\ Answers(succ.uuid) /\ Goto(u, "fix", m) /\ "fix" \in Kind
      /\ UNCHANGED <<status, router, mishaps>>
  BY Kinds DEF SuccessorAnswers
<1>1. OnTime /\ Pc(u, "fix") \notin Leaving /\ Pc(u, "fix") # "idle"
  BY <1>0, CallsOnTime DEF Pc, Leaving
<1> HIDE DEF m
<1>2. /\ StillJoins /\ JoinInv /\ Up' = Up /\ Up \in SUBSET Members
      /\ u \in Up /\ Sound(Up, u, router[u], p)
      /\ \A w \in Up : Linked(Up, w, router[w])
  BY <1>0, <1>1, InFlight
<1> HIDE DEF p
<1>3. /\ v \in Up
      /\ (v = u \/ has_successor(router[u]))
  BY <1>0, <1>2, SoundSeeks DEF Seeks
<1> HIDE DEF v
<1>4. succ.uuid \in Up
  BY <1>2, <1>3, SuccessorUp
<1>5. succ = Me(u) \/ has_successor(router[u])
  BY <1>3 DEF successor_or_self
<1> HIDE DEF succ
<1>6. Sound(Up', u, router'[u], m)
  BY <1>0, <1>2, <1>3, <1>4, <1>5 DEF Sound, m
<1>7. Grown /\ Defined' /\ Up \subseteq Up'
  BY <1>0, <1>2, SameRouters DEF JoinInv, Defined
<1> QED  BY <1>0, <1>2, <1>6, <1>7, Advance

(* A peer without a successor covers every id and forwards no lookup.      *)
LEMMA ForwardsJoined ==
    ASSUME JoinInv, NEW u \in Members, SuccessorForwards(u)
    PROVE  has_successor(router[u])
<1> DEFINE p == proc[u]["fix"]
           v == p.target
           succ == successor_or_self(Me(v), router[v])
<1>0. p.pc = "probe" /\ ~Covers(v, p.id, succ) /\ "fix" \in Kind
  BY Kinds DEF SuccessorForwards
<1>1. u \in Up /\ Sound(Up, u, router[u], p) /\ u \in Uuid /\ Me(u).uuid = u
  BY <1>0, SoundUp, NodesMade, OverlayAssumption DEF Pc
<1> HIDE DEF p
<1>2. Seeks(Up, u, router[u], p)
  BY <1>0, <1>1, SoundSeeks
<1> SUFFICES ASSUME ~has_successor(router[u]) PROVE FALSE
  OBVIOUS
<1>3. v = u /\ p.id \in Uuid
  BY <1>2 DEF Seeks
<1>4. succ = Me(u)
  BY <1>3 DEF successor_or_self
<1>5. ~Between(u, p.id, u) /\ p.id # u
  BY <1>0, <1>1, <1>3, <1>4 DEF Covers
<1> QED  BY <1>1, <1>3, <1>5, BetweenEnds

(* ... or forwards the request.                                            *)
LEMMA SuccessorForwardsJoins ==
    ASSUME Spread, IInvJoins, StillJoins', Growing, NEW u \in Members, SuccessorForwards(u)
    PROVE  Goes
<1> DEFINE p == proc[u]["fix"]
           v == p.target
           succ == successor_or_self(Me(v), router[v])
           c == closest_preceding_nodes(Me(v), router[v], p.id)
           z == Push(p.stack, v, c)
           m == [p EXCEPT !.pc = "successor", !.target = Head(c).uuid,
                          !.caller = v, !.stack = Push(@, v, c)]
<1>0. /\ p.pc = "probe" /\ Answers(succ.uuid) /\ ~Covers(v, p.id, succ)
      /\ Goto(u, "fix", m) /\ "fix" \in Kind /\ UNCHANGED <<status, router, mishaps>>
  BY Kinds DEF SuccessorForwards
<1>1. OnTime /\ Pc(u, "fix") \notin Leaving /\ Pc(u, "fix") # "idle"
  BY <1>0, CallsOnTime DEF Pc, Leaving
<1> HIDE DEF m
<1>2. /\ Message(p) /\ StillJoins /\ JoinInv /\ Up' = Up /\ Up \in SUBSET Members
      /\ u \in Up /\ Sound(Up, u, router[u], p)
      /\ \A w \in Up : /\ Linked(Up, w, router[w]) /\ Fit(w, router[w])
                       /\ w \in Uuid /\ Me(w).uuid = w
  BY <1>0, <1>1, InFlight
<1> HIDE DEF p
<1>3. Lookup(p) /\ Seeks(Up, u, router[u], p)
  BY <1>0, <1>2, LookupMessage, SoundSeeks
<1>4. v \in Up /\ p.id \in Uuid /\ p.id # v /\ IsStack(p.stack)
  BY <1>3 DEF Seeks, Lookup
<1>5. has_successor(router[u])
  BY <1>2, ForwardsJoined
<1>6. m.pc = "successor" /\ m.id = p.id /\ m.target = Head(c).uuid /\ m.caller = v /\ m.stack = z
  <2> HIDE DEF c, v
  <2> QED  BY <1>3 DEF m, Lookup
<1> HIDE DEF v, succ
<1>7. Linked(Up, v, router[v]) /\ router[v] \in RouterState /\ Up \in SUBSET Members
  BY <1>2, <1>4 DEF Fit
<1>8. Leads(Up, v, p.id, c)
  BY <1>4, <1>7, Candidates
<1> HIDE DEF c
<1>9. Head(c).uuid \in Up /\ Head(c).uuid # p.id
  <2>1. Head(c) = c[1] /\ 1 \in 1 .. Len(c)
    BY <1>8 DEF Leads
  <2> QED  BY <1>2, <1>4, <1>8, <2>1 DEF Leads
<1>10. \A i \in 1 .. Len(z) : z[i] = Frame(v, c) \/ (i \in 1 .. Len(p.stack) /\ z[i] = p.stack[i])
  BY <1>4, PushFrames
<1> HIDE DEF z
<1>11. \A i \in 1 .. Len(z) : z[i].at \in Up
  <2>1. Frame(v, c).at = v
    BY DEF Frame
  <2>2. \A i \in 1 .. Len(p.stack) : p.stack[i].at \in Up
    BY <1>3 DEF Seeks
  <2> QED  BY <1>4, <1>10, <2>1, <2>2
<1>12. Seeks(Up', u, router'[u], m)
  BY <1>0, <1>2, <1>4, <1>5, <1>6, <1>9, <1>11 DEF Seeks
<1>13. Sound(Up', u, router'[u], m)
  BY <1>2, <1>6, <1>12, SoundSeeks
<1>14. Grown /\ Defined' /\ Up \subseteq Up'
  BY <1>0, <1>2, SameRouters DEF JoinInv, Defined
<1> QED  BY <1>0, <1>2, <1>13, <1>14, Advance

(* Nobody on the way of a lookup is gone.                                  *)
LEMMA SuccessorFailsJoins ==
    ASSUME Spread, IInvJoins, StillJoins', Growing, NEW u \in Members, SuccessorFails(u)
    PROVE  FALSE
<1> DEFINE p == proc[u]["fix"]
           m == IF Retries(p.stack) = {} THEN Idle
                ELSE [p EXCEPT !.pc = "successor", !.target = Retry(p.stack).target,
                               !.caller = Retry(p.stack).caller, !.stack = Retry(p.stack).stack]
<1>0. /\ p.pc \in {"successor", "probe"} /\ Goto(u, "fix", m) /\ "fix" \in Kind
      /\ ~Serving(p.target) \/ ~Returns(p.stack)
      /\ UNCHANGED <<status, timeouts>>
  BY Kinds DEF SuccessorFails
<1>1. OnTime /\ Pc(u, "fix") \notin Leaving /\ Pc(u, "fix") # "idle"
  BY <1>0 DEF OnTime, Pc, Leaving
<1> HIDE DEF m
<1>2. u \in Up /\ Sound(Up, u, router[u], p)
  BY <1>0, <1>1, InFlight
<1> HIDE DEF p
<1>3. p.target \in Up /\ \A i \in 1 .. Len(p.stack) : p.stack[i].at \in Up
  BY <1>0, <1>2, SoundSeeks DEF Seeks
<1> QED  BY <1>0, <1>3 DEF Returns, Up

(* Service::fix_fingers, the answer: no peer that is there is forgotten.   *)
LEMMA FixReplyJoins ==
    ASSUME Spread, IInvJoins, StillJoins', Growing, NEW u \in Members, FixReply(u)
    PROVE  Goes
<1> DEFINE p == proc[u]["fix"]
           q == IF p.succ = Me(u) THEN remove(Me(u), router[u], p.id)
                ELSE update(Me(u), router[u], p.succ)
<1>0. /\ p.pc = "fixed" /\ SetRouter(u, q) /\ Goto(u, "fix", Idle) /\ "fix" \in Kind
      /\ UNCHANGED <<status, timeouts>>
      /\ \/ UNCHANGED mishaps
         \/ /\ mishaps' = mishaps \cup {x \in {"Service::fix_fingers"} : Serving(p.id) /\ router' # router}
            /\ p.succ = Me(u)
      /\ p.succ = Me(u) => ~Serving(p.id) \/ UNCHANGED router
  BY Kinds DEF FixReply, RemovePeer, Notes, StillJoins
<1>1. OnTime /\ Pc(u, "fix") \notin Leaving /\ Pc(u, "fix") # "idle"
  BY <1>0 DEF OnTime, Pc, Leaving
<1> HIDE DEF q
<1>2. /\ Routers /\ Message(p) /\ StillJoins /\ JoinInv /\ Up' = Up /\ Up \in SUBSET Members
      /\ u \in Up /\ Sound(Up, u, router[u], p) /\ Linked(Up, u, router[u]) /\ Fit(u, router[u])
  BY <1>0, <1>1, InFlight
<1> HIDE DEF p
<1>3. /\ p.succ \in Node /\ p.succ.uuid \in Up
      /\ p.succ = Me(u) \/ has_successor(router[u])
  BY <1>0, <1>2 DEF Sound, Message
<1>4. Linked(Up, u, q) /\ (has_successor(router[u]) => has_successor(q))
  <2>1. CASE p.succ = Me(u)
    <3>1. q = remove(Me(u), router[u], p.id)
      BY <2>1 DEF q
    <3>2. CASE p.id \notin Up
      BY <1>2, <3>1, <3>2, RemoveAbsent DEF Fit
    <3>3. CASE UNCHANGED router
      BY <1>0, <1>2, <3>3 DEF SetRouter, Routers
    <3> QED  BY <1>0, <1>2, <2>1, <3>2, <3>3 DEF Up
  <2>2. CASE p.succ # Me(u)
    <3>1. q = update(Me(u), router[u], p.succ)
      BY <2>2 DEF q
    <3> QED  BY <1>2, <1>3, <2>2, <3>1, LinkedUpdate
  <2> QED  BY <2>1, <2>2
<1>5. Grown
  BY <1>0, <1>2, <1>4, OneRouter
<1>6. Sound(Up', u, router'[u], Idle)
  BY <1>2, SoundEnds
<1>7. Defined' /\ Up \subseteq Up'
  BY <1>0, <1>2 DEF JoinInv, Defined, Dereference
<1> QED  BY <1>0, <1>2, <1>5, <1>6, <1>7, Advance

-----------------------------------------------------------------------------
(* After a step of a peer that leaves or crashes it is not so any more     *)
(* that peers have only joined.                                            *)
LEMMA NobodyStops ==
    ASSUME IInvJoins, StillJoins', Growing, NEW u \in Members, StopBegin(u) \/ Exit(u) \/ Crash(u)
    PROVE  FALSE
<1>1. Others /\ Procs /\ "main" \in Kind
  BY Parts, Kinds DEF IInvJoins
<1>2. CASE Exit(u) \/ Crash(u)
  <2>1. status'[u] \in {"left", "crashed"}
    BY <1>1, <1>2 DEF Exit, Crash, Dies, Others
  <2> QED  BY <2>1 DEF StillJoins
<1>3. CASE StopBegin(u)
  <2> DEFINE m == ToLeave("leave_succ", successor(router[u]), router[u])
  <2>1. Goto(u, "main", m) /\ Serving(u) /\ UNCHANGED status
    BY <1>3 DEF StopBegin
  <2>2. m.pc \in Leaving
    BY DEF ToLeave, Leaving
  <2> HIDE DEF m
  <2>3. Pc(u, "main")' \in Leaving
    BY <1>1, <2>1, <2>2, ProcAfter DEF Pc
  <2>4. u \in Up'
    BY <2>1 DEF Up, Serving
  <2> QED  BY <2>3, <2>4 DEF StillJoins
<1> QED  BY <1>2, <1>3

(* A peer that is leaving has been up: it would have been noticed before.  *)
LEMMA NobodyLeaves ==
    ASSUME IInvJoins, StillJoins', Growing, NEW u \in Members,
           LeaveSuccessor(u) \/ LeaveNext(u) \/ LeavePredecessor(u)
    PROVE  FALSE
<1>1. Others /\ Procs /\ "main" \in Kind
  BY Parts, Kinds DEF IInvJoins
<1>2. UNCHANGED status /\ OnTime /\ Pc(u, "main") # "idle"
  <2>1. ASSUME NEW p, Inform(u, p) PROVE OnTime
    BY <2>1, CallsOnTime DEF Inform, CallLeave, OnTime
  <2> QED  BY <2>1 DEF LeaveSuccessor, LeaveNext, LeavePredecessor, OnTime, Pc
<1>3. PICK m : Goto(u, "main", m) /\ m.pc \in Leaving
  BY DEF LeaveSuccessor, LeaveNext, LeavePredecessor, ToLeave, Leaving
<1>4. /\ Pc(u, "main")' \in Leaving
      /\ \A w \in Members : w # u => Pc(w, "main")' = Pc(w, "main")
  BY <1>1, <1>3, ProcAfter DEF Pc
<1>5. \A w \in Up : Pc(w, "main") \in Leaving => Pc(w, "main")' \in Leaving
  BY <1>4 DEF Up
<1>6. StillJoins /\ Up' = Up
  BY <1>1, <1>2, <1>5, JoinsBefore
<1>7. JoinInv
  BY <1>6 DEF IInvJoins
<1>8. u \in Up'
  BY <1>1, <1>2, <1>6, <1>7, SoundUp
<1> QED  BY <1>4, <1>8 DEF StillJoins

-----------------------------------------------------------------------------
(* A bootstrap peer is up from the beginning and knows nobody.             *)
LEMMA InitiallyJoins == Init => IInvJoins
<1> SUFFICES ASSUME Init PROVE JoinInv
  BY Initially DEF IInvJoins
<1>1. Bootstrap \subseteq Up /\ Defined
  BY OverlayAssumption DEF Init, Up, Serving, Defined
<1>2. ASSUME NEW u \in Members PROVE Linked(Up, u, router[u])
  <2>1. router[u] = EmptyRouter /\ 0 \in Index
    BY BitsAssumption DEF Init, Index
  <2>2. ~has_predecessor(EmptyRouter) /\ \A i \in Index : ~Valid(EmptyRouter, i)
    BY DEF has_predecessor, Valid, EmptyRouter
  <2> QED  BY <2>1, <2>2 DEF Linked, has_successor
<1>3. ASSUME NEW u \in Members, NEW k \in Kind PROVE Sound(Up, u, router[u], proc[u][k])
  <2>1. proc[u][k] = Idle \/ (proc[u][k] = Ready /\ u \in Bootstrap)
    BY DEF Init
  <2>2. Sound(Up, u, router[u], Idle) /\ (u \in Up => Sound(Up, u, router[u], Ready))
    BY DEF Sound, Idle, Ready
  <2> QED  BY <1>1, <2>1, <2>2
<1> QED  BY <1>1, <1>2, <1>3 DEF JoinInv

(* Every step after which peers have only joined goes on soundly.          *)
LEMMA StepJoins ==
    ASSUME Spread, IInvJoins, StillJoins', Growing, NEW u \in Members, Step(u) \/ StopBegin(u) \/ Crash(u)
    PROVE  Goes
<1>1. CASE Main(u) \/ StopBegin(u) \/ Crash(u)
  BY <1>1, StartJoins, NobodyStops, NobodyLeaves DEF Main
<1>2. ASSUME NEW k \in JoinKind, Join(u, k) PROVE Goes
  BY <1>2, JoinForwardJoins, JoinAnswerJoins, JoinFailsJoins, JoinReplyJoins,
     NotifyPredecessorJoins, NotifyNextJoins, NotifySuccessorJoins, JoinFailedJoins DEF Join
<1>3. CASE Stabilize(u) \/ Check(u)
  BY <1>3, StabilizeBeginJoins, StabilizeHandledJoins, StabilizeFailsJoins, StabilizeReplyJoins,
     StabilizeNotifyJoins, CheckBeginJoins, CheckPingJoins DEF Stabilize, Check
<1>4. CASE FixFingers(u)
  BY <1>4, FixBeginJoins, SuccessorArrivesJoins, SuccessorProbesJoins, SuccessorAnswersJoins,
     SuccessorForwardsJoins, SuccessorFailsJoins, FixReplyJoins DEF FixFingers
<1> QED  BY <1>1, <1>2, <1>3, <1>4 DEF Step

(* No step takes a mishap back.                                            *)
LEMMA MishapsGrow ==
    ASSUME NEW u \in Members, Step(u) \/ StopBegin(u) \/ Crash(u)
    PROVE  Growing
<1>1. CASE Main(u) \/ StopBegin(u) \/ Crash(u)
  BY <1>1 DEF Main, Start, LeaveSuccessor, LeaveNext, LeavePredecessor, Exit, StopBegin, Crash, Notes, Growing
<1>2. ASSUME NEW v, NEW source, NEW nodes, NEW ok, CallNotify(v, source, nodes, ok) PROVE Growing
  BY <1>2 DEF CallNotify, HandleNotify, Growing
<1>3. ASSUME NEW k, NEW r, NEW message, SendNotify(u, k, r, message) PROVE Growing
  BY <1>3 DEF SendNotify, Growing
<1>4. ASSUME NEW k \in JoinKind, Join(u, k) PROVE Growing
  <2>1. CASE NotifyPredecessor(u, k) \/ NotifySuccessor(u, k)
    BY <1>2, <2>1 DEF NotifyPredecessor, NotifySuccessor
  <2>2. CASE JoinReply(u, k) \/ NotifyNext(u, k)
    BY <1>3, <2>2 DEF JoinReply, NotifyNext
  <2>3. CASE \/ JoinForward(u, k) \/ JoinAnswer(u, k) \/ JoinFails(u, k)
             \/ JoinFailed(u, k) \/ JoinUndefined(u, k)
    BY <2>3 DEF JoinForward, JoinAnswer, JoinFails, JoinFailed, JoinUndefined, Growing
  <2> QED  BY <1>4, <2>1, <2>2, <2>3 DEF Join
<1>5. CASE Stabilize(u) \/ Check(u)
  <2>1. CASE StabilizeNotify(u)
    BY <1>2, <2>1 DEF StabilizeNotify
  <2>2. CASE ~StabilizeNotify(u)
    BY <1>5, <2>2 DEF Stabilize, StabilizeBegin, StabilizeHandled, StabilizeFails, StabilizeReply, Check,
                      CheckBegin, CheckPing, Growing
  <2> QED  BY <2>1, <2>2
<1>6. CASE FixFingers(u)
  BY <1>6 DEF FixFingers, FixBegin, SuccessorArrives, SuccessorProbes, SuccessorAnswers, SuccessorForwards,
              SuccessorFails, FixReply, Notes, Growing
<1> QED  BY <1>1, <1>4, <1>5, <1>6 DEF Step

(* The invariant is inductive.                                             *)
LEMMA NextJoins ==
    ASSUME Spread, IInvJoins, [Next]_vars
    PROVE  IInvJoins'
<1>1. IInv'
  BY EveryStep DEF IInvJoins, Good
<1>2. ASSUME StillJoins' PROVE JoinInv'
  <2>1. CASE UNCHANGED vars
    <3>1. StillJoins
      BY <1>2, <2>1 DEF StillJoins, vars, Up, Serving, Pc
    <3>2. JoinInv
      BY <3>1 DEF IInvJoins
    <3> QED  BY <2>1, <3>2 DEF JoinInv, Defined, vars, Up, Serving
  <2>2. CASE \E u \in Members : Step(u) \/ StopBegin(u) \/ Crash(u)
    BY <1>2, <2>2, StepJoins, MishapsGrow DEF Goes
  <2> QED  BY <2>1, <2>2 DEF Next, Rest
<1> QED  BY <1>1, <1>2 DEF IInvJoins

(* ChordFacade::join, Service::join and Service::notify never dereference  *)
(* an empty successor or predecessor, however the joins, stabilisations    *)
(* and lookups of any number of peers overlap, while nobody leaves,        *)
(* crashes or misses a deadline, whomever the peers join and wherever      *)
(* their uuids lie, if none lies directly after another one.               *)
THEOREM NoUndefinedHolds == ASSUME Spread PROVE Spec => []NoUndefined
<1>1. Init => IInvJoins
  BY InitiallyJoins
<1>2. IInvJoins /\ [Next]_vars => IInvJoins'
  BY NextJoins
<1>3. IInvJoins => NoUndefined
  BY DEF IInvJoins, StillJoins, JoinInv, Defined, NoUndefined, OnlyJoins, Leaving
<1> QED  BY <1>1, <1>2, <1>3, PTL DEF Spec

-----------------------------------------------------------------------------
(***************************************************************************)
(* OneRing of Overlay.  Peers learn of peers inside the ring only, and no  *)
(* peer but the creator reaches, with its successor or its predecessor,    *)
(* beyond the creator: so every successor is nearer to it than the peer.   *)
(***************************************************************************)
(* The creator is neither between u and s nor between p and u.             *)
Faces(u, s, p) == Distance(u, s) <= Distance(u, Root) /\ Distance(p, u) <= Distance(Root, u)

Rooted(S, u, r) ==
    /\ Linked(S, u, r)
    /\ u # Root /\ has_successor(r) => Faces(u, successor(r).uuid, r.predecessor.uuid)

(* What process p of u has to do with peers of S: it calls no other and is *)
(* told of no other, and the answer to a join faces the creator.           *)
Aimed(S, u, p) ==
    /\ p.pc = "join" => /\ u = Root \/ p.target \in S
                        /\ \A i \in 1 .. Len(p.stack) : Tries(p.stack[i], S)
    /\ p.pc = "joined" =>
          u # Root /\ p.succ.uuid \in S /\ p.pred.uuid \in S /\ Faces(u, p.succ.uuid, p.pred.uuid)
    /\ p.pc \in {"notify_pred", "notify_succ"} =>
          p.target \in S /\ p.nodes[1].uuid \in S /\ p.nodes[2].uuid \in S
    /\ p.pc \in {"stabilize", "stabilized", "notify"} => u \in S
    /\ p.pc = "stabilize" => p.peer.uuid \in S
    /\ p.pc = "stabilized" => p.pred = NoNode \/ p.pred.uuid \in S
    /\ p.pc = "notify" => p.target \in S
    /\ p.pc \in {"successor", "probe"} =>
          (p.target = u /\ p.caller = u) \/ (p.target \in S /\ p.caller \in S)
    /\ p.pc = "fixed" => p.succ = Me(u) \/ p.succ.uuid \in S

RootInv ==
    /\ \A u \in Members : Rooted(Inside, u, router[u])
    /\ \A u \in Members, k \in Kind : Aimed(Inside, u, proc[u][k])

(* Peers joined through peers of the ring: the one that u is configured to *)
(* join has been inside since u was started.                               *)
Ordered == mishaps \cap {"ChordFacade::start", "ChordFacade::stabilize"} = {}
Led == \A u \in Up : u \in Bootstrap \/ JoinAddr[u] \in Inside

(* The inductive invariant.                                                *)
IInvRing == IInvJoins /\ (StillJoins /\ Ordered => RootInv /\ Led)

(* What holds goes on to hold when more peers are inside.                  *)
LEMMA GrowRooted ==
    ASSUME NEW S, NEW T, S \subseteq T, NEW u, NEW r, Rooted(S, u, r)
    PROVE  Rooted(T, u, r)
  BY GrowLinked DEF Rooted

(* The same for what is under way.                                         *)
LEMMA GrowAimed ==
    ASSUME NEW S, NEW T, S \subseteq T, NEW u, NEW p, Aimed(S, u, p)
    PROVE  Aimed(T, u, p)
<1>1. ASSUME NEW f, Tries(f, S) PROVE Tries(f, T)
  BY <1>1 DEF Tries
<1>2. p.pc = "join" => \A i \in 1 .. Len(p.stack) : Tries(p.stack[i], T)
  BY <1>1 DEF Aimed
<1> QED  BY <1>2 DEF Aimed

(* Whoever is inside stays inside.                                         *)
LEMMA GrowInside ==
    ASSUME Up \subseteq Up', Grown
    PROVE  Inside \subseteq Inside'
  BY DEF Grown, Inside, Up

(* The creator is inside, and everybody inside is a peer.                  *)
LEMMA RootInside ==
    ASSUME OneCreator, JoinInv
    PROVE  /\ Root \in Inside /\ Root \in Members /\ Root \in Uuid
           /\ Inside \in SUBSET Members /\ Inside \in SUBSET Up
           /\ \A w \in Inside : w # Root => has_successor(router[w])
  BY OverlayAssumption DEF OneCreator, JoinInv, Inside, Up

(* Between two neighbours that face the creator, everybody does.           *)
LEMMA FacesAhead ==
    ASSUME NEW b \in Uuid, NEW v \in Uuid, NEW u \in Uuid, NEW s \in Uuid, u # b, Between(v, u, s),
           v = b \/ (s # v /\ Distance(v, s) <= Distance(v, b))
    PROVE  Distance(u, s) <= Distance(u, b) /\ Distance(v, u) <= Distance(b, u)
  BY RingFacts DEF Between, Distance, Uuid

(* The same seen from the other end.                                       *)
LEMMA FacesBehind ==
    ASSUME NEW b \in Uuid, NEW v \in Uuid, NEW u \in Uuid, NEW p \in Uuid, u # b, Between(p, u, v),
           p # v, v = b \/ Distance(p, v) <= Distance(b, v)
    PROVE  Distance(u, v) <= Distance(u, b) /\ Distance(p, u) <= Distance(b, u)
  BY RingFacts DEF Between, Distance, Uuid

(* A successor that does not reach beyond the creator is nearer to it.     *)
LEMMA Descends ==
    ASSUME NEW b \in Uuid, NEW v \in Uuid, NEW s \in Uuid, v # b, s # v,
           Distance(v, s) <= Distance(v, b)
    PROVE  Distance(s, b) < Distance(v, b) /\ Distance(s, b) \in Nat
  BY RingFacts DEF Distance, Uuid

(* The nearer of two predecessors.                                         *)
LEMMA NearerBehind ==
    ASSUME NEW u \in Uuid, NEW x \in Uuid, NEW y \in Uuid, x # u
    PROVE  /\ Between(x, y, u) => Distance(y, u) <= Distance(x, u)
           /\ ~Between(x, y, u) /\ y # u => Distance(x, u) <= Distance(y, u)
  BY RingFacts DEF Between, Distance, Uuid

(* Distances are numbers.                                                  *)
LEMMA DistNat ==
    ASSUME NEW x \in Uuid, NEW y \in Uuid
    PROVE  Distance(x, y) \in Nat
  BY RingFacts DEF Distance, Uuid

(* Router::update takes no neighbour that is farther away than the one it  *)
(* has, or than the node it is told of.                                    *)
LEMMA UpdateNear ==
    ASSUME Spread, NEW S \in SUBSET Members, NEW u \in Members, NEW r, Fit(u, r), Linked(S, u, r),
           NEW n \in Node, n.uuid \in S, n.uuid # u \/ n = Me(u) \/ has_successor(r),
           NEW q, q = update(Me(u), r, n)
    PROVE  /\ has_successor(r) =>
                 /\ Distance(u, successor(q).uuid) <= Distance(u, successor(r).uuid)
                 /\ Distance(q.predecessor.uuid, u) <= Distance(r.predecessor.uuid, u)
           /\ n.uuid # u =>
                 /\ Distance(u, successor(q).uuid) <= Distance(u, n.uuid)
                 /\ Distance(q.predecessor.uuid, u) <= Distance(n.uuid, u)
<1>0. /\ Me(u) \in Node /\ Me(u).uuid = u /\ u \in Uuid /\ n.uuid \in Uuid /\ n # NoNode /\ 0 \in Index
      /\ r \in RouterState /\ InReach(Me(u), r) /\ Tight(Me(u), r)
  BY NodesMade, NodeUuid, OverlayAssumption, BitsAssumption, NoNodeAssumption DEF Fit, Index
<1>1. has_successor(r) => Distance(u, successor(q).uuid) <= Distance(u, successor(r).uuid)
  BY UpdateFit DEF Closer
<1>2. n.uuid # u => Distance(u, successor(q).uuid) <= Distance(u, n.uuid)
  <2> SUFFICES ASSUME n.uuid # u PROVE Distance(u, successor(q).uuid) <= Distance(u, n.uuid)
    OBVIOUS
  <2>1. From(Me(u), 0) < Distance(u, n.uuid)
    BY <1>0 DEF Spread, From
  <2>2. Reach(Me(u), q, 0) <= Distance(u, n.uuid)
    BY <1>0, <2>1, UpdateTable
  <2>3. has_successor(q)
    BY LinkedUpdate
  <2>4. Reach(Me(u), q, 0) = Distance(u, successor(q).uuid)
    BY <1>0, <2>3 DEF Reach, has_successor, successor
  <2> QED  BY <2>2, <2>4
<1>3. CASE n = Me(u)
  <2>1. q = r /\ n.uuid = u
    BY <1>0, <1>3 DEF update
  <2>2. has_successor(r) => r.predecessor.uuid \in Uuid
    BY Neighbours, OverlayAssumption
  <2>3. has_successor(r) => Distance(r.predecessor.uuid, u) <= Distance(r.predecessor.uuid, u)
    BY <1>0, <2>2, DistNat
  <2> QED  BY <1>1, <2>1, <2>3
<1>4. CASE n # Me(u)
  <2>1. q.predecessor = IF BecomesPredecessor(Me(u), r, n) THEN n ELSE r.predecessor
    BY <1>4 DEF update
  <2>2. CASE ~has_predecessor(r)
    <3>1. q.predecessor = n /\ ~has_successor(r)
      BY <2>1, <2>2 DEF BecomesPredecessor, has_predecessor, Linked
    <3>2. Distance(n.uuid, u) <= Distance(n.uuid, u)
      BY <1>0, DistNat
    <3> QED  BY <1>2, <3>1, <3>2
  <2>3. CASE has_predecessor(r)
    <3> DEFINE x == r.predecessor.uuid
               y == n.uuid
    <3>1. x \in Uuid /\ x # u
      BY <2>3, OverlayAssumption DEF Linked
    <3>2. /\ BecomesPredecessor(Me(u), r, n) => q.predecessor = n /\ Between(x, y, u)
          /\ ~BecomesPredecessor(Me(u), r, n) =>
                q.predecessor = r.predecessor /\ (n = r.predecessor \/ ~Between(x, y, u))
      BY <1>0, <2>1, <2>3 DEF BecomesPredecessor, has_predecessor
    <3>3. Distance(x, u) <= Distance(x, u) /\ Distance(y, u) <= Distance(y, u)
      BY <1>0, <3>1, DistNat
    <3>4. /\ Between(x, y, u) => Distance(y, u) <= Distance(x, u)
          /\ ~Between(x, y, u) /\ y # u => Distance(x, u) <= Distance(y, u)
      BY <1>0, <3>1, NearerBehind
    <3>5. /\ Distance(q.predecessor.uuid, u) <= Distance(x, u)
          /\ y # u => Distance(q.predecessor.uuid, u) <= Distance(y, u)
      <4>1. CASE BecomesPredecessor(Me(u), r, n)
        BY <3>2, <3>3, <3>4, <4>1
      <4>2. CASE ~BecomesPredecessor(Me(u), r, n)
        BY <3>2, <3>3, <3>4, <4>2
      <4> QED  BY <4>1, <4>2
    <3> QED  BY <1>1, <1>2, <3>5
  <2> QED  BY <2>2, <2>3
<1> QED  BY <1>3, <1>4

(* A peer inside that is told of peers inside stays rooted.                *)
LEMMA RootedUpdate ==
    ASSUME Spread, OneCreator, NEW S \in SUBSET Members, NEW u \in Members, NEW r, Fit(u, r),
           Rooted(S, u, r), u = Root \/ has_successor(r),
           NEW n \in Node, n.uuid \in S, n.uuid # u \/ n = Me(u) \/ has_successor(r),
           NEW q, q = update(Me(u), r, n)
    PROVE  /\ Rooted(S, u, q)
           /\ has_successor(r) => has_successor(q)
           /\ n.uuid # u => has_successor(q)
<1>1. Linked(S, u, r)
  BY DEF Rooted
<1>2. Linked(S, u, q) /\ (has_successor(r) => has_successor(q)) /\ (n.uuid # u => has_successor(q))
  BY <1>1, LinkedUpdate
<1>3. ASSUME u # Root PROVE Faces(u, successor(q).uuid, q.predecessor.uuid)
  <2> DEFINE s == successor(q).uuid
             p == q.predecessor.uuid
             x == successor(r).uuid
             y == r.predecessor.uuid
  <2>1. has_successor(r) /\ has_successor(q) /\ Faces(u, x, y)
    BY <1>2, <1>3 DEF Rooted
  <2>2. s \in S /\ p \in S /\ x \in S /\ y \in S
    BY <1>1, <1>2, <2>1, Neighbours
  <2>3. Distance(u, s) <= Distance(u, x) /\ Distance(p, u) <= Distance(y, u)
    BY <1>1, <2>1, UpdateNear
  <2>4. u \in Uuid /\ Root \in Uuid /\ s \in Uuid /\ p \in Uuid /\ x \in Uuid /\ y \in Uuid
    BY <2>2, OverlayAssumption DEF OneCreator
  <2> HIDE DEF s, p, x, y
  <2>5. /\ Distance(u, s) \in Nat /\ Distance(u, x) \in Nat /\ Distance(u, Root) \in Nat
        /\ Distance(p, u) \in Nat /\ Distance(y, u) \in Nat /\ Distance(Root, u) \in Nat
    BY <2>4, DistNat
  <2>6. Faces(u, s, p)
    BY <2>1, <2>3, <2>5 DEF Faces
  <2> QED  BY <2>6 DEF s, p
<1> QED  BY <1>2, <1>3 DEF Rooted

(* A process goes on with what is aimed, and one router may learn.         *)
LEMMA RootsAdvance ==
    ASSUME IInvJoins, Goes, RootInv, NEW u \in Members, NEW k \in Kind, NEW p, Goto(u, k, p),
           Aimed(Inside', u, p),
           \A w \in Members : router'[w] = router[w] \/ Rooted(Inside', w, router'[w])
    PROVE  RootInv'
<1>1. Procs /\ Inside \subseteq Inside'
  BY Parts, GrowInside DEF IInvJoins, Goes
<1>2. ASSUME NEW w \in Members PROVE Rooted(Inside', w, router'[w])
  <2>1. Rooted(Inside, w, router[w])
    BY DEF RootInv
  <2> QED  BY <1>1, <2>1, GrowRooted
<1>3. ASSUME NEW w \in Members, NEW j \in Kind PROVE Aimed(Inside', w, proc'[w][j])
  <2>1. CASE w = u /\ j = k
    BY <1>1, <2>1, ProcAfter
  <2>2. CASE w # u \/ j # k
    <3>1. proc'[w][j] = proc[w][j] /\ Aimed(Inside, w, proc[w][j])
      BY <1>1, <2>2, ProcAfter DEF RootInv
    <3> QED  BY <1>1, <3>1, GrowAimed
  <2> QED  BY <2>1, <2>2
<1> QED  BY <1>2, <1>3 DEF RootInv

(* The routers after a step that sets one.                                 *)
LEMMA RootsSet ==
    ASSUME Routers, NEW v \in Members, NEW q, SetRouter(v, q)
    PROVE  router'[v] = q /\ \A w \in Members : w # v => router'[w] = router[w]
  BY DEF SetRouter, Routers

(* The ends of a process know nothing; a join begins inside the ring, but  *)
(* for the creator's.                                                      *)
LEMMA AimedEnds ==
    ASSUME NEW S, NEW u
    PROVE  /\ Aimed(S, u, Idle)
           /\ \A k : Aimed(S, u, AfterJoin(k))
           /\ u = Root \/ JoinAddr[u] \in S =>
                 Aimed(S, u, JoinVia(u)) /\ \A q : Aimed(S, u, AfterStabilize(u, q))
<1>1. Aimed(S, u, Idle) /\ Aimed(S, u, Ready)
  BY DEF Aimed, Idle, Ready
<1>2. \A k : Aimed(S, u, AfterJoin(k))
  BY <1>1 DEF AfterJoin
<1>3. u = Root \/ JoinAddr[u] \in S => Aimed(S, u, JoinVia(u))
  <2>1. Len(<< >>) = 0
    OBVIOUS
  <2> QED  BY <2>1 DEF Aimed, JoinVia
<1>4. u = Root \/ JoinAddr[u] \in S => \A q : Aimed(S, u, AfterStabilize(u, q))
  BY <1>1, <1>3 DEF AfterStabilize
<1> QED  BY <1>1, <1>2, <1>3, <1>4

(* Whom a peer that is up is configured to join.                           *)
LEMMA LedInside ==
    ASSUME OneCreator, Led, Up \subseteq Up', Grown, NEW u \in Up
    PROVE  u = Root \/ (JoinAddr[u] \in Inside /\ JoinAddr[u] \in Inside')
  BY GrowInside DEF Led, OneCreator

-----------------------------------------------------------------------------
(* What is known in every step while peers only join.                      *)
LEMMA AllRooted ==
    ASSUME OneCreator, IInvJoins, Goes, RootInv
    PROVE  /\ Routers /\ Inside \subseteq Inside' /\ Root \in Inside /\ Root \in Inside'
           /\ Inside \in SUBSET Members /\ Inside' \in SUBSET Members /\ Root \in Uuid
           /\ \A w \in Inside : w = Root \/ has_successor(router[w])
           /\ \A w \in Up : has_successor(router[w]) => w \in Inside
           /\ \A w \in Members : /\ Fit(w, router[w]) /\ Rooted(Inside, w, router[w])
                                 /\ w \in Uuid /\ Me(w) \in Node /\ Me(w).uuid = w
<1>1. Routers /\ Inside \subseteq Inside'
  BY Parts, GrowInside DEF IInvJoins, Goes
<1>2. /\ Root \in Inside /\ Root \in Uuid /\ Inside \in SUBSET Members
      /\ \A w \in Inside : w = Root \/ has_successor(router[w])
  BY RootInside DEF Goes
<1>3. Inside' \in SUBSET Members
  BY DEF Inside, Up
<1>4. ASSUME NEW w \in Members
      PROVE  /\ Fit(w, router[w]) /\ Rooted(Inside, w, router[w])
             /\ w \in Uuid /\ Me(w) \in Node /\ Me(w).uuid = w
  BY <1>1, NodesMade, OverlayAssumption DEF Routers, RootInv
<1>5. \A w \in Up : has_successor(router[w]) => w \in Inside
  BY DEF Inside
<1> QED  BY <1>1, <1>2, <1>3, <1>4, <1>5

(* What is known of a process that has begun.                              *)
LEMMA Underway ==
    ASSUME IInvJoins, Goes, RootInv, NEW u \in Members, NEW k \in Kind, Pc(u, k) # "idle"
    PROVE  /\ u \in Up /\ u \in Up' /\ Message(proc[u][k])
           /\ Sound(Up, u, router[u], proc[u][k]) /\ Aimed(Inside, u, proc[u][k])
<1>1. Procs
  BY Parts DEF IInvJoins
<1>2. u \in Up /\ Sound(Up, u, router[u], proc[u][k])
  BY SoundUp DEF Goes
<1> QED  BY <1>1, <1>2 DEF Procs, RootInv, Goes

(* ChordFacade::start                                                      *)
LEMMA StartRoots ==
    ASSUME Spread, OneCreator, IInvJoins, StillJoins', Growing, Ordered', RootInv, Led,
           NEW u \in Members, Start(u)
    PROVE  RootInv'
<1>1. Goes
  BY StartJoins
<1>2. status[u] = "off" /\ Goto(u, "main", JoinVia(u)) /\ UNCHANGED router /\ "main" \in Kind
  BY Kinds DEF Start
<1>3. JoinAddr[u] \in Inside
  BY DEF Start, Notes, Ordered
<1>4. JoinAddr[u] \in Inside'
  BY <1>1, <1>3, AllRooted
<1>5. Aimed(Inside', u, JoinVia(u))
  BY <1>4, AimedEnds
<1> QED  BY <1>1, <1>2, <1>5, RootsAdvance

(* A join on its way.                                                      *)
LEMMA AimedOnWay ==
    ASSUME NEW S, NEW u, NEW p, p.pc = "join", p.target \in S,
           \A i \in 1 .. Len(p.stack) : Tries(p.stack[i], S)
    PROVE  Aimed(S, u, p)
  BY DEF Aimed

(* Service::join forwards to peers inside.                                 *)
LEMMA JoinForwardRoots ==
    ASSUME Spread, OneCreator, IInvJoins, StillJoins', Growing, Ordered', RootInv, Led,
           NEW u \in Members, NEW k \in JoinKind, JoinForward(u, k)
    PROVE  RootInv'
<1> DEFINE p == proc[u][k]
           v == p.target
           c == closest_preceding_nodes(Me(v), router[v], u)
           z == Push(p.stack, v, c)
           m == [p EXCEPT !.target = Head(c).uuid, !.stack = Push(@, v, c)]
           S == Inside'
<1>0. /\ p.pc = "join" /\ Goto(u, k, m) /\ k \in Kind /\ UNCHANGED router /\ Pc(u, k) # "idle"
      /\ v \in Up /\ v \in Members /\ has_predecessor(router[v])
  BY Kinds DEF JoinForward, ForwardsJoin, Answers, Serving, Up, Pc
<1>1. Goes
  BY JoinForwardJoins
<1> HIDE DEF m
<1>2. Message(p) /\ Aimed(Inside, u, p)
  BY <1>0, <1>1, Underway
<1>3. /\ Inside \subseteq S /\ S \in SUBSET Members /\ Inside \in SUBSET Members
      /\ \A w \in Members : Fit(w, router[w]) /\ Rooted(Inside, w, router[w]) /\ w \in Uuid
      /\ \A w \in Up : has_successor(router[w]) => w \in Inside
  BY <1>1, AllRooted
<1> HIDE DEF S, p
<1>4. p \in [pc : {"join"}, target : {p.target}, stack : {p.stack}] /\ IsStack(p.stack)
  BY <1>0, <1>2 DEF Message
<1>5. Aimed(S, u, p)
  BY <1>2, <1>3, GrowAimed
<1>6. v \in Inside /\ \A i \in 1 .. Len(p.stack) : Tries(p.stack[i], S)
  BY <1>0, <1>3, <1>5 DEF Aimed, Rooted, Linked
<1>7. m.pc = "join" /\ m.target = Head(c).uuid /\ m.stack = z
  <2> HIDE DEF c, v
  <2> QED  BY <1>0, <1>4 DEF m
<1> HIDE DEF v
<1>8. v \in S /\ Linked(S, v, router[v]) /\ router[v] \in RouterState /\ u \in Uuid
  BY <1>3, <1>6, GrowLinked DEF Rooted, Fit
<1>9. Leads(S, v, u, c)
  BY <1>3, <1>8, Candidates
<1> HIDE DEF c
<1>10. Tries(Frame(v, c), S) /\ Head(c).uuid \in S
  BY <1>9, FrameTries DEF Leads
<1>11. \A i \in 1 .. Len(z) : z[i] = Frame(v, c) \/ (i \in 1 .. Len(p.stack) /\ z[i] = p.stack[i])
  BY <1>4, PushFrames
<1> HIDE DEF z
<1>12. \A i \in 1 .. Len(z) : Tries(z[i], S)
  BY <1>6, <1>10, <1>11
<1>13. Aimed(S, u, m)
  BY <1>6, <1>7, <1>10, <1>12, AimedOnWay
<1> QED  BY <1>0, <1>1, <1>13, RootsAdvance DEF S

(* Service::join answers with two peers inside, and the one that joins     *)
(* comes between them: the creator does not.                               *)
LEMMA JoinAnswerRoots ==
    ASSUME Spread, OneCreator, IInvJoins, StillJoins', Growing, Ordered', RootInv, Led,
           NEW u \in Members, NEW k \in JoinKind, JoinAnswer(u, k)
    PROVE  RootInv'
<1> DEFINE p == proc[u][k]
           v == p.target
           r == router[v]
           succ == successor_or_self(Me(v), r)
           res == JoinResponse(v, u)
           m == [pc |-> "joined", succ |-> res.succ, pred |-> res.pred]
           S == Inside'
<1>0. /\ p.pc = "join" /\ Goto(u, k, m) /\ k \in Kind /\ UNCHANGED router /\ Pc(u, k) # "idle"
      /\ ~ForwardsJoin(v, u)
  BY Kinds DEF JoinAnswer, Pc
<1>1. Goes
  BY JoinAnswerJoins
<1> HIDE DEF m
<1>2. Aimed(Inside, u, p) /\ Sound(Up, u, router[u], p)
  BY <1>0, <1>1, Underway
<1>3. /\ Inside \subseteq S /\ Inside \in SUBSET Members /\ Root \in Uuid
      /\ \A w \in Inside : w = Root \/ has_successor(router[w])
      /\ \A w \in Members : Rooted(Inside, w, router[w]) /\ w \in Uuid /\ Me(w).uuid = w
  BY <1>1, AllRooted
<1> HIDE DEF S, p
<1>4. v \in Inside /\ v # u /\ u # Root
  <2>1. u # Root
    BY DEF JoinAnswer, Ordered, OneCreator
  <2> QED  BY <1>0, <1>2, <2>1 DEF Aimed, Sound
<1> HIDE DEF v
<1>5. /\ Linked(Inside, v, r) /\ u \in Uuid /\ v \in Uuid /\ Me(v).uuid = v /\ v \in Members
      /\ v = Root \/ (has_successor(r) /\ Faces(v, successor(r).uuid, r.predecessor.uuid))
  BY <1>3, <1>4 DEF Rooted
<1>6. /\ succ.uuid \in Inside /\ succ.uuid \in Uuid
      /\ has_successor(r) => succ = successor(r) /\ succ.uuid # v
      /\ ~has_successor(r) => succ = Me(v)
  BY <1>3, <1>4, <1>5, Neighbours DEF successor_or_self
<1>7. /\ res.succ.uuid \in Inside /\ res.pred.uuid \in Inside
      /\ Faces(u, res.succ.uuid, res.pred.uuid)
  <2>1. CASE Between(v, u, succ.uuid)
    <3>1. res = [succ |-> succ, pred |-> Me(v)]
      BY <2>1 DEF JoinResponse, Precedes
    <3>2. v = Root \/ (succ.uuid # v /\ Distance(v, succ.uuid) <= Distance(v, Root))
      BY <1>5, <1>6 DEF Faces
    <3> HIDE DEF res, succ
    <3>3. Distance(u, succ.uuid) <= Distance(u, Root) /\ Distance(v, u) <= Distance(Root, u)
      BY <1>3, <1>4, <1>5, <1>6, <2>1, <3>2, FacesAhead
    <3>4. res.succ = succ /\ res.pred.uuid = v
      BY <1>5, <3>1
    <3> QED  BY <1>4, <1>6, <3>3, <3>4 DEF Faces
  <2>2. CASE ~Between(v, u, succ.uuid)
    <3>1. has_predecessor(r)
      <4> SUFFICES ASSUME ~has_predecessor(r) PROVE FALSE
        OBVIOUS
      <4>1. succ.uuid = v
        BY <1>5, <1>6 DEF Linked
      <4> QED  BY <1>4, <1>5, <2>2, <4>1, BetweenEnds
    <3>2. Between(r.predecessor.uuid, u, v)
      BY <1>0, <2>2, <3>1 DEF ForwardsJoin
    <3>3. /\ r.predecessor.uuid \in Inside /\ r.predecessor.uuid # v /\ r.predecessor.uuid \in Uuid
          /\ v = Root \/ Distance(r.predecessor.uuid, v) <= Distance(Root, v)
      BY <1>3, <1>5, <3>1 DEF Linked, Faces
    <3>4. res = [succ |-> Me(v), pred |-> r.predecessor]
      BY <2>2, <3>1 DEF JoinResponse, Precedes
    <3> HIDE DEF res, succ, r
    <3>5. /\ Distance(u, v) <= Distance(u, Root)
          /\ Distance(r.predecessor.uuid, u) <= Distance(Root, u)
      BY <1>3, <1>4, <1>5, <3>2, <3>3, FacesBehind
    <3>6. res.succ.uuid = v /\ res.pred = r.predecessor
      BY <1>5, <3>4
    <3> QED  BY <1>4, <3>3, <3>5, <3>6 DEF Faces
  <2> QED  BY <2>1, <2>2
<1> HIDE DEF res
<1>8. Aimed(S, u, m)
  BY <1>3, <1>4, <1>7 DEF Aimed, m
<1> QED  BY <1>0, <1>1, <1>8, RootsAdvance DEF S

(* Client::join when a call fails: the next node is inside as well.        *)
LEMMA JoinFailsRoots ==
    ASSUME Spread, OneCreator, IInvJoins, StillJoins', Growing, Ordered', RootInv, Led,
           NEW u \in Members, NEW k \in JoinKind, JoinFails(u, k)
    PROVE  RootInv'
<1> DEFINE p == proc[u][k]
           again == [pc |-> "join", target |-> Retry(p.stack).target, stack |-> Retry(p.stack).stack]
           m == IF Retries(p.stack) = {} THEN AfterJoin(k) ELSE again
           S == Inside'
<1>0. p.pc = "join" /\ Goto(u, k, m) /\ k \in Kind /\ UNCHANGED router /\ Pc(u, k) # "idle"
  BY Kinds DEF JoinFails, Pc
<1>1. Goes
  BY JoinFailsJoins
<1> HIDE DEF m
<1>2. Message(p) /\ Aimed(Inside, u, p)
  BY <1>0, <1>1, Underway
<1>3. Inside \subseteq S /\ Root \in S
  BY <1>1, AllRooted
<1> HIDE DEF S, p
<1>4. IsStack(p.stack) /\ \A i \in 1 .. Len(p.stack) : Tries(p.stack[i], S)
  <2>1. Aimed(S, u, p)
    BY <1>2, <1>3, GrowAimed
  <2> QED  BY <1>0, <1>2, <2>1 DEF Aimed, Message
<1>5. Retries(p.stack) # {} => Aimed(S, u, again)
  <2> SUFFICES ASSUME Retries(p.stack) # {} PROVE Aimed(S, u, again)
    OBVIOUS
  <2>1. /\ Retry(p.stack).target \in S
        /\ \A i \in 1 .. Len(Retry(p.stack).stack) : Tries(Retry(p.stack).stack[i], S)
    BY <1>4, RetryTries
  <2>2. again.pc = "join" /\ again.target = Retry(p.stack).target /\ again.stack = Retry(p.stack).stack
    OBVIOUS
  <2> HIDE DEF again
  <2> QED  BY <1>4, <2>1, <2>2, AimedOnWay
<1>6. Aimed(S, u, m)
  <2>1. Aimed(S, u, AfterJoin(k))
    BY <1>3, AimedEnds
  <2> HIDE DEF again
  <2> QED  BY <1>5, <2>1 DEF m
<1> QED  BY <1>0, <1>1, <1>6, RootsAdvance DEF S

(* The notifications go to peers inside and tell of peers inside.          *)
LEMMA AimedNotify ==
    ASSUME NEW S, NEW u \in Members, u \in S, NEW r, Linked(S, u, r), has_successor(r), NEW ok
    PROVE  Aimed(S, u, ToPredecessor(u, r)) /\ Aimed(S, u, ToSuccessor(u, r, ok))
<1>1. successor(r).uuid \in S /\ r.predecessor.uuid \in S /\ Me(u).uuid = u
  BY Neighbours, NodesMade
<1>2. /\ <<successor(r), Me(u)>>[1] = successor(r) /\ <<successor(r), Me(u)>>[2] = Me(u)
      /\ <<r.predecessor, Me(u)>>[1] = r.predecessor /\ <<r.predecessor, Me(u)>>[2] = Me(u)
  OBVIOUS
<1>3. Aimed(S, u, ToPredecessor(u, r))
  BY <1>1, <1>2 DEF Aimed, ToPredecessor
<1>4. Aimed(S, u, ToSuccessor(u, r, ok))
  BY <1>1, <1>2 DEF Aimed, ToSuccessor
<1> QED  BY <1>3, <1>4

(* Client::join, the answer: the peer that joins is inside from now on.    *)
(* For a moment its successor is its predecessor, too, which may be beyond *)
(* the creator; the second node of the answer mends that.                  *)
LEMMA JoinReplyRoots ==
    ASSUME Spread, OneCreator, IInvJoins, StillJoins', Growing, Ordered', RootInv, Led,
           NEW u \in Members, NEW k \in JoinKind, JoinReply(u, k)
    PROVE  RootInv'
<1> DEFINE p == proc[u][k]
           r0 == router[u]
           r1 == update(Me(u), r0, p.succ)
           r == update(Me(u), r1, p.pred)
           m == IF Joined(r) THEN ToPredecessor(u, r) ELSE [pc |-> "garbage"]
           S == Inside'
<1>0. /\ p.pc = "joined" /\ SetRouter(u, r) /\ SendNotify(u, k, r, ToPredecessor(u, r))
      /\ k \in Kind /\ Pc(u, k) # "idle"
  BY Kinds DEF JoinReply, Pc
<1>1. Goes
  BY JoinReplyJoins
<1>2. Goto(u, k, m)
  <2> HIDE DEF r
  <2> QED  BY <1>0 DEF SendNotify
<1> HIDE DEF m
<1>3. Message(p) /\ Aimed(Inside, u, p) /\ Sound(Up, u, router[u], p) /\ u \in Up'
  BY <1>0, <1>1, Underway
<1>4. /\ Inside \subseteq S /\ S \in SUBSET Members /\ Root \in Uuid /\ Routers
      /\ Fit(u, r0) /\ Rooted(Inside, u, r0) /\ u \in Uuid
  BY <1>1, AllRooted
<1>5. router'[u] = r /\ \A w \in Members : w # u => router'[w] = router[w]
  <2> HIDE DEF r
  <2> QED  BY <1>0, <1>4, RootsSet
<1>6. has_successor(r) => u \in S
  <2> HIDE DEF r
  <2> QED  BY <1>3, <1>5 DEF Inside
<1> HIDE DEF p, S, r0
<1>7. /\ p.succ \in Node /\ p.pred \in Node /\ u # Root /\ Faces(u, p.succ.uuid, p.pred.uuid)
      /\ p.succ.uuid \in S \ {u} /\ p.pred.uuid \in S \ {u}
  BY <1>0, <1>3, <1>4 DEF Sound, Message, Aimed
<1>8. Linked(S, u, r0)
  BY <1>4, GrowLinked DEF Rooted
<1>9. /\ Fit(u, r1) /\ Linked(S, u, r1) /\ has_successor(r1)
      /\ Distance(u, successor(r1).uuid) <= Distance(u, p.succ.uuid)
  <2>1. Fit(u, r1) /\ r1 = update(Me(u), r0, p.succ)
    BY <1>4, <1>7, UpdateFit
  <2> HIDE DEF r1
  <2>2. Linked(S, u, r1) /\ has_successor(r1)
    BY <1>4, <1>7, <1>8, <2>1, LinkedUpdate
  <2>3. Distance(u, successor(r1).uuid) <= Distance(u, p.succ.uuid)
    BY <1>4, <1>7, <1>8, <2>1, UpdateNear
  <2> QED  BY <2>1, <2>2, <2>3
<1> HIDE DEF r1
<1>10. Linked(S, u, r) /\ has_successor(r)
  BY <1>4, <1>7, <1>9, LinkedUpdate
<1>11. /\ Distance(u, successor(r).uuid) <= Distance(u, successor(r1).uuid)
       /\ Distance(r.predecessor.uuid, u) <= Distance(p.pred.uuid, u)
  BY <1>4, <1>7, <1>9, UpdateNear
<1> HIDE DEF r
<1>12. Faces(u, successor(r).uuid, r.predecessor.uuid)
  <2>1. /\ successor(r).uuid \in Uuid /\ r.predecessor.uuid \in Uuid
        /\ successor(r1).uuid \in Uuid /\ p.succ.uuid \in Uuid /\ p.pred.uuid \in Uuid
    BY <1>4, <1>7, <1>9, <1>10, Neighbours, OverlayAssumption
  <2>2. /\ Distance(u, successor(r).uuid) \in Nat /\ Distance(u, successor(r1).uuid) \in Nat
        /\ Distance(u, p.succ.uuid) \in Nat /\ Distance(u, Root) \in Nat
        /\ Distance(r.predecessor.uuid, u) \in Nat /\ Distance(p.pred.uuid, u) \in Nat
        /\ Distance(Root, u) \in Nat
    BY <1>4, <2>1, DistNat
  <2> QED  BY <1>7, <1>9, <1>11, <2>2 DEF Faces
<1>13. Rooted(S, u, r)
  BY <1>10, <1>12 DEF Rooted
<1>14. Aimed(S, u, m)
  <2>1. m = ToPredecessor(u, r)
    BY <1>10, Neighbours DEF m
  <2> QED  BY <1>6, <1>10, <2>1, AimedNotify
<1>15. \A w \in Members : router'[w] = router[w] \/ Rooted(S, w, router'[w])
  BY <1>5, <1>13
<1> QED  BY <1>0, <1>1, <1>2, <1>14, <1>15, RootsAdvance DEF S

(* Service::notify: a peer inside is told of peers inside.                 *)
LEMMA NotifyRoots ==
    ASSUME Spread, OneCreator, IInvJoins, Goes, RootInv,
           NEW u \in Inside, NEW v \in Inside, u # v,
           NEW nodes, nodes = << >> \/ (/\ nodes \in Node \X Node
                                        /\ nodes[1].uuid \in Inside /\ nodes[2].uuid \in Inside),
           NEW ok, CallNotify(v, Me(u), nodes, ok)
    PROVE  \A w \in Members : router'[w] = router[w] \/ Rooted(Inside', w, router'[w])
<1> DEFINE S == Inside'
           r0 == router[v]
           r1 == update(Me(v), r0, Me(u))
           r2 == update(Me(v), r1, AsSeen(nodes[1]))
           r3 == update(Me(v), r2, AsSeen(nodes[2]))
           q == IF nodes = << >> THEN r1 ELSE r3
<1>0. /\ Routers /\ Inside \subseteq S /\ S \in SUBSET Members
      /\ u \in Members /\ v \in Members /\ Me(u) \in Node /\ Me(u).uuid = u /\ Me(v).uuid = v
      /\ v = Root \/ has_successor(r0)
      /\ Fit(v, r0) /\ Rooted(S, v, r0)
  <2>1. /\ Routers /\ Inside \subseteq S /\ S \in SUBSET Members /\ Inside \in SUBSET Members
        /\ v = Root \/ has_successor(r0)
        /\ \A w \in Members : /\ Fit(w, router[w]) /\ Rooted(Inside, w, router[w])
                              /\ Me(w) \in Node /\ Me(w).uuid = w
    BY AllRooted
  <2>2. u \in Members /\ v \in Members
    BY <2>1
  <2>3. Rooted(S, v, r0)
    BY <2>1, <2>2, GrowRooted
  <2> QED  BY <2>1, <2>2, <2>3
<1>1. Me(u) # Me(v)
  BY <1>0
<1>2. UNCHANGED router \/ SetRouter(v, q)
  BY <1>1 DEF CallNotify, HandleNotify
<1> HIDE DEF S, r0
<1>3. Fit(v, r1) /\ Rooted(S, v, r1) /\ has_successor(r1)
  <2>1. Fit(v, r1) /\ r1 = update(Me(v), r0, Me(u))
    BY <1>0, UpdateFit
  <2> HIDE DEF r1
  <2> QED  BY <1>0, <2>1, RootedUpdate
<1> HIDE DEF r1
<1>4. nodes # << >> => Rooted(S, v, r3)
  <2> SUFFICES ASSUME nodes # << >> PROVE Rooted(S, v, r3)
    OBVIOUS
  <2>1. /\ nodes[1] \in Node /\ nodes[1].uuid \in S
        /\ nodes[2] \in Node /\ nodes[2].uuid \in S
    BY <1>0
  <2> DEFINE m1 == AsSeen(nodes[1])
             m2 == AsSeen(nodes[2])
  <2>2. m1 \in Node /\ m1.uuid \in S /\ m2 \in Node /\ m2.uuid \in S
    BY <2>1, NodesMade DEF AsSeen, Node
  <2> HIDE DEF m1, m2
  <2>3. r2 = update(Me(v), r1, m1) /\ r3 = update(Me(v), r2, m2)
    BY DEF m1, m2
  <2>4. Fit(v, r2)
    BY <1>0, <1>3, <2>2, <2>3, UpdateFit
  <2> HIDE DEF r2, r3
  <2>5. Rooted(S, v, r2) /\ has_successor(r2)
    BY <1>0, <1>3, <2>2, <2>3, RootedUpdate
  <2> QED  BY <1>0, <2>2, <2>3, <2>4, <2>5, RootedUpdate
<1>5. Rooted(S, v, q)
  <2> HIDE DEF r3
  <2> QED  BY <1>3, <1>4
<1> HIDE DEF q
<1>6. CASE UNCHANGED router
  BY <1>6
<1>7. CASE SetRouter(v, q)
  <2>1. router'[v] = q /\ \A w \in Members : w # v => router'[w] = router[w]
    BY <1>0, <1>7, RootsSet
  <2> QED  BY <1>5, <2>1 DEF S
<1> QED  BY <1>2, <1>6, <1>7

(* ChordFacade::join notifies the predecessor ...                          *)
LEMMA NotifyPredecessorRoots ==
    ASSUME Spread, OneCreator, IInvJoins, StillJoins', Growing, Ordered', RootInv, Led,
           NEW u \in Members, NEW k \in JoinKind, NotifyPredecessor(u, k)
    PROVE  RootInv'
<1> DEFINE p == proc[u][k]
<1>0. PICK ok \in BOOLEAN : CallNotify(p.target, Me(u), p.nodes, ok)
                            /\ Goto(u, k, [pc |-> "notified_pred", ok |-> ok])
  BY DEF NotifyPredecessor
<1>1. p.pc = "notify_pred" /\ k \in Kind /\ Pc(u, k) # "idle" /\ Goes
  BY Kinds, NotifyPredecessorJoins DEF NotifyPredecessor, Pc
<1>2. /\ u \in Up /\ Message(p) /\ Aimed(Inside, u, p) /\ Sound(Up, u, router[u], p)
      /\ \A w \in Up : has_successor(router[w]) => w \in Inside
  BY <1>1, Underway, AllRooted
<1> HIDE DEF p
<1>3. /\ u \in Inside /\ p.target \in Inside /\ p.target # u
      /\ p.nodes \in Node \X Node /\ p.nodes[1].uuid \in Inside /\ p.nodes[2].uuid \in Inside
  BY <1>1, <1>2 DEF Sound, Message, Aimed
<1>4. \A w \in Members : router'[w] = router[w] \/ Rooted(Inside', w, router'[w])
  BY <1>0, <1>1, <1>3, NotifyRoots
<1>5. Aimed(Inside', u, [pc |-> "notified_pred", ok |-> ok])
  BY DEF Aimed
<1> QED  BY <1>0, <1>1, <1>4, <1>5, RootsAdvance

(* ... reads the successor again ...                                       *)
LEMMA NotifyNextRoots ==
    ASSUME Spread, OneCreator, IInvJoins, StillJoins', Growing, Ordered', RootInv, Led,
           NEW u \in Members, NEW k \in JoinKind, NotifyNext(u, k)
    PROVE  RootInv'
<1> DEFINE p == proc[u][k]
           r == router[u]
           m == IF Joined(r) THEN ToSuccessor(u, r, p.ok) ELSE [pc |-> "garbage"]
           S == Inside'
<1>0. p.pc = "notified_pred" /\ k \in Kind /\ Pc(u, k) # "idle" /\ UNCHANGED router
  BY Kinds DEF NotifyNext, Pc
<1>1. Goto(u, k, m) /\ Goes
  BY NotifyNextJoins DEF NotifyNext, SendNotify
<1> HIDE DEF m
<1>2. /\ u \in Up /\ Sound(Up, u, r, p) /\ Inside \subseteq S /\ Rooted(Inside, u, r)
      /\ (has_successor(r) => u \in Inside)
  BY <1>0, <1>1, Underway, AllRooted
<1> HIDE DEF p, S
<1>3. has_successor(r) /\ u \in S /\ Linked(S, u, r)
  BY <1>0, <1>2, GrowLinked DEF Sound, Rooted
<1>4. Aimed(S, u, m)
  <2>1. m = ToSuccessor(u, r, p.ok)
    BY <1>3, Neighbours DEF m
  <2> QED  BY <1>3, <2>1, AimedNotify
<1> QED  BY <1>0, <1>1, <1>4, RootsAdvance DEF S

(* ... and notifies it.                                                    *)
LEMMA NotifySuccessorRoots ==
    ASSUME Spread, OneCreator, IInvJoins, StillJoins', Growing, Ordered', RootInv, Led,
           NEW u \in Members, NEW k \in JoinKind, NotifySuccessor(u, k)
    PROVE  RootInv'
<1> DEFINE p == proc[u][k]
<1>0. PICK ok \in BOOLEAN :
        /\ CallNotify(p.target, Me(u), p.nodes, ok)
        /\ Goto(u, k, IF p.ok /\ ok THEN AfterJoin(k) ELSE [pc |-> "join_failed"])
  BY DEF NotifySuccessor
<1> DEFINE m == IF p.ok /\ ok THEN AfterJoin(k) ELSE [pc |-> "join_failed"]
<1>1. p.pc = "notify_succ" /\ k \in Kind /\ Pc(u, k) # "idle" /\ Goes /\ Goto(u, k, m)
  BY <1>0, Kinds, NotifySuccessorJoins DEF NotifySuccessor, Pc
<1> HIDE DEF m
<1>2. /\ u \in Up /\ Message(p) /\ Aimed(Inside, u, p) /\ Sound(Up, u, router[u], p)
      /\ Root \in Inside' /\ \A w \in Up : has_successor(router[w]) => w \in Inside
  BY <1>1, Underway, AllRooted
<1> HIDE DEF p
<1>3. /\ u \in Inside /\ p.target \in Inside /\ p.target # u
      /\ p.nodes \in Node \X Node /\ p.nodes[1].uuid \in Inside /\ p.nodes[2].uuid \in Inside
  BY <1>1, <1>2 DEF Sound, Message, Aimed
<1>4. \A w \in Members : router'[w] = router[w] \/ Rooted(Inside', w, router'[w])
  BY <1>0, <1>1, <1>3, NotifyRoots
<1>5. Aimed(Inside', u, m)
  <2>1. Aimed(Inside', u, [pc |-> "join_failed"])
    BY DEF Aimed
  <2>2. Aimed(Inside', u, AfterJoin(k))
    BY <1>2, AimedEnds
  <2> QED  BY <2>1, <2>2 DEF m
<1> QED  BY <1>1, <1>4, <1>5, RootsAdvance

-----------------------------------------------------------------------------
(* ChordFacade::stabilize asks the successor, when there is one ...        *)
LEMMA StabilizeBeginRoots ==
    ASSUME Spread, OneCreator, IInvJoins, StillJoins', Growing, Ordered', RootInv, Led,
           NEW u \in Members, StabilizeBegin(u)
    PROVE  RootInv'
<1> DEFINE r == router[u]
           ask == [pc |-> "stabilize", peer |-> successor(r)]
           m == IF has_successor(r) THEN ask ELSE AfterStabilize(u, r)
           S == Inside'
<1>0. /\ Goto(u, "stab", m) /\ "stab" \in Kind /\ UNCHANGED router /\ u \in Up
  BY Kinds DEF StabilizeBegin, Begins, Up
<1>1. Goes
  BY StabilizeBeginJoins
<1> HIDE DEF m
<1>2. /\ Inside \subseteq S /\ Root \in S /\ Rooted(Inside, u, r)
      /\ has_successor(r) => u \in Inside
  BY <1>0, <1>1, AllRooted
<1> HIDE DEF S
<1>3. has_successor(r) => Aimed(S, u, ask)
  BY <1>2, Neighbours DEF Aimed, Rooted
<1>4. Aimed(S, u, AfterStabilize(u, r))
  BY <1>0, <1>1, AimedEnds, LedInside DEF Goes, S
<1> HIDE DEF ask
<1>5. Aimed(S, u, m)
  BY <1>3, <1>4 DEF m
<1> QED  BY <1>0, <1>1, <1>5, RootsAdvance DEF S

(* ... whose predecessor is inside ...                                     *)
LEMMA StabilizeHandledRoots ==
    ASSUME Spread, OneCreator, IInvJoins, StillJoins', Growing, Ordered', RootInv, Led,
           NEW u \in Members, StabilizeHandled(u)
    PROVE  RootInv'
<1> DEFINE p == proc[u]["stab"]
           v == p.peer.uuid
           m == [pc |-> "stabilized", peer |-> p.peer, pred |-> router[v].predecessor]
           S == Inside'
<1>0. /\ p.pc = "stabilize" /\ Goto(u, "stab", m) /\ "stab" \in Kind /\ UNCHANGED router
      /\ Pc(u, "stab") # "idle"
  BY Kinds DEF StabilizeHandled, Pc
<1>1. Goes
  BY StabilizeHandledJoins
<1> HIDE DEF m
<1>2. /\ Inside \subseteq S /\ Inside \in SUBSET Members /\ Aimed(Inside, u, p)
      /\ \A w \in Members : Rooted(Inside, w, router[w])
  BY <1>0, <1>1, Underway, AllRooted
<1> HIDE DEF S, p
<1>3. u \in Inside /\ v \in Inside
  BY <1>0, <1>2 DEF Aimed
<1>4. router[v].predecessor = NoNode \/ router[v].predecessor.uuid \in Inside
  BY <1>2, <1>3 DEF Rooted, Linked, has_predecessor
<1>5. Aimed(S, u, m)
  BY <1>2, <1>3, <1>4 DEF Aimed, m
<1> QED  BY <1>0, <1>1, <1>5, RootsAdvance DEF S

(* ... and may be taken over ...                                           *)
LEMMA StabilizeReplyRoots ==
    ASSUME Spread, OneCreator, IInvJoins, StillJoins', Growing, Ordered', RootInv, Led,
           NEW u \in Members, StabilizeReply(u)
    PROVE  RootInv'
<1> DEFINE p == proc[u]["stab"]
           takes == p.pred # NoNode /\ Between(u, p.pred.uuid, p.peer.uuid)
           n == update(Me(u), router[u], p.pred)
           r == IF takes THEN n ELSE router[u]
           note == [pc |-> "notify", target |-> successor(r).uuid]
           m == IF has_successor(r) THEN note ELSE AfterStabilize(u, r)
           S == Inside'
<1>0. /\ p.pc = "stabilized" /\ SetRouter(u, r) /\ Goto(u, "stab", m) /\ "stab" \in Kind
      /\ Pc(u, "stab") # "idle"
  BY Kinds DEF StabilizeReply, Pc
<1>1. Goes
  BY StabilizeReplyJoins
<1> HIDE DEF m, r
<1>2. /\ Message(p) /\ Aimed(Inside, u, p) /\ Sound(Up, u, router[u], p) /\ Up \in SUBSET Members
      /\ u \in Up
  BY <1>0, <1>1, Underway DEF Up
<1>3. /\ Routers /\ Inside \subseteq S /\ S \in SUBSET Members /\ Root \in S
      /\ Fit(u, router[u]) /\ Rooted(Inside, u, router[u]) /\ u \in Uuid
      /\ u \in Inside => u = Root \/ has_successor(router[u])
  BY <1>1, AllRooted
<1> HIDE DEF p, S
<1>4. /\ u \in S /\ (u = Root \/ has_successor(router[u])) /\ p.peer.uuid \in Uuid
      /\ p.pred # NoNode => p.pred \in Node /\ p.pred.uuid \in S /\ p.pred.uuid \in Uuid
  BY <1>0, <1>2, <1>3, NodeUuid, OverlayAssumption DEF Aimed, Message, Sound, OptNode
<1>5. Rooted(S, u, router[u])
  BY <1>3, GrowRooted
<1>6. takes => Rooted(S, u, n)
  <2> SUFFICES ASSUME takes PROVE Rooted(S, u, n)
    OBVIOUS
  <2>1. p.pred.uuid # u
    BY <1>3, <1>4, BetweenEnds
  <2>2. n = update(Me(u), router[u], p.pred)
    OBVIOUS
  <2> HIDE DEF n
  <2> QED  BY <1>3, <1>4, <1>5, <2>1, <2>2, RootedUpdate
<1> HIDE DEF takes, n
<1>7. Rooted(S, u, r)
  BY <1>5, <1>6 DEF r
<1>8. has_successor(r) => Aimed(S, u, note)
  BY <1>4, <1>7, Neighbours DEF Aimed, Rooted
<1>9. Aimed(S, u, AfterStabilize(u, r))
  BY <1>1, <1>2, AimedEnds, LedInside DEF Goes, S
<1> HIDE DEF note
<1>10. Aimed(S, u, m)
  BY <1>8, <1>9 DEF m
<1>11. \A w \in Members : router'[w] = router[w] \/ Rooted(S, w, router'[w])
  BY <1>0, <1>3, <1>7, RootsSet
<1> QED  BY <1>0, <1>1, <1>10, <1>11, RootsAdvance DEF S

(* ... before the successor is notified.                                   *)
LEMMA StabilizeNotifyRoots ==
    ASSUME Spread, OneCreator, IInvJoins, StillJoins', Growing, Ordered', RootInv, Led,
           NEW u \in Members, StabilizeNotify(u)
    PROVE  RootInv'
<1> DEFINE p == proc[u]["stab"]
           m == AfterStabilize(u, router[u])
<1>0. PICK ok \in BOOLEAN : CallNotify(p.target, Me(u), << >>, ok)
  BY DEF StabilizeNotify
<1>1. p.pc = "notify" /\ "stab" \in Kind /\ Pc(u, "stab") # "idle" /\ Goes /\ Goto(u, "stab", m)
  BY Kinds, StabilizeNotifyJoins DEF StabilizeNotify, Pc
<1>2. Aimed(Inside, u, p) /\ Sound(Up, u, router[u], p) /\ u \in Up
  BY <1>1, Underway
<1> HIDE DEF p
<1>3. u \in Inside /\ p.target \in Inside /\ p.target # u
  BY <1>1, <1>2 DEF Sound, Aimed
<1>4. \A w \in Members : router'[w] = router[w] \/ Rooted(Inside', w, router'[w])
  BY <1>0, <1>1, <1>3, NotifyRoots
<1>5. Aimed(Inside', u, m)
  BY <1>1, <1>2, AimedEnds, LedInside DEF Goes
<1> HIDE DEF m
<1> QED  BY <1>1, <1>4, <1>5, RootsAdvance

(* Client::check leaves the routers alone.                                 *)
LEMMA CheckRoots ==
    ASSUME Spread, OneCreator, IInvJoins, StillJoins', Growing, Ordered', RootInv, Led,
           NEW u \in Members, Check(u)
    PROVE  RootInv'
<1>1. Goes /\ "check" \in Kind
  BY CheckBeginJoins, CheckPingJoins, Kinds DEF Check
<1>2. Root \in Inside' /\ Inside \in SUBSET Members
  BY <1>1, AllRooted
<1>3. Aimed(Inside', u, Idle) /\ \A x : Aimed(Inside', u, [pc |-> "ping", peer |-> x])
  BY DEF Aimed, Idle
<1>4. CASE CheckBegin(u)
  <2> DEFINE m == IF Joined(router[u]) THEN [pc |-> "ping", peer |-> router[u].predecessor] ELSE Idle
  <2>1. Goto(u, "check", m) /\ UNCHANGED router
    BY <1>4 DEF CheckBegin
  <2>2. Aimed(Inside', u, m)
    BY <1>3
  <2> HIDE DEF m
  <2> QED  BY <1>1, <2>1, <2>2, RootsAdvance
<1>5. CASE CheckPing(u)
  <2> DEFINE p == proc[u]["check"]
             v == p.peer.uuid
  <2>1. /\ p.pc = "ping" /\ Goto(u, "check", Idle) /\ (Fails(v) \/ UNCHANGED router)
        /\ Pc(u, "check") # "idle" /\ Pc(u, "check") \notin Leaving /\ OnTime /\ UNCHANGED status
    BY <1>5, CallsOnTime DEF CheckPing, Pc, Leaving
  <2>2. Others /\ UNCHANGED timeouts /\ Sound(Up, u, router[u], p)
    BY <1>1, <2>1, InFlight
  <2> HIDE DEF p
  <2>3. v \in Up
    BY <2>1, <2>2 DEF Sound
  <2>4. UNCHANGED router
    BY <2>1, <2>2, <2>3, NoFailure
  <2> QED  BY <1>1, <1>3, <2>1, <2>4, RootsAdvance
<1> QED  BY <1>4, <1>5 DEF Check

-----------------------------------------------------------------------------
(* ChordFacade::fix_fingers begins with the peer itself.                   *)
LEMMA FixBeginRoots ==
    ASSUME Spread, OneCreator, IInvJoins, StillJoins', Growing, Ordered', RootInv, Led,
           NEW u \in Members, FixBegin(u)
    PROVE  RootInv'
<1> DEFINE index == (next[u] + 1) % BITS
           m == [pc |-> "successor", id |-> FingerStart(Me(u), index),
                 target |-> u, caller |-> u, stack |-> << >>, ring |-> RingOf(u)]
<1>0. Goto(u, "fix", m) /\ "fix" \in Kind /\ UNCHANGED router
  BY Kinds DEF FixBegin
<1>1. Goes
  BY FixBeginJoins
<1>2. Aimed(Inside', u, m)
  BY DEF Aimed
<1> HIDE DEF m
<1> QED  BY <1>0, <1>1, <1>2, RootsAdvance

(* For a lookup, what is aimed.                                            *)
LEMMA AimedLookup ==
    ASSUME NEW S, NEW u, NEW p, p.pc \in {"successor", "probe"}
    PROVE  Aimed(S, u, p) <=> (p.target = u /\ p.caller = u) \/ (p.target \in S /\ p.caller \in S)
  BY DEF Aimed

(* Service::successor takes note of a caller inside, or of itself.         *)
LEMMA SuccessorArrivesRoots ==
    ASSUME Spread, OneCreator, IInvJoins, StillJoins', Growing, Ordered', RootInv, Led,
           NEW u \in Members, SuccessorArrives(u)
    PROVE  RootInv'
<1> DEFINE p == proc[u]["fix"]
           v == p.target
           n == Me(p.caller)
           q == update(Me(v), router[v], n)
           m == [p EXCEPT !.pc = "probe"]
           S == Inside'
<1>0. /\ p.pc = "successor" /\ SetRouter(v, q) /\ Goto(u, "fix", m) /\ "fix" \in Kind
      /\ Pc(u, "fix") # "idle"
  BY Kinds DEF SuccessorArrives, Pc
<1>1. Goes
  BY SuccessorArrivesJoins
<1> HIDE DEF m
<1>2. Message(p) /\ Aimed(Inside, u, p)
  BY <1>0, <1>1, Underway
<1>3. /\ Routers /\ Inside \subseteq S /\ S \in SUBSET Members /\ Inside \in SUBSET Members
      /\ \A w \in Inside : w = Root \/ has_successor(router[w])
      /\ \A w \in Members : /\ Fit(w, router[w]) /\ Rooted(Inside, w, router[w])
                            /\ Me(w) \in Node /\ Me(w).uuid = w
  BY <1>1, AllRooted
<1> HIDE DEF p, S
<1>4. m.pc = "probe" /\ m.target = p.target /\ m.caller = p.caller
  BY <1>0, <1>2, LookupMessage DEF m, Lookup
<1>5. (v = u /\ p.caller = u) \/ (v \in Inside /\ p.caller \in Inside)
  BY <1>0, <1>2, AimedLookup
<1>6. Aimed(S, u, m)
  BY <1>3, <1>4, <1>5, AimedLookup
<1> HIDE DEF v
<1>7. Rooted(S, v, q) /\ v \in Members
  <2>1. CASE v = u /\ p.caller = u
    <3>1. q = router[u]
      BY <2>1 DEF update
    <3>2. Rooted(S, u, router[u])
      BY <1>3, GrowRooted
    <3> QED  BY <2>1, <3>1, <3>2
  <2>2. CASE v \in Inside /\ p.caller \in Inside
    <3>1. /\ n \in Node /\ n.uuid \in S /\ (n.uuid # v \/ n = Me(v)) /\ v \in Members
          /\ v = Root \/ has_successor(router[v])
          /\ Fit(v, router[v]) /\ Rooted(Inside, v, router[v])
      BY <1>3, <2>2
    <3>2. Rooted(S, v, router[v]) /\ q = update(Me(v), router[v], n)
      BY <1>3, <3>1, GrowRooted
    <3> HIDE DEF q, n
    <3> QED  BY <1>3, <3>1, <3>2, RootedUpdate
  <2> QED  BY <1>5, <2>1, <2>2
<1> HIDE DEF q
<1>8. \A w \in Members : router'[w] = router[w] \/ Rooted(S, w, router'[w])
  BY <1>0, <1>3, <1>7, RootsSet
<1> QED  BY <1>0, <1>1, <1>6, <1>8, RootsAdvance DEF S

(* It answers with a peer inside, or the peer that asks has none.          *)
LEMMA SuccessorAnswersRoots ==
    ASSUME Spread, OneCreator, IInvJoins, StillJoins', Growing, Ordered', RootInv, Led,
           NEW u \in Members, SuccessorAnswers(u)
    PROVE  RootInv'
<1> DEFINE p == proc[u]["fix"]
           v == p.target
           succ == successor_or_self(Me(v), router[v])
           m == [pc |-> "fixed", id |-> p.id, succ |-> succ, ring |-> p.ring]
           S == Inside'
<1>0. /\ p.pc = "probe" /\ Goto(u, "fix", m) /\ "fix" \in Kind /\ UNCHANGED router
      /\ Pc(u, "fix") # "idle"
  BY Kinds DEF SuccessorAnswers, Pc
<1>1. Goes
  BY SuccessorAnswersJoins
<1> HIDE DEF m
<1>2. /\ Aimed(Inside, u, p) /\ Inside \subseteq S /\ Inside \in SUBSET Members
      /\ \A w \in Members : Rooted(Inside, w, router[w]) /\ Me(w).uuid = w
  BY <1>0, <1>1, Underway, AllRooted
<1> HIDE DEF p, S
<1>3. (v = u /\ p.caller = u) \/ (v \in Inside /\ p.caller \in Inside)
  BY <1>0, <1>2, AimedLookup
<1> HIDE DEF v
<1>4. succ = Me(u) \/ succ.uuid \in S
  <2>1. v \in Members /\ Linked(Inside, v, router[v]) /\ Me(v).uuid = v
    BY <1>2, <1>3 DEF Rooted
  <2>2. CASE has_successor(router[v])
    BY <1>2, <2>1, <2>2, Neighbours DEF successor_or_self
  <2>3. CASE ~has_successor(router[v])
    BY <1>2, <1>3, <2>1, <2>3 DEF successor_or_self
  <2> QED  BY <2>2, <2>3
<1> HIDE DEF succ
<1>5. Aimed(S, u, m)
  BY <1>4 DEF Aimed, m
<1> QED  BY <1>0, <1>1, <1>5, RootsAdvance DEF S

(* It forwards to peers inside.                                            *)
LEMMA SuccessorForwardsRoots ==
    ASSUME Spread, OneCreator, IInvJoins, StillJoins', Growing, Ordered', RootInv, Led,
           NEW u \in Members, SuccessorForwards(u)
    PROVE  RootInv'
<1> DEFINE p == proc[u]["fix"]
           v == p.target
           c == closest_preceding_nodes(Me(v), router[v], p.id)
           m == [p EXCEPT !.pc = "successor", !.target = Head(c).uuid,
                          !.caller = v, !.stack = Push(@, v, c)]
           S == Inside'
<1>0. /\ p.pc = "probe" /\ Goto(u, "fix", m) /\ "fix" \in Kind /\ UNCHANGED router
      /\ Pc(u, "fix") # "idle"
  BY Kinds DEF SuccessorForwards, Pc
<1>1. Goes
  BY SuccessorForwardsJoins
<1> HIDE DEF m
<1>2. /\ Message(p) /\ Aimed(Inside, u, p) /\ Sound(Up, u, router[u], p) /\ u \in Up
      /\ Inside \subseteq S /\ S \in SUBSET Members /\ Inside \in SUBSET Members
      /\ (has_successor(router[u]) => u \in Inside)
      /\ \A w \in Members : Fit(w, router[w]) /\ Rooted(Inside, w, router[w])
  BY <1>0, <1>1, Underway, AllRooted
<1>3. u \in Inside
  BY <1>1, <1>2, ForwardsJoined DEF Goes
<1> HIDE DEF p, S
<1>4. (v = u /\ p.caller = u) \/ (v \in Inside /\ p.caller \in Inside)
  BY <1>0, <1>2, AimedLookup
<1>5. v \in Inside /\ v \in S /\ p.id \in Uuid
  <2>1. Seeks(Up, u, router[u], p)
    BY <1>0, <1>2, SoundSeeks
  <2> QED  BY <1>2, <1>3, <1>4, <2>1 DEF Seeks
<1>6. m.pc = "successor" /\ m.target = Head(c).uuid /\ m.caller = v
  <2>1. Lookup(p)
    BY <1>0, <1>2, LookupMessage
  <2> HIDE DEF c, v
  <2> QED  BY <2>1 DEF m, Lookup
<1> HIDE DEF v
<1>7. Linked(S, v, router[v]) /\ router[v] \in RouterState
  BY <1>2, <1>5, GrowLinked DEF Rooted, Fit
<1>8. Leads(S, v, p.id, c)
  BY <1>2, <1>5, <1>7, Candidates
<1> HIDE DEF c
<1>9. Head(c).uuid \in S
  <2>1. Head(c) = c[1] /\ 1 \in 1 .. Len(c)
    BY <1>8 DEF Leads
  <2> QED  BY <1>8, <2>1 DEF Leads
<1>10. Aimed(S, u, m)
  BY <1>5, <1>6, <1>9, AimedLookup
<1> QED  BY <1>0, <1>1, <1>10, RootsAdvance DEF S

(* Service::fix_fingers, the answer.                                       *)
LEMMA FixReplyRoots ==
    ASSUME Spread, OneCreator, IInvJoins, StillJoins', Growing, Ordered', RootInv, Led,
           NEW u \in Members, FixReply(u)
    PROVE  RootInv'
<1> DEFINE p == proc[u]["fix"]
           q == IF p.succ = Me(u) THEN remove(Me(u), router[u], p.id)
                ELSE update(Me(u), router[u], p.succ)
           S == Inside'
<1>0. /\ p.pc = "fixed" /\ SetRouter(u, q) /\ Goto(u, "fix", Idle) /\ "fix" \in Kind
      /\ Pc(u, "fix") # "idle"
      /\ p.succ = Me(u) => ~Serving(p.id) \/ UNCHANGED router
  BY Kinds DEF FixReply, RemovePeer, Notes, StillJoins, Pc
<1>1. Goes
  BY FixReplyJoins
<1> HIDE DEF q
<1>2. Message(p) /\ Aimed(Inside, u, p) /\ Sound(Up, u, router[u], p)
  BY <1>0, <1>1, Underway
<1>3. /\ Routers /\ Inside \subseteq S /\ S \in SUBSET Members /\ Root \in S
      /\ Fit(u, router[u]) /\ Rooted(Inside, u, router[u]) /\ Inside \subseteq Up
  BY <1>1, AllRooted DEF Inside
<1> HIDE DEF p, S
<1>4. /\ p.succ \in Node
      /\ p.succ = Me(u) \/ (has_successor(router[u]) /\ p.succ.uuid \in S)
  BY <1>0, <1>2, <1>3 DEF Sound, Message, Aimed
<1>5. Rooted(S, u, router[u])
  BY <1>3, GrowRooted
<1>6. Rooted(S, u, q)
  <2>1. CASE p.succ = Me(u)
    <3>1. CASE p.id \notin Up
      <4>1. remove(Me(u), router[u], p.id) = router[u]
        BY <1>3, <3>1, RemoveAbsent DEF Fit, Rooted
      <4> QED  BY <1>5, <2>1, <4>1 DEF q
    <3>2. CASE UNCHANGED router
      BY <1>0, <1>3, <1>5, <3>2 DEF SetRouter, Routers
    <3> QED  BY <1>0, <2>1, <3>1, <3>2 DEF Up
  <2>2. CASE p.succ # Me(u)
    <3>1. q = update(Me(u), router[u], p.succ)
      BY <2>2 DEF q
    <3> QED  BY <1>3, <1>4, <1>5, <2>2, <3>1, RootedUpdate
  <2> QED  BY <2>1, <2>2
<1>7. \A w \in Members : router'[w] = router[w] \/ Rooted(S, w, router'[w])
  BY <1>0, <1>3, <1>6, RootsSet
<1>8. Aimed(S, u, Idle)
  BY <1>3, AimedEnds
<1> QED  BY <1>0, <1>1, <1>7, <1>8, RootsAdvance DEF S

-----------------------------------------------------------------------------
(* In the beginning nobody knows anybody.                                  *)
LEMMA InitiallyRing == Init => IInvRing
<1> SUFFICES ASSUME Init PROVE RootInv /\ Led
  BY InitiallyJoins DEF IInvRing
<1>1. ASSUME NEW u \in Members PROVE Rooted(Inside, u, router[u])
  <2>1. router[u] = EmptyRouter /\ 0 \in Index
    BY BitsAssumption DEF Init, Index
  <2>2. ~has_predecessor(EmptyRouter) /\ \A i \in Index : ~Valid(EmptyRouter, i)
    BY DEF has_predecessor, Valid, EmptyRouter
  <2> QED  BY <2>1, <2>2 DEF Rooted, Linked, has_successor
<1>2. ASSUME NEW u \in Members, NEW k \in Kind PROVE Aimed(Inside, u, proc[u][k])
  <2>1. proc[u][k] = Idle \/ proc[u][k] = Ready
    BY DEF Init
  <2>2. Aimed(Inside, u, Idle) /\ Aimed(Inside, u, Ready)
    BY DEF Aimed, Idle, Ready
  <2> QED  BY <2>1, <2>2
<1>3. Led
  BY OverlayAssumption DEF Led, Init, Up, Serving
<1> QED  BY <1>1, <1>2, <1>3 DEF RootInv

(* Every step after which peers have only joined keeps the ring rooted.    *)
LEMMA StepRoots ==
    ASSUME Spread, OneCreator, IInvJoins, StillJoins', Growing, Ordered', RootInv, Led,
           NEW u \in Members,
           Step(u) \/ StopBegin(u) \/ Crash(u)
    PROVE  RootInv'
<1>1. CASE Main(u) \/ StopBegin(u) \/ Crash(u)
  BY <1>1, StartRoots, NobodyStops, NobodyLeaves DEF Main
<1>2. ASSUME NEW k \in JoinKind, Join(u, k) PROVE RootInv'
  BY <1>2, JoinForwardRoots, JoinAnswerRoots, JoinFailsRoots, JoinReplyRoots,
     NotifyPredecessorRoots, NotifyNextRoots, NotifySuccessorRoots, JoinFailedJoins DEF Join
<1>3. CASE Stabilize(u) \/ Check(u)
  BY <1>3, StabilizeBeginRoots, StabilizeHandledRoots, StabilizeFailsJoins, StabilizeReplyRoots,
     StabilizeNotifyRoots, CheckRoots DEF Stabilize
<1>4. CASE FixFingers(u)
  BY <1>4, FixBeginRoots, SuccessorArrivesRoots, SuccessorProbesJoins, SuccessorAnswersRoots,
     SuccessorForwardsRoots, SuccessorFailsJoins, FixReplyRoots DEF FixFingers
<1> QED  BY <1>1, <1>2, <1>3, <1>4 DEF Step

(* Only ChordFacade::start makes a peer come up.                           *)
LEMMA ComesUp ==
    ASSUME NEW u \in Members, Step(u) \/ StopBegin(u) \/ Crash(u), Others
    PROVE  Start(u) \/ Up' \subseteq Up
<1>1. CASE Main(u) \/ StopBegin(u) \/ Crash(u)
  BY <1>1 DEF Main, LeaveSuccessor, LeaveNext, LeavePredecessor, Exit, StopBegin, Crash,
              Dies, Up, Serving, Others
<1>2. ASSUME NEW k \in JoinKind, Join(u, k) PROVE Up' \subseteq Up
  BY <1>2 DEF Join, JoinForward, JoinAnswer, JoinFails, JoinReply, NotifyPredecessor, NotifyNext,
              NotifySuccessor, JoinFailed, JoinUndefined, Dies, Up, Serving, Others
<1>3. CASE Stabilize(u) \/ Check(u)
  BY <1>3 DEF Stabilize, StabilizeBegin, StabilizeHandled, StabilizeFails, StabilizeReply, StabilizeNotify,
              Check, CheckBegin, CheckPing, Up, Serving
<1>4. CASE FixFingers(u)
  BY <1>4 DEF FixFingers, FixBegin, SuccessorArrives, SuccessorProbes, SuccessorAnswers,
              SuccessorForwards, SuccessorFails, FixReply, Up, Serving
<1> QED  BY <1>1, <1>2, <1>3, <1>4 DEF Step

(* A peer is started when the one it is configured to join is inside.      *)
LEMMA StepLed ==
    ASSUME IInvJoins, Goes, Ordered', Led, NEW u \in Members, Step(u) \/ StopBegin(u) \/ Crash(u)
    PROVE  Led'
<1>1. Others /\ Inside \subseteq Inside'
  BY Parts, GrowInside DEF IInvJoins, Goes
<1>2. CASE Start(u)
  <2>1. JoinAddr[u] \in Inside
    BY <1>2 DEF Start, Notes, Ordered
  <2>2. Up' \subseteq Up \cup {u}
    BY <1>1, <1>2 DEF Start, Up, Serving, Others
  <2> QED  BY <1>1, <2>1, <2>2 DEF Led
<1>3. CASE Up' \subseteq Up
  BY <1>1, <1>3 DEF Led
<1> QED  BY <1>1, <1>2, <1>3, ComesUp

(* The invariant is inductive.                                             *)
LEMMA NextRing ==
    ASSUME Spread, OneCreator, IInvRing, [Next]_vars
    PROVE  IInvRing'
<1>1. IInvJoins /\ IInvJoins'
  BY NextJoins DEF IInvRing
<1>2. ASSUME StillJoins', Ordered' PROVE RootInv' /\ Led'
  <2>1. CASE UNCHANGED vars
    <3>1. StillJoins /\ Ordered
      BY <1>2, <2>1 DEF StillJoins, Ordered, vars, Up, Serving, Pc
    <3>2. RootInv /\ Led
      BY <3>1 DEF IInvRing
    <3> QED  BY <2>1, <3>2 DEF RootInv, Led, Inside, vars, Up, Serving
  <2>2. ASSUME NEW u \in Members, Step(u) \/ StopBegin(u) \/ Crash(u) PROVE RootInv' /\ Led'
    <3>1. Growing /\ Goes
      BY <1>1, <1>2, <2>2, MishapsGrow, StepJoins
    <3>2. RootInv /\ Led
      BY <1>2, <3>1 DEF IInvRing, Goes, Growing, Ordered
    <3> QED  BY <1>1, <1>2, <2>2, <3>1, <3>2, StepRoots, StepLed
  <2> QED  BY <2>1, <2>2 DEF Next, Rest
<1> QED  BY <1>1, <1>2 DEF IInvRing

-----------------------------------------------------------------------------
(* The peers of S and their successors.                                    *)
Onward(S) == S \cup {Succ(v) : v \in S}

(* f holds the peers reached from u in so many steps: Reachable, step by   *)
(* step.                                                                   *)
Walk(u, f, last) == f = [n \in 0 .. last |-> IF n = 0 THEN {u} ELSE Onward(f[n - 1])]

(* The recursive definition of Reachable defines a function.               *)
LEMMA WalkExists ==
    ASSUME NEW u, NEW last \in Nat
    PROVE  \E f : Walk(u, f, last)
<1> DEFINE S == {n \in 0 .. last : \E f : Walk(u, f, n)}
<1>1. 0 \in S
  <2>1. Walk(u, [n \in 0 .. 0 |-> {u}], 0)
    BY DEF Walk
  <2>2. 0 \in 0 .. last
    OBVIOUS
  <2> QED  BY <2>1, <2>2
<1>2. ASSUME NEW n \in 0 .. last, n \in S, n < last PROVE n + 1 \in S
  <2>1. PICK f : Walk(u, f, n)
    BY <1>2
  <2> DEFINE g == [k \in 0 .. (n + 1) |-> IF k = n + 1 THEN Onward(f[n]) ELSE f[k]]
  <2>2. \A k \in 0 .. n : g[k] = f[k] /\ k \in 0 .. (n + 1) /\ k # n + 1
    OBVIOUS
  <2>3. \A k \in 0 .. n : f[k] = IF k = 0 THEN {u} ELSE Onward(f[k - 1])
    BY <2>1 DEF Walk
  <2>4. ASSUME NEW k \in 0 .. (n + 1)
        PROVE  g[k] = IF k = 0 THEN {u} ELSE Onward(g[k - 1])
    <3>1. CASE k = n + 1
      <4>1. k - 1 = n /\ k # 0 /\ n \in 0 .. n
        BY <3>1
      <4>2. g[k - 1] = f[n]
        BY <2>2, <4>1
      <4>3. g[k] = Onward(f[n])
        BY <3>1
      <4> QED  BY <4>1, <4>2, <4>3
    <3>2. CASE k # n + 1
      <4>1. k \in 0 .. n /\ (k = 0 \/ k - 1 \in 0 .. n)
        BY <3>2
      <4>2. g[k] = f[k] /\ (k = 0 \/ g[k - 1] = f[k - 1])
        BY <2>2, <4>1
      <4> QED  BY <2>3, <4>1, <4>2
    <3> QED  BY <3>1, <3>2
  <2>5. Walk(u, g, n + 1)
    <3>1. g = [k \in 0 .. (n + 1) |-> g[k]]
      OBVIOUS
    <3> HIDE DEF g
    <3> QED  BY <2>4, <3>1 DEF Walk
  <2>6. n + 1 \in 0 .. last
    BY <1>2
  <2> QED  BY <2>5, <2>6
<1>3. last \in S
  <2> HIDE DEF S
  <2>1. \A k \in 0 .. last : k \in S
    BY <1>1, <1>2, UpTo
  <2> QED  BY <2>1
<1> QED  BY <1>3

(* The successor of a peer inside is inside, and nearer to the creator.    *)
LEMMA SuccNearer ==
    ASSUME OneCreator, JoinInv, RootInv, NEW v \in Inside
    PROVE  /\ Succ(v) \in Inside
           /\ v # Root => /\ Distance(Succ(v), Root) < Distance(v, Root)
                          /\ Distance(Succ(v), Root) \in Nat /\ Distance(v, Root) \in Nat
<1>1. /\ Root \in Uuid /\ Inside \in SUBSET Members
      /\ v # Root => has_successor(router[v])
  BY RootInside
<1>2. v \in Members /\ v \in Uuid /\ Rooted(Inside, v, router[v]) /\ Me(v).uuid = v
  BY <1>1, NodesMade, OverlayAssumption DEF RootInv
<1>3. /\ has_successor(router[v]) => Succ(v) = successor(router[v]).uuid /\ Succ(v) \in Inside \ {v}
      /\ ~has_successor(router[v]) => Succ(v) = v
  BY <1>2, Neighbours DEF Succ, successor_or_self, Rooted
<1>4. Succ(v) \in Inside /\ Succ(v) \in Uuid
  BY <1>1, <1>2, <1>3, OverlayAssumption
<1>5. ASSUME v # Root
      PROVE  /\ Distance(Succ(v), Root) < Distance(v, Root)
             /\ Distance(Succ(v), Root) \in Nat /\ Distance(v, Root) \in Nat
  <2>1. Succ(v) # v /\ Distance(v, Succ(v)) <= Distance(v, Root)
    BY <1>1, <1>2, <1>3, <1>5 DEF Rooted, Faces
  <2> QED  BY <1>1, <1>2, <1>4, <1>5, <2>1, Descends, DistNat
<1> QED  BY <1>4, <1>5

(* So peers from which the creator is not yet reached lead to a new one.   *)
LEMMA LeadsOn ==
    ASSUME OneCreator, JoinInv, RootInv, NEW A \in SUBSET Inside, A # {}, Root \notin A
    PROVE  \E v \in A : Succ(v) \notin A
<1> DEFINE D == {Distance(v, Root) : v \in A}
<1>1. \A v \in A : Distance(v, Root) \in Nat /\ Distance(Succ(v), Root) < Distance(v, Root)
  BY SuccNearer
<1>2. D \in SUBSET Nat /\ D # {}
  BY <1>1
<1>3. PICK d \in D : \A e \in D : d <= e
  <2> HIDE DEF D
  <2> QED  BY <1>2, FirstOfNat
<1>4. PICK v \in A : d = Distance(v, Root)
  OBVIOUS
<1>5. ASSUME Succ(v) \in A PROVE FALSE
  <2>1. Distance(v, Root) <= Distance(Succ(v), Root)
    BY <1>3, <1>4, <1>5
  <2> QED  BY <1>1, <1>5, <2>1
<1> QED  BY <1>5

(* There are finitely many peers.                                          *)
LEMMA FinitelyMany == IsFiniteSet(Members) /\ Cardinality(Members) \in Nat
<1>1. IsFiniteSet(Uuid)
  BY RingFacts, FS_Interval DEF Uuid
<1> QED  BY <1>1, FS_Subset, FS_CardinalityType, OverlayAssumption

(* After as many steps as there are peers the creator has been reached.    *)
LEMMA ReachesRoot ==
    ASSUME OneCreator, JoinInv, RootInv, NEW u \in Inside
    PROVE  Root \in Reachable(u)
<1> DEFINE N == Cardinality(Members)
           F == CHOOSE f : Walk(u, f, N)
           Far(A) == /\ A \in SUBSET Inside /\ A # {} /\ IsFiniteSet(A)
           S == {n \in 0 .. N : Far(F[n]) /\ (Root \in F[n] \/ Cardinality(F[n]) > n)}
<1>0. IsFiniteSet(Members) /\ N \in Nat
  BY FinitelyMany
<1>1. Reachable(u) = F[N]
  BY DEF Reachable, Walk, Onward
<1>2. Walk(u, F, N)
  <2>1. \E f : Walk(u, f, N)
    BY <1>0, WalkExists
  <2> QED  BY <2>1
<1>3. \A k \in 0 .. N : F[k] = IF k = 0 THEN {u} ELSE Onward(F[k - 1])
  <2> HIDE DEF F
  <2> QED  BY <1>2 DEF Walk
<1> HIDE DEF F, N
<1>4. 0 \in S
  <2>1. F[0] = {u} /\ 0 \in 0 .. N
    BY <1>0, <1>3
  <2>2. IsFiniteSet({u}) /\ Cardinality({u}) = 1
    BY FS_Singleton
  <2> QED  BY <2>1, <2>2
<1>5. ASSUME NEW k \in 0 .. N, k \in S, k < N PROVE k + 1 \in S
  <2> DEFINE A == F[k]
             B == F[k + 1]
  <2>1. k + 1 \in 0 .. N /\ B = Onward(A)
    <3>1. k + 1 \in 0 .. N /\ k + 1 # 0 /\ (k + 1) - 1 = k
      BY <1>0, <1>5
    <3> QED  BY <1>3, <3>1
  <2>2. Far(A) /\ (Root \in A \/ Cardinality(A) > k)
    BY <1>5
  <2> HIDE DEF A, B
  <2>3. A \subseteq B /\ B \in SUBSET Inside /\ B # {}
    BY <2>1, <2>2, SuccNearer DEF Onward
  <2>4. IsFiniteSet(B)
    <3>1. B \in SUBSET Members
      BY <2>3 DEF Inside, Up
    <3> QED  BY <1>0, <3>1, FS_Subset
  <2>5. Root \in B \/ Cardinality(B) > k + 1
    <3> SUFFICES ASSUME Root \notin B PROVE Cardinality(B) > k + 1
      OBVIOUS
    <3>1. Root \notin A /\ Cardinality(A) > k /\ Cardinality(A) \in Nat
      BY <2>2, <2>3, FS_CardinalityType
    <3>2. PICK v \in A : Succ(v) \notin A
      BY <2>2, <3>1, LeadsOn
    <3>3. A \cup {Succ(v)} \in SUBSET B
      BY <2>1, <2>3 DEF Onward
    <3>4. Cardinality(A \cup {Succ(v)}) = Cardinality(A) + 1
      BY <2>2, <3>2, FS_AddElement
    <3>5. Cardinality(A \cup {Succ(v)}) <= Cardinality(B) /\ Cardinality(B) \in Nat
      BY <2>4, <3>3, FS_Subset, FS_CardinalityType
    <3> QED  BY <3>1, <3>4, <3>5
  <2> QED  BY <2>1, <2>3, <2>4, <2>5 DEF B
<1>6. N \in S
  <2> HIDE DEF S
  <2>1. \A k \in 0 .. N : k \in S
    BY <1>0, <1>4, <1>5, UpTo
  <2> QED  BY <1>0, <2>1
<1>7. F[N] \in SUBSET Members
  BY <1>6 DEF Inside, Up
<1>8. Cardinality(F[N]) <= N /\ Cardinality(F[N]) \in Nat
  <2>1. IsFiniteSet(F[N])
    BY <1>6
  <2> QED  BY <1>0, <1>7, <2>1, FS_Subset, FS_CardinalityType DEF N
<1> QED  BY <1>0, <1>1, <1>6, <1>8

(* ChordFacade::join and Service::join, notify and successor never split   *)
(* the ring: however joins, stabilisations and lookups of any number of    *)
(* peers overlap, whoever has a successor finds the peer that created the  *)
(* ring by following successors, while nobody leaves, crashes or misses a  *)
(* deadline.  Each may join any peer of the ring: when one joins through   *)
(* another that is itself still joining, the two make a ring of their own. *)
THEOREM OneRingHolds == ASSUME Spread, OneCreator PROVE Spec => []OneRing
<1>1. Init => IInvRing
  BY InitiallyRing
<1>2. IInvRing /\ [Next]_vars => IInvRing'
  BY NextRing
<1>3. IInvRing => OneRing
  <2> SUFFICES ASSUME IInvRing, InOrder, NEW u \in Up, has_successor(router[u])
               PROVE  Reachable(u) \cap Bootstrap # {}
    BY DEF OneRing
  <2>1. StillJoins /\ Ordered
    BY DEF StillJoins, Ordered, InOrder, OnlyJoins, Leaving
  <2>2. JoinInv /\ RootInv
    BY <2>1 DEF IInvRing, IInvJoins
  <2>3. u \in Inside
    BY DEF Inside
  <2> QED  BY <2>2, <2>3, ReachesRoot DEF OneCreator
<1> QED  BY <1>1, <1>2, <1>3, PTL DEF Spec

-----------------------------------------------------------------------------
(***************************************************************************)
(* CalmIdeal and LookupCorrect of Overlay, while peers only join and do so *)
(* one after the other: the joins leave a perfect ring behind, and lookups *)
(* that run meanwhile find the right peer.                                 *)
(***************************************************************************)
(* The neighbours of u are as near as any peer of S.                       *)
Near(S, u, r) ==
    \A v \in S \ {u} :
        /\ has_successor(r)
        /\ Distance(u, successor(r).uuid) <= Distance(u, v)
        /\ Distance(r.predecessor.uuid, u) <= Distance(v, u)

(* The peers that are farther before u than v is.                          *)
Beyond(v, u) == {w \in Members : Distance(v, u) < Distance(w, u)}

(* How far the join p of u is, when S have joined: on its way it gets      *)
(* nearer to u; its answer names the neighbours u will have.               *)
Placed(S, u, r, p) ==
    /\ p.pc \in {"join", "joined"} => ~has_successor(r)
    /\ p.pc = "join" => /\ Len(p.stack) <= Cardinality(Beyond(p.target, u))
                        /\ \A i \in 1 .. Len(p.stack) : p.stack[i].at \in S
    /\ p.pc = "joined" =>
          \A v \in S : /\ Distance(u, p.succ.uuid) <= Distance(u, v)
                       /\ Distance(p.pred.uuid, u) <= Distance(v, u)
    /\ p.pc = "notify_pred" => \A v \in S : Distance(p.target, u) <= Distance(v, u)
    /\ p.pc = "notify_succ" => \A v \in S : Distance(u, p.target) <= Distance(u, v)

(* Nobody of S skips u.                                                    *)
Told(S, u) ==
    \A v \in S : /\ has_successor(router[v])
                 /\ Distance(v, successor(router[v]).uuid) <= Distance(v, u)

(* What the task p of u does: no join, but for the creator's own, and      *)
(* lookups that know S.                                                    *)
Attends(S, u, p) ==
    /\ p # Idle => u \in S
    /\ p.pc \in JoinPc => p.pc = "join" /\ u = Root
    /\ p.pc \in {"successor", "probe"} => p.ring \subseteq S
    /\ p.pc = "fixed" => \A v \in p.ring : Distance(p.id, p.succ.uuid) <= Distance(p.id, v)

CalmInv ==
    /\ Settled \subseteq Inside /\ Root \in Settled
    /\ \A u, v \in Up \ Settled : u = v
    /\ \A u \in Members : has_successor(router[u]) => u \in Up
    /\ \A u \in Inside : Near(Settled, u, router[u])
    /\ \A u \in Up \ Settled :
          /\ Placed(Settled, u, router[u], proc[u]["main"])
          /\ Pc(u, "main") \in {"notified_pred", "notify_succ"} => Told(Settled, u)
    /\ \A u \in Members, k \in Task : Attends(Settled, u, proc[u][k])

(* What is known in a step.                                                *)
Ongoing ==
    /\ IInvJoins /\ Goes /\ StillJoins' /\ Growing /\ Ordered'
    /\ RootInv /\ RootInv' /\ Led /\ CalmInv

(* The hypotheses: changes do not overlap, and no join is given up because *)
(* it was forwarded too often.                                             *)
OneByOne == MaxChanges <= 1 /\ MaxDepth >= Cardinality(Members)

(* The neighbours of u come no farther away.                               *)
Tightens(u, r, q) ==
    has_successor(r) =>
        /\ has_successor(q)
        /\ Distance(u, successor(q).uuid) <= Distance(u, successor(r).uuid)
        /\ Distance(q.predecessor.uuid, u) <= Distance(r.predecessor.uuid, u)

-----------------------------------------------------------------------------
(* Of two peers before u, the farther one comes to the nearer one first.   *)
LEMMA FirstAhead ==
    ASSUME NEW u \in Uuid, NEW v \in Uuid, NEW w \in Uuid, Distance(v, u) <= Distance(w, u)
    PROVE  Distance(w, v) <= Distance(w, u)
  BY RingFacts DEF Distance, Uuid

(* The same of two peers after u.                                          *)
LEMMA FirstBehind ==
    ASSUME NEW u \in Uuid, NEW v \in Uuid, NEW w \in Uuid, Distance(u, v) <= Distance(u, w)
    PROVE  Distance(v, w) <= Distance(u, w)
  BY RingFacts DEF Distance, Uuid

(* Peers at the same distance are the same.                                *)
LEMMA SamePlace ==
    ASSUME NEW u \in Uuid, NEW v \in Uuid, NEW w \in Uuid
    PROVE  /\ Distance(u, v) = Distance(u, w) => v = w
           /\ Distance(v, u) = Distance(w, u) => v = w
  BY RingFacts DEF Distance, Uuid

(* A router whose nodes are peers: its neighbours are at a distance.       *)
LEMMA NeighboursAway ==
    ASSUME NEW S \in SUBSET Members, NEW u \in Members, NEW r, Linked(S, u, r), has_successor(r)
    PROVE  /\ successor(r).uuid \in Uuid /\ r.predecessor.uuid \in Uuid /\ u \in Uuid
           /\ Distance(u, successor(r).uuid) \in Nat /\ Distance(r.predecessor.uuid, u) \in Nat
<1>1. successor(r).uuid \in Uuid /\ r.predecessor.uuid \in Uuid /\ u \in Uuid
  BY Neighbours, OverlayAssumption
<1> QED  BY <1>1, DistNat

(* Router::update tightens.                                                *)
LEMMA TightUpdate ==
    ASSUME Spread, NEW S \in SUBSET Members, NEW u \in Members, NEW r, Fit(u, r), Linked(S, u, r),
           NEW n \in Node, n.uuid \in S, n.uuid # u \/ n = Me(u) \/ has_successor(r),
           NEW q, q = update(Me(u), r, n)
    PROVE  Tightens(u, r, q)
  BY UpdateNear, LinkedUpdate DEF Tightens

(* What tightens twice tightens.                                           *)
LEMMA TightTwice ==
    ASSUME NEW S \in SUBSET Members, NEW u \in Members, NEW r, NEW q, NEW s,
           Linked(S, u, r), Linked(S, u, q), Linked(S, u, s), Tightens(u, r, q), Tightens(u, q, s)
    PROVE  Tightens(u, r, s)
<1> SUFFICES ASSUME has_successor(r) PROVE Tightens(u, r, s)
  BY DEF Tightens
<1>1. has_successor(q) /\ has_successor(s)
  BY DEF Tightens
<1>2. /\ Distance(u, successor(r).uuid) \in Nat /\ Distance(r.predecessor.uuid, u) \in Nat
      /\ Distance(u, successor(q).uuid) \in Nat /\ Distance(q.predecessor.uuid, u) \in Nat
      /\ Distance(u, successor(s).uuid) \in Nat /\ Distance(s.predecessor.uuid, u) \in Nat
  BY <1>1, NeighboursAway
<1> QED  BY <1>1, <1>2 DEF Tightens

(* A peer whose neighbours tighten stays near.                             *)
LEMMA NearTight ==
    ASSUME NEW S \in SUBSET Members, NEW T \in SUBSET Members, NEW u \in Members, NEW r, NEW q,
           Linked(S, u, r), Linked(S, u, q), Near(T, u, r), Tightens(u, r, q)
    PROVE  Near(T, u, q)
<1> SUFFICES ASSUME NEW v \in T \ {u}
             PROVE  /\ has_successor(q)
                    /\ Distance(u, successor(q).uuid) <= Distance(u, v)
                    /\ Distance(q.predecessor.uuid, u) <= Distance(v, u)
  BY DEF Near
<1>1. has_successor(r) /\ has_successor(q) /\ u \in Uuid /\ v \in Uuid
  BY OverlayAssumption DEF Near, Tightens
<1>2. /\ Distance(u, successor(r).uuid) \in Nat /\ Distance(r.predecessor.uuid, u) \in Nat
      /\ Distance(u, successor(q).uuid) \in Nat /\ Distance(q.predecessor.uuid, u) \in Nat
      /\ Distance(u, v) \in Nat /\ Distance(v, u) \in Nat
  BY <1>1, NeighboursAway, DistNat
<1> QED  BY <1>1, <1>2 DEF Near, Tightens

-----------------------------------------------------------------------------
(* What is known in every step.                                            *)
LEMMA AllCalm ==
    ASSUME OneCreator, Ongoing
    PROVE  /\ Others /\ Routers /\ Procs /\ timeouts = 0 /\ timeouts' = 0
           /\ Up \in SUBSET Members /\ Up \subseteq Up' /\ Up' \in SUBSET Members
           /\ Inside \in SUBSET Members /\ Inside' \in SUBSET Members /\ Inside \in SUBSET Up
           /\ Settled \in SUBSET Inside /\ Settled \in SUBSET Members
           /\ Root \in Inside
           /\ \A u \in Inside : u = Root \/ has_successor(router[u])
           /\ \A u \in Members :
                 /\ u \in Uuid /\ Me(u) \in Node /\ Me(u).uuid = u /\ Fit(u, router[u])
                 /\ Linked(Inside, u, router[u]) /\ Linked(Inside', u, router[u])
                 /\ Linked(Inside', u, router'[u])
<1>1. Others /\ Routers /\ Procs
  BY Parts DEF Ongoing, IInvJoins
<1>2. /\ Inside \in SUBSET Members /\ Inside' \in SUBSET Members /\ Root \in Inside
      /\ Inside \subseteq Inside' /\ Inside \in SUBSET Up
      /\ \A w \in Inside : w = Root \/ has_successor(router[w])
      /\ \A w \in Members : /\ Fit(w, router[w]) /\ Rooted(Inside, w, router[w])
                            /\ w \in Uuid /\ Me(w) \in Node /\ Me(w).uuid = w
  BY AllRooted, RootInside DEF Ongoing, Goes
<1>3. ASSUME NEW u \in Members
      PROVE  /\ Linked(Inside, u, router[u]) /\ Linked(Inside', u, router[u])
             /\ Linked(Inside', u, router'[u])
  <2>1. Linked(Inside, u, router[u])
    BY <1>2 DEF Rooted
  <2>2. Rooted(Inside', u, router'[u])
    BY DEF Ongoing, RootInv
  <2> QED  BY <1>2, <2>1, <2>2, GrowLinked DEF Rooted
<1>4. timeouts = 0 /\ timeouts' = 0 /\ Up \subseteq Up'
  BY DEF Ongoing, Goes, StillJoins
<1>5. Up \in SUBSET Members /\ Up' \in SUBSET Members
  BY DEF Up
<1>6. Settled \in SUBSET Inside /\ Settled \in SUBSET Members
  BY <1>2 DEF Ongoing, CalmInv
<1> QED  BY <1>1, <1>2, <1>3, <1>4, <1>5, <1>6

(* What is known of a task that has begun, and of a join.                  *)
LEMMA JoinsInMain ==
    ASSUME OneCreator, Ongoing, NEW u \in Members, NEW k \in JoinKind, Pc(u, k) \in JoinPc,
           Pc(u, k) = "join" => k = "main"
    PROVE  /\ k = "main" /\ u \in Up \ Settled /\ Up \ Settled = {u}
           /\ Placed(Settled, u, router[u], proc[u]["main"])
           /\ Pc(u, "main") \in {"notified_pred", "notify_succ"} => Told(Settled, u)
<1>1. k = "main"
  BY DEF Ongoing, CalmInv, Attends, JoinKind, Task, Pc
<1>2. "main" \in Kind /\ Pc(u, "main") # "idle" /\ Pc(u, "main") # "ready"
  BY <1>1 DEF Kind, JoinPc
<1>3. u \in Up
  BY <1>2, Underway DEF Ongoing
<1>4. u \in Up \ Settled
  BY <1>2, <1>3 DEF Settled
<1> QED  BY <1>1, <1>4 DEF Ongoing, CalmInv

(* A step that leaves the joins alone.                                     *)
LEMMA Tends ==
    ASSUME OneCreator, Ongoing, UNCHANGED status,
           \A w \in Members : Tightens(w, router[w], router'[w]),
           \A w \in Members \ Inside : router'[w] = router[w],
           NEW u \in Members, NEW k \in Task, NEW p, Goto(u, k, p), Attends(Settled, u, p)
    PROVE  CalmInv'
<1>0. /\ Procs /\ Inside \in SUBSET Members /\ Inside \in SUBSET Up /\ Settled \in SUBSET Inside
      /\ Settled \in SUBSET Members /\ Inside' \in SUBSET Members /\ Root \in Inside
      /\ \A w \in Members : /\ Linked(Inside', w, router[w]) /\ Linked(Inside', w, router'[w])
                            /\ w \in Uuid
  BY AllCalm
<1>1. "main" \in Kind /\ Task \subseteq Kind /\ "main" \notin Task
  BY DEF Kind, Task
<1>2. /\ \A w \in Members : proc'[w]["main"] = proc[w]["main"]
      /\ proc'[u][k] = p /\ \A w \in Members, j \in Task : w # u \/ j # k => proc'[w][j] = proc[w][j]
  BY <1>0, <1>1, ProcAfter
<1>3. Up' = Up /\ Settled' = Settled
  <2>1. Up' = Up
    BY DEF Up, Serving
  <2> QED  BY <1>2, <2>1 DEF Settled, Pc, Up
<1>4. Inside' = Inside
  <2>1. Inside \subseteq Inside'
    BY GrowInside DEF Ongoing, Goes
  <2>2. ASSUME NEW w \in Inside' PROVE w \in Inside
    BY <1>0, <1>3 DEF Inside
  <2> QED  BY <2>1, <2>2
<1>5. \A w \in Members : has_successor(router'[w]) => w \in Up
  BY <1>0 DEF Ongoing, CalmInv
<1>6. ASSUME NEW w \in Inside PROVE Near(Settled, w, router'[w])
  <2>1. Near(Settled, w, router[w])
    BY DEF Ongoing, CalmInv
  <2> QED  BY <1>0, <2>1, NearTight
<1>7. ASSUME NEW w \in Up \ Settled
      PROVE  /\ Placed(Settled, w, router'[w], proc'[w]["main"])
             /\ Pc(w, "main")' \in {"notified_pred", "notify_succ"} => Told(Settled, w)'
  <2>1. /\ w \in Members
        /\ Placed(Settled, w, router[w], proc[w]["main"])
        /\ Pc(w, "main") \in {"notified_pred", "notify_succ"} => Told(Settled, w)
    BY DEF Ongoing, CalmInv, Up
  <2>2. proc'[w]["main"] = proc[w]["main"] /\ Pc(w, "main")' = Pc(w, "main")
    BY <1>2, <2>1 DEF Pc
  <2>3. Pc(w, "main") \in {"join", "joined"} => ~has_successor(router'[w])
    <3> SUFFICES ASSUME Pc(w, "main") \in {"join", "joined"} PROVE ~has_successor(router'[w])
      OBVIOUS
    <3>1. ~has_successor(router[w])
      BY <2>1 DEF Placed, Pc
    <3>2. w # Root
      BY DEF Ongoing, CalmInv
    <3>3. w \notin Inside
      BY <3>1, <3>2 DEF Inside, OneCreator
    <3> QED  BY <2>1, <3>1, <3>3
  <2>4. Placed(Settled, w, router'[w], proc'[w]["main"])
    BY <2>1, <2>2, <2>3 DEF Placed, Pc
  <2>5. ASSUME Told(Settled, w), NEW v \in Settled
        PROVE  /\ has_successor(router'[v])
               /\ Distance(v, successor(router'[v]).uuid) <= Distance(v, w)
    <3>1. /\ has_successor(router[v]) /\ Distance(v, successor(router[v]).uuid) <= Distance(v, w)
          /\ v \in Members /\ Tightens(v, router[v], router'[v])
      BY <1>0, <2>5 DEF Told
    <3>2. has_successor(router'[v])
      BY <3>1 DEF Tightens
    <3>3. /\ Distance(v, successor(router[v]).uuid) \in Nat
          /\ Distance(v, successor(router'[v]).uuid) \in Nat /\ Distance(v, w) \in Nat
      BY <1>0, <2>1, <3>1, <3>2, NeighboursAway, DistNat
    <3> QED  BY <3>1, <3>2, <3>3 DEF Tightens
  <2>6. Told(Settled, w) => Told(Settled, w)'
    BY <1>3, <2>5 DEF Told
  <2> QED  BY <2>1, <2>2, <2>4, <2>6
<1>8. ASSUME NEW w \in Members, NEW j \in Task PROVE Attends(Settled, w, proc'[w][j])
  <2>1. Attends(Settled, w, proc[w][j])
    BY DEF Ongoing, CalmInv
  <2> QED  BY <1>2, <2>1
<1>9. (\A w, v \in Up \ Settled : w = v) /\ Settled \subseteq Inside /\ Root \in Settled
  BY DEF Ongoing, CalmInv
<1> QED  BY <1>3, <1>4, <1>5, <1>6, <1>7, <1>8, <1>9 DEF CalmInv

(* A router that stays as it is tightens.                                  *)
LEMMA TightSame ==
    ASSUME NEW S \in SUBSET Members, NEW u \in Members, NEW r, Linked(S, u, r)
    PROVE  Tightens(u, r, r)
<1> SUFFICES ASSUME has_successor(r) PROVE Tightens(u, r, r)
  BY DEF Tightens
<1>1. Distance(u, successor(r).uuid) \in Nat /\ Distance(r.predecessor.uuid, u) \in Nat
  BY NeighboursAway
<1> QED  BY <1>1 DEF Tightens

(* A step of a task that leaves the routers alone ...                      *)
LEMMA TendsAlone ==
    ASSUME OneCreator, Ongoing, UNCHANGED <<status, router>>,
           NEW u \in Members, NEW k \in Task, NEW p, Goto(u, k, p), Attends(Settled, u, p)
    PROVE  CalmInv'
<1>1. /\ Inside' \in SUBSET Members
      /\ \A w \in Members : Linked(Inside', w, router[w]) /\ router'[w] = router[w]
  BY AllCalm
<1>2. \A w \in Members : Tightens(w, router[w], router'[w])
  BY <1>1, TightSame
<1> QED  BY <1>1, <1>2, Tends

(* ... and one by which a peer inside learns.                              *)
LEMMA TendsOne ==
    ASSUME OneCreator, Ongoing, UNCHANGED status,
           NEW v \in Inside, NEW q, SetRouter(v, q), Tightens(v, router[v], q),
           NEW u \in Members, NEW k \in Task, NEW p, Goto(u, k, p), Attends(Settled, u, p)
    PROVE  CalmInv'
<1>1. /\ Inside' \in SUBSET Members /\ Routers /\ Inside \in SUBSET Members
      /\ \A w \in Members : Linked(Inside', w, router[w])
  BY AllCalm
<1>2. router'[v] = q /\ \A w \in Members : w # v => router'[w] = router[w]
  BY <1>1, RootsSet
<1>3. \A w \in Members : Tightens(w, router[w], router'[w])
  BY <1>1, <1>2, TightSame
<1> QED  BY <1>2, <1>3, Tends

(* Tasks run on peers that have joined.                                    *)
LEMMA Tasked ==
    ASSUME OneCreator, Ongoing, NEW u \in Members, NEW k \in Task, Pc(u, k) # "idle"
    PROVE  /\ u \in Settled /\ u \in Inside /\ k \in Kind
           /\ Attends(Settled, u, proc[u][k]) /\ Aimed(Inside, u, proc[u][k])
           /\ Sound(Up, u, router[u], proc[u][k]) /\ Message(proc[u][k])
<1>1. k \in Kind
  BY DEF Kind
<1>2. Attends(Settled, u, proc[u][k]) /\ proc[u][k] # Idle
  BY DEF Ongoing, CalmInv, Pc, Idle
<1>3. u \in Settled /\ u \in Inside
  BY <1>2, AllCalm DEF Attends
<1>4. /\ Message(proc[u][k]) /\ Sound(Up, u, router[u], proc[u][k])
      /\ Aimed(Inside, u, proc[u][k])
  BY <1>1, Underway DEF Ongoing
<1> QED  BY <1>1, <1>2, <1>3, <1>4

(* What begins does so on a peer that has joined.                          *)
LEMMA BeginsSettled ==
    ASSUME OneCreator, Ongoing, NEW u \in Members, NEW k \in Task, Begins(u, k)
    PROVE  u \in Settled /\ u \in Inside
<1>1. u \in Settled
  BY DEF Begins, Settled, Up, Serving
<1> QED  BY <1>1, AllCalm

(* The end of a task; a peer that has joined does not join again, but the  *)
(* one that created the ring may try to.                                   *)
LEMMA AttendsEnds ==
    ASSUME OneCreator, Ongoing, NEW u \in Inside, NEW S, u \in S, NEW r,
           has_successor(router[u]) => has_successor(r)
    PROVE  Attends(S, u, Idle) /\ Attends(S, u, AfterStabilize(u, r))
<1>1. Attends(S, u, Idle)
  BY DEF Attends, Idle, JoinPc
<1>2. u = Root => Attends(S, u, JoinVia(u))
  BY DEF Attends, JoinVia, JoinPc
<1>3. u = Root \/ has_successor(router[u])
  BY AllCalm
<1> QED  BY <1>1, <1>2, <1>3 DEF AfterStabilize

-----------------------------------------------------------------------------
(* ChordFacade::stabilize asks the successor, when there is one ...        *)
LEMMA StabilizeBeginCalm ==
    ASSUME OneCreator, Ongoing, NEW u \in Members, StabilizeBegin(u)
    PROVE  CalmInv'
<1> DEFINE ask == [pc |-> "stabilize", peer |-> successor(router[u])]
           m == IF has_successor(router[u]) THEN ask ELSE AfterStabilize(u, router[u])
<1>1. /\ Begins(u, "stab") /\ Goto(u, "stab", m) /\ UNCHANGED <<status, router>> /\ "stab" \in Task
  BY DEF StabilizeBegin, Task
<1>2. u \in Settled /\ u \in Inside
  BY <1>1, BeginsSettled
<1>3. Attends(Settled, u, ask)
  BY <1>2 DEF Attends, JoinPc
<1>4. Attends(Settled, u, AfterStabilize(u, router[u]))
  BY <1>2, AttendsEnds
<1>5. Attends(Settled, u, m)
  BY <1>3, <1>4
<1> HIDE DEF m
<1> QED  BY <1>1, <1>5, TendsAlone

(* ... whose answer names its predecessor ...                              *)
LEMMA StabilizeHandledCalm ==
    ASSUME OneCreator, Ongoing, NEW u \in Members, StabilizeHandled(u)
    PROVE  CalmInv'
<1> DEFINE p == proc[u]["stab"]
           m == [pc |-> "stabilized", peer |-> p.peer, pred |-> router[p.peer.uuid].predecessor]
<1>1. /\ Goto(u, "stab", m) /\ UNCHANGED <<status, router>> /\ "stab" \in Task
      /\ Pc(u, "stab") # "idle"
  BY DEF StabilizeHandled, Task, Pc
<1>2. u \in Settled
  BY <1>1, Tasked
<1>3. Attends(Settled, u, m)
  BY <1>2 DEF Attends, JoinPc
<1> HIDE DEF m
<1> QED  BY <1>1, <1>3, TendsAlone

(* ... and may be taken over ...                                           *)
LEMMA StabilizeReplyCalm ==
    ASSUME Spread, OneCreator, Ongoing, NEW u \in Members, StabilizeReply(u)
    PROVE  CalmInv'
<1> DEFINE p == proc[u]["stab"]
           takes == p.pred # NoNode /\ Between(u, p.pred.uuid, p.peer.uuid)
           n == update(Me(u), router[u], p.pred)
           r == IF takes THEN n ELSE router[u]
           note == [pc |-> "notify", target |-> successor(r).uuid]
           m == IF has_successor(r) THEN note ELSE AfterStabilize(u, r)
<1>0. /\ p.pc = "stabilized" /\ SetRouter(u, r) /\ Goto(u, "stab", m) /\ "stab" \in Task
      /\ Pc(u, "stab") # "idle" /\ UNCHANGED status
  BY DEF StabilizeReply, Pc, Task
<1> HIDE DEF m, r
<1>1. /\ u \in Settled /\ u \in Inside /\ Message(p) /\ Aimed(Inside, u, p)
      /\ Sound(Up, u, router[u], p)
  BY <1>0, Tasked
<1>2. /\ Inside \in SUBSET Members /\ Fit(u, router[u]) /\ Linked(Inside, u, router[u])
      /\ u \in Uuid /\ Up \in SUBSET Members
  BY AllCalm
<1> HIDE DEF p
<1>3. /\ p.peer.uuid \in Uuid
      /\ p.pred # NoNode => p.pred \in Node /\ p.pred.uuid \in Inside /\ p.pred.uuid \in Uuid
  BY <1>0, <1>1, <1>2, NodeUuid, OverlayAssumption DEF Aimed, Message, Sound, OptNode
<1>4. takes => Tightens(u, router[u], n)
  <2> SUFFICES ASSUME takes PROVE Tightens(u, router[u], n)
    OBVIOUS
  <2>1. p.pred.uuid # u
    BY <1>2, <1>3, BetweenEnds
  <2>2. n = update(Me(u), router[u], p.pred)
    OBVIOUS
  <2> HIDE DEF n
  <2> QED  BY <1>2, <1>3, <2>1, <2>2, TightUpdate
<1> HIDE DEF takes, n
<1>5. Tightens(u, router[u], r)
  BY <1>2, <1>4, TightSame DEF r
<1>6. has_successor(router[u]) => has_successor(r)
  BY <1>5 DEF Tightens
<1>7. Attends(Settled, u, note)
  BY <1>1 DEF Attends, JoinPc
<1>8. Attends(Settled, u, AfterStabilize(u, r))
  BY <1>1, <1>6, AttendsEnds
<1>9. Attends(Settled, u, m)
  BY <1>7, <1>8 DEF m
<1> QED  BY <1>0, <1>1, <1>5, <1>9, TendsOne

(* Service::notify at v: its neighbours are then as near as the caller.    *)
LEMMA Tells ==
    ASSUME Spread, OneCreator, Ongoing, NEW u \in Inside, NEW v \in Inside, u # v,
           NEW nodes, nodes = << >> \/ (/\ nodes \in Node \X Node
                                        /\ nodes[1].uuid \in Inside /\ nodes[2].uuid \in Inside),
           NEW ok, CallNotify(v, Me(u), nodes, ok)
    PROVE  \E q : /\ SetRouter(v, q) /\ ok = TRUE /\ Tightens(v, router[v], q) /\ has_successor(q)
                  /\ Linked(Inside, v, q)
                  /\ Distance(v, successor(q).uuid) <= Distance(v, u)
                  /\ Distance(q.predecessor.uuid, v) <= Distance(u, v)
<1> DEFINE S == Inside
           r0 == router[v]
           r1 == update(Me(v), r0, Me(u))
           r2 == update(Me(v), r1, AsSeen(nodes[1]))
           r3 == update(Me(v), r2, AsSeen(nodes[2]))
           q == IF nodes = << >> THEN r1 ELSE r3
           Well(r) == /\ Fit(v, r) /\ Linked(S, v, r) /\ has_successor(r) /\ Tightens(v, r0, r)
                      /\ Tightens(v, r1, r)
<1>0. /\ S \in SUBSET Members /\ u \in Members /\ v \in Members /\ v \in Up /\ Others
      /\ Me(u) \in Node /\ Me(u).uuid = u /\ Me(v).uuid = v /\ u \in Uuid /\ v \in Uuid
      /\ Fit(v, r0) /\ Linked(S, v, r0) /\ timeouts' = timeouts
  BY AllCalm
<1>1. Me(u) # Me(v)
  BY <1>0
<1>2. SetRouter(v, q) /\ ok = TRUE
  <2>1. ~Fails(v)
    BY <1>0, NoFailure
  <2> QED  BY <1>1, <2>1 DEF CallNotify, HandleNotify
<1> HIDE DEF S, r0
<1>3. /\ Well(r1)
      /\ Distance(v, successor(r1).uuid) <= Distance(v, u)
      /\ Distance(r1.predecessor.uuid, v) <= Distance(u, v)
  <2>1. Fit(v, r1) /\ r1 = update(Me(v), r0, Me(u))
    BY <1>0, UpdateFit
  <2>0. u \in S
    BY DEF S
  <2> HIDE DEF r1
  <2>2. Linked(S, v, r1) /\ has_successor(r1) /\ Tightens(v, r0, r1)
    BY <1>0, <2>0, <2>1, LinkedUpdate, TightUpdate
  <2>3. Tightens(v, r1, r1)
    BY <1>0, <2>2, TightSame
  <2>4. /\ Distance(v, successor(r1).uuid) <= Distance(v, u)
        /\ Distance(r1.predecessor.uuid, v) <= Distance(u, v)
    BY <1>0, <2>0, <2>1, UpdateNear
  <2> QED  BY <2>1, <2>2, <2>3, <2>4
<1> HIDE DEF r1
<1>4. ASSUME NEW r, Well(r), NEW n \in Node, n.uuid \in S, NEW s, s = update(Me(v), r, n)
      PROVE  Well(s)
  <2>1. Fit(v, s)
    BY <1>0, <1>4, UpdateFit
  <2>2. Linked(S, v, s) /\ has_successor(s) /\ Tightens(v, r, s)
    BY <1>0, <1>4, LinkedUpdate, TightUpdate
  <2>3. Tightens(v, r0, s)
    BY <1>0, <1>4, <2>2, TightTwice
  <2>4. Tightens(v, r1, s)
    BY <1>0, <1>3, <1>4, <2>2, TightTwice
  <2> QED  BY <2>1, <2>2, <2>3, <2>4
<1>5. nodes # << >> => Well(r3)
  <2> SUFFICES ASSUME nodes # << >> PROVE Well(r3)
    OBVIOUS
  <2>1. /\ nodes[1] \in Node /\ nodes[1].uuid \in S
        /\ nodes[2] \in Node /\ nodes[2].uuid \in S
    BY DEF S
  <2> DEFINE m1 == AsSeen(nodes[1])
             m2 == AsSeen(nodes[2])
  <2>2. m1 \in Node /\ m1.uuid \in S /\ m2 \in Node /\ m2.uuid \in S
    BY <2>1, NodesMade DEF AsSeen, Node
  <2> HIDE DEF m1, m2
  <2>3. r2 = update(Me(v), r1, m1) /\ r3 = update(Me(v), r2, m2)
    BY DEF m1, m2
  <2> HIDE DEF r2, r3, Well
  <2>4. Well(r2)
    BY <1>3, <1>4, <2>2, <2>3
  <2> QED  BY <1>4, <2>2, <2>3, <2>4
<1> HIDE DEF r3
<1>6. Well(q)
  <2> HIDE DEF Well
  <2> QED  BY <1>3, <1>5
<1> HIDE DEF q
<1>7. /\ Distance(v, successor(q).uuid) <= Distance(v, u)
      /\ Distance(q.predecessor.uuid, v) <= Distance(u, v)
  <2>1. /\ Distance(v, successor(r1).uuid) \in Nat /\ Distance(r1.predecessor.uuid, v) \in Nat
        /\ Distance(v, successor(q).uuid) \in Nat /\ Distance(q.predecessor.uuid, v) \in Nat
        /\ Distance(u, v) \in Nat /\ Distance(v, u) \in Nat
    BY <1>0, <1>3, <1>6, NeighboursAway, DistNat
  <2> QED  BY <1>3, <1>6, <2>1 DEF Tightens
<1> QED  BY <1>2, <1>6, <1>7 DEF r0, S

(* ... before the successor is notified.                                   *)
LEMMA StabilizeNotifyCalm ==
    ASSUME Spread, OneCreator, Ongoing, NEW u \in Members, StabilizeNotify(u)
    PROVE  CalmInv'
<1> DEFINE p == proc[u]["stab"]
           m == AfterStabilize(u, router[u])
<1>0. PICK ok \in BOOLEAN : CallNotify(p.target, Me(u), << >>, ok)
  BY DEF StabilizeNotify
<1>1. /\ p.pc = "notify" /\ "stab" \in Task /\ Pc(u, "stab") # "idle" /\ Goto(u, "stab", m)
      /\ UNCHANGED status
  BY DEF StabilizeNotify, Pc, Task
<1>2. /\ u \in Settled /\ u \in Inside /\ Aimed(Inside, u, p) /\ Sound(Up, u, router[u], p)
  BY <1>1, Tasked
<1> HIDE DEF p
<1>3. p.target \in Inside /\ p.target # u
  BY <1>1, <1>2 DEF Sound, Aimed
<1>4. PICK q : SetRouter(p.target, q) /\ Tightens(p.target, router[p.target], q)
  BY <1>0, <1>2, <1>3, Tells
<1>5. Attends(Settled, u, m)
  BY <1>2, AttendsEnds
<1> HIDE DEF m
<1> QED  BY <1>1, <1>3, <1>4, <1>5, TendsOne

(* Client::check finds its predecessor there.                              *)
LEMMA CheckCalm ==
    ASSUME OneCreator, Ongoing, NEW u \in Members, Check(u)
    PROVE  CalmInv'
<1>0. "check" \in Task
  BY DEF Task
<1>1. CASE CheckBegin(u)
  <2> DEFINE ping == [pc |-> "ping", peer |-> router[u].predecessor]
             m == IF Joined(router[u]) THEN ping ELSE Idle
  <2>1. Begins(u, "check") /\ Goto(u, "check", m) /\ UNCHANGED <<status, router>>
    BY <1>1 DEF CheckBegin
  <2>2. u \in Settled
    BY <1>0, <2>1, BeginsSettled
  <2>3. Attends(Settled, u, m)
    BY <2>2 DEF Attends, JoinPc, Idle
  <2> HIDE DEF m
  <2> QED  BY <1>0, <2>1, <2>3, TendsAlone
<1>2. CASE CheckPing(u)
  <2> DEFINE p == proc[u]["check"]
  <2>1. /\ p.pc = "ping" /\ Goto(u, "check", Idle) /\ UNCHANGED status /\ Pc(u, "check") # "idle"
        /\ Fails(p.peer.uuid) \/ UNCHANGED router
    BY <1>2 DEF CheckPing, Pc
  <2>2. Sound(Up, u, router[u], p) /\ u \in Settled
    BY <1>0, <2>1, Tasked
  <2>3. p.peer.uuid \in Up
    BY <2>1, <2>2 DEF Sound
  <2>4. Others /\ timeouts' = timeouts
    BY AllCalm
  <2>5. ~Fails(p.peer.uuid)
    BY <2>3, <2>4, NoFailure
  <2>6. Attends(Settled, u, Idle)
    BY DEF Attends, Idle, JoinPc
  <2> QED  BY <1>0, <2>1, <2>5, <2>6, TendsAlone
<1> QED  BY <1>1, <1>2 DEF Check

-----------------------------------------------------------------------------
(* ChordFacade::fix_fingers begins a lookup at the peer itself.            *)
LEMMA FixBeginCalm ==
    ASSUME OneCreator, Ongoing, NEW u \in Members, FixBegin(u)
    PROVE  CalmInv'
<1> DEFINE index == (next[u] + 1) % BITS
           m == [pc |-> "successor", id |-> FingerStart(Me(u), index),
                 target |-> u, caller |-> u, stack |-> << >>, ring |-> RingOf(u)]
<1>1. /\ Begins(u, "fix") /\ Goto(u, "fix", m) /\ UNCHANGED <<status, router>> /\ "fix" \in Task
  BY DEF FixBegin, Task
<1>2. u \in Settled /\ RingOf(u) \subseteq Settled
  BY <1>1, BeginsSettled DEF RingOf
<1>3. Attends(Settled, u, m)
  BY <1>2 DEF Attends, JoinPc
<1> HIDE DEF m
<1> QED  BY <1>1, <1>3, TendsAlone

(* The lookups of a peer that has joined go to peers inside.               *)
LEMMA LooksInside ==
    ASSUME OneCreator, Ongoing, NEW u \in Members, Pc(u, "fix") \in {"successor", "probe"}
    PROVE  /\ "fix" \in Task /\ u \in Settled /\ proc[u]["fix"].ring \subseteq Settled
           /\ Lookup(proc[u]["fix"]) /\ Seeks(Up, u, router[u], proc[u]["fix"])
           /\ proc[u]["fix"].target \in Inside /\ proc[u]["fix"].caller \in Inside
<1> DEFINE p == proc[u]["fix"]
<1>1. "fix" \in Task /\ Pc(u, "fix") # "idle" /\ p.pc \in {"successor", "probe"}
  BY DEF Task, Pc
<1>2. /\ u \in Settled /\ u \in Inside /\ Attends(Settled, u, p) /\ Aimed(Inside, u, p)
      /\ Sound(Up, u, router[u], p) /\ Message(p) /\ u \in Up
  BY <1>1, Tasked, AllCalm
<1> HIDE DEF p
<1>3. p.ring \subseteq Settled
  BY <1>1, <1>2 DEF Attends
<1>4. Lookup(p) /\ Seeks(Up, u, router[u], p)
  BY <1>1, <1>2, LookupMessage, SoundSeeks
<1>5. p.target \in Inside /\ p.caller \in Inside
  BY <1>1, <1>2, AimedLookup
<1> QED  BY <1>1, <1>2, <1>3, <1>4, <1>5 DEF p

(* A lookup on its way.                                                    *)
LEMMA AttendsLookup ==
    ASSUME NEW S, NEW u \in S, NEW p, p.pc \in {"successor", "probe"}, p.ring \subseteq S
    PROVE  Attends(S, u, p)
  BY DEF Attends, JoinPc

(* Service::successor takes note of the caller ...                         *)
LEMMA SuccessorArrivesCalm ==
    ASSUME Spread, OneCreator, Ongoing, NEW u \in Members, SuccessorArrives(u)
    PROVE  CalmInv'
<1> DEFINE p == proc[u]["fix"]
           v == p.target
           n == Me(p.caller)
           q == update(Me(v), router[v], n)
           m == [p EXCEPT !.pc = "probe"]
<1>0. /\ p.pc = "successor" /\ SetRouter(v, q) /\ Goto(u, "fix", m) /\ UNCHANGED status
      /\ Pc(u, "fix") \in {"successor", "probe"}
  BY DEF SuccessorArrives, Pc
<1> HIDE DEF m
<1>1. /\ "fix" \in Task /\ u \in Settled /\ p.ring \subseteq Settled /\ Lookup(p)
      /\ v \in Inside /\ p.caller \in Inside
  BY <1>0, LooksInside
<1>2. /\ Inside \in SUBSET Members
      /\ \A w \in Members : /\ Fit(w, router[w]) /\ Linked(Inside, w, router[w])
                            /\ Me(w) \in Node /\ Me(w).uuid = w
  BY AllCalm
<1> HIDE DEF p
<1>3. m.pc = "probe" /\ m.ring = p.ring
  BY <1>0, <1>1 DEF m, Lookup
<1>4. Attends(Settled, u, m)
  BY <1>1, <1>3, AttendsLookup
<1> HIDE DEF v
<1>5. /\ n \in Node /\ n.uuid \in Inside /\ (n.uuid # v \/ n = Me(v)) /\ v \in Members
      /\ Fit(v, router[v]) /\ Linked(Inside, v, router[v]) /\ q = update(Me(v), router[v], n)
  BY <1>1, <1>2
<1> HIDE DEF q, n
<1>6. Tightens(v, router[v], q)
  BY <1>2, <1>5, TightUpdate
<1> QED  BY <1>0, <1>1, <1>4, <1>6, TendsOne

(* ... and answers with its successor.  Nobody who has joined is between   *)
(* the two, so the answer is the right one for all that lies between.      *)
LEMMA SuccessorAnswersCalm ==
    ASSUME Spread, OneCreator, Ongoing, NEW u \in Members, SuccessorAnswers(u)
    PROVE  CalmInv'
<1> DEFINE p == proc[u]["fix"]
           v == p.target
           r == router[v]
           succ == successor_or_self(Me(v), r)
           m == [pc |-> "fixed", id |-> p.id, succ |-> succ, ring |-> p.ring]
<1>0. /\ p.pc = "probe" /\ Goto(u, "fix", m) /\ UNCHANGED <<status, router>>
      /\ Covers(v, p.id, succ) /\ Pc(u, "fix") \in {"successor", "probe"}
  BY DEF SuccessorAnswers, Pc
<1> HIDE DEF m
<1>1. /\ "fix" \in Task /\ u \in Settled /\ p.ring \subseteq Settled
      /\ v \in Inside /\ Seeks(Up, u, router[u], p)
  BY <1>0, LooksInside
<1>2. /\ v \in Members /\ Inside \in SUBSET Members /\ v \in Uuid /\ Me(v).uuid = v
      /\ Linked(Inside, v, r) /\ Settled \in SUBSET Members /\ Near(Settled, v, r)
      /\ \A w \in Members : w \in Uuid
  BY <1>1, AllCalm DEF Ongoing, CalmInv
<1> HIDE DEF p
<1>3. p.id \in Uuid /\ p.id # v
  BY <1>1 DEF Seeks
<1> HIDE DEF v, r
<1>4. Between(v, p.id, succ.uuid)
  BY <1>0, <1>2, <1>3 DEF Covers
<1>5. ASSUME NEW w \in p.ring PROVE Distance(p.id, succ.uuid) <= Distance(p.id, w)
  <2>1. w \in Settled /\ w \in Uuid
    BY <1>1, <1>2
  <2>2. succ.uuid \in Uuid
    BY <1>2, NeighboursAway DEF successor_or_self
  <2>3. v = w \/ (succ.uuid # v /\ Distance(v, succ.uuid) <= Distance(v, w))
    <3> SUFFICES ASSUME v # w PROVE succ.uuid # v /\ Distance(v, succ.uuid) <= Distance(v, w)
      OBVIOUS
    <3>1. has_successor(r) /\ Distance(v, successor(r).uuid) <= Distance(v, w)
      BY <1>2, <2>1 DEF Near
    <3>2. successor(r).uuid # v
      BY <1>2, <3>1, Neighbours
    <3> QED  BY <3>1, <3>2 DEF successor_or_self
  <2> HIDE DEF succ
  <2>4. w # p.id
    <3>1. w = p.id /\ v # w => Distance(v, w) < Distance(v, succ.uuid) \/ succ.uuid = v
      BY <1>2, <1>3, <1>4, <2>1, <2>2, RingFacts DEF Between, Distance, Uuid
    <3>2. Distance(v, w) \in Nat /\ Distance(v, succ.uuid) \in Nat
      BY <1>2, <2>1, <2>2, DistNat
    <3> QED  BY <1>3, <2>3, <3>1, <3>2
  <2> QED  BY <1>2, <1>3, <1>4, <2>1, <2>2, <2>3, <2>4, FacesAhead
<1> HIDE DEF succ
<1>6. Attends(Settled, u, m)
  <2>1. /\ m.pc = "fixed" /\ m.id = p.id /\ m.succ = succ /\ m.ring = p.ring
    BY DEF m
  <2> QED  BY <1>1, <1>5, <2>1 DEF Attends, JoinPc
<1> QED  BY <1>0, <1>1, <1>6, TendsAlone

(* ... or forwards the request.                                            *)
LEMMA SuccessorForwardsCalm ==
    ASSUME OneCreator, Ongoing, NEW u \in Members, SuccessorForwards(u)
    PROVE  CalmInv'
<1> DEFINE p == proc[u]["fix"]
           v == p.target
           c == closest_preceding_nodes(Me(v), router[v], p.id)
           m == [p EXCEPT !.pc = "successor", !.target = Head(c).uuid,
                          !.caller = v, !.stack = Push(@, v, c)]
<1>0. /\ p.pc = "probe" /\ Goto(u, "fix", m) /\ UNCHANGED <<status, router>>
      /\ Pc(u, "fix") \in {"successor", "probe"}
  BY DEF SuccessorForwards, Pc
<1> HIDE DEF m
<1>1. "fix" \in Task /\ u \in Settled /\ p.ring \subseteq Settled /\ Lookup(p)
  BY <1>0, LooksInside
<1> HIDE DEF p
<1>2. m.pc = "successor" /\ m.ring = p.ring
  <2> HIDE DEF c, v
  <2> QED  BY <1>1 DEF m, Lookup
<1>3. Attends(Settled, u, m)
  BY <1>1, <1>2, AttendsLookup
<1> QED  BY <1>0, <1>1, <1>3, TendsAlone

(* Service::fix_fingers takes over the answer.                             *)
LEMMA FixReplyCalm ==
    ASSUME Spread, OneCreator, Ongoing, NEW u \in Members, FixReply(u)
    PROVE  CalmInv'
<1> DEFINE p == proc[u]["fix"]
           q == IF p.succ = Me(u) THEN remove(Me(u), router[u], p.id)
                ELSE update(Me(u), router[u], p.succ)
<1>0. /\ p.pc = "fixed" /\ SetRouter(u, q) /\ Goto(u, "fix", Idle) /\ "fix" \in Task
      /\ Pc(u, "fix") # "idle" /\ UNCHANGED status
      /\ p.succ = Me(u) => ~Serving(p.id) \/ UNCHANGED router
  BY DEF FixReply, RemovePeer, Notes, Ongoing, StillJoins, Pc, Task
<1> HIDE DEF q
<1>1. /\ u \in Settled /\ u \in Inside /\ Message(p) /\ Aimed(Inside, u, p)
      /\ Sound(Up, u, router[u], p)
  BY <1>0, Tasked
<1>2. /\ Inside \in SUBSET Members /\ Fit(u, router[u]) /\ Linked(Inside, u, router[u])
      /\ Inside \in SUBSET Up /\ Routers
  BY AllCalm
<1> HIDE DEF p
<1>3. /\ p.succ \in Node
      /\ p.succ = Me(u) \/ (has_successor(router[u]) /\ p.succ.uuid \in Inside)
  BY <1>0, <1>1 DEF Sound, Message, Aimed
<1>4. Tightens(u, router[u], q)
  <2>1. CASE p.succ = Me(u)
    <3>1. p.id \notin Up => q = router[u]
      BY <1>2, <2>1, RemoveAbsent DEF Fit, q
    <3>2. UNCHANGED router => q = router[u]
      BY <1>0, <1>2 DEF SetRouter, Routers
    <3>3. q = router[u]
      BY <1>0, <2>1, <3>1, <3>2 DEF Up
    <3> QED  BY <1>2, <3>3, TightSame
  <2>2. CASE p.succ # Me(u)
    <3>1. q = update(Me(u), router[u], p.succ)
      BY <2>2 DEF q
    <3> QED  BY <1>2, <1>3, <2>2, <3>1, TightUpdate
  <2> QED  BY <2>1, <2>2
<1>5. Attends(Settled, u, Idle)
  BY DEF Attends, Idle, JoinPc
<1> QED  BY <1>0, <1>1, <1>4, <1>5, TendsOne

-----------------------------------------------------------------------------
(* The first of closest_preceding_nodes precedes; it is the peer itself    *)
(* only when not even the successor does.                                  *)
LEMMA HeadPrecedes ==
    ASSUME NEW S \in SUBSET Members, NEW v \in S, NEW r \in RouterState, Linked(S, v, r),
           NEW x \in Uuid, NEW c, c = closest_preceding_nodes(Me(v), r, x)
    PROVE  /\ Head(c) = Me(v) \/ Between(v, Head(c).uuid, x)
           /\ has_successor(r) /\ Between(v, successor(r).uuid, x) => Head(c) # Me(v)
<1> DEFINE P == Preceding(Me(v), r, x)
           I == Pushed(r, P)
           d == Downwards(I)
           n == Cardinality(I)
           s == [p \in 1 .. Len(d) |-> r.successors[d[p]]]
<1>0. Me(v) \in Node /\ Me(v).uuid = v /\ v \in Uuid /\ 0 \in Index /\ v \in Members
  BY NodesMade, NodeUuid, BitsAssumption DEF Index
<1>1. I \in SUBSET P /\ I \in SUBSET Index /\ P \in SUBSET Index
  BY DEF Preceding, Pushed
<1>2. n \in Nat /\ d \in [1 .. n -> I] /\ \A i \in I : \E p \in 1 .. n : d[p] = i
  <2> HIDE DEF I
  <2> QED  BY <1>1, DownwardsIs
<1>3. \A i \in P : /\ r.successors[i] \in Node /\ Between(v, r.successors[i].uuid, x)
                   /\ r.successors[i] # Me(v)
  <2> SUFFICES ASSUME NEW i \in P
               PROVE  /\ r.successors[i] \in Node /\ Between(v, r.successors[i].uuid, x)
                      /\ r.successors[i] # Me(v)
    OBVIOUS
  <2>1. i \in Index /\ Valid(r, i) /\ Between(v, r.successors[i].uuid, x)
    BY <1>0 DEF Preceding
  <2>2. r.successors[i] \in Node /\ r.successors[i].uuid # v
    BY <2>1 DEF Linked, Valid, RouterState, OptNode
  <2> QED  BY <1>0, <2>1, <2>2
<1>4. has_successor(r) /\ Between(v, successor(r).uuid, x) => 0 \in P
  BY <1>0 DEF Preceding, has_successor, successor
<1>5. P # {} => I # {}
  <2> SUFFICES ASSUME P # {} PROVE I # {}
    OBVIOUS
  <2>1. Last(P) \in P /\ \A j \in P : j <= Last(P)
    <3> HIDE DEF P
    <3> QED  BY <1>1, LastIsGreatest
  <2>2. {j \in P : j > Last(P)} = {}
    <3> HIDE DEF P
    <3>1. \A j \in P : j \in Int
      BY <1>1 DEF Index
    <3>2. \A j \in P : ~(j > Last(P))
      BY <2>1, <3>1
    <3> QED  BY <3>2
  <2>3. Last(P) \in I
    <3> HIDE DEF P
    <3> QED  BY <2>1, <2>2 DEF Pushed
  <2> QED  BY <2>3
<1>6. c = IF s = << >> \/ s[1] # Me(v) THEN Append(s, Me(v)) ELSE s
  BY DEF closest_preceding_nodes
<1> HIDE DEF d, n, I, P
<1>7. Len(d) = n
  BY <1>2
<1>8. s = [p \in 1 .. n |-> r.successors[d[p]]]
  BY <1>7
<1> HIDE DEF s
<1>9. CASE n = 0
  <2>1. s = << >> /\ I = {}
    BY <1>2, <1>8, <1>9
  <2>2. Head(c) = Me(v)
    BY <1>6, <2>1
  <2> QED  BY <1>4, <1>5, <2>1, <2>2
<1>10. CASE n # 0
  <2>1. d[1] \in P /\ s[1] = r.successors[d[1]] /\ s \in Seq(Node) /\ Len(s) = n
    <3>1. \A p \in 1 .. n : d[p] \in P /\ r.successors[d[p]] \in Node
      BY <1>1, <1>2, <1>3
    <3>2. 1 \in 1 .. n
      BY <1>2, <1>10
    <3>3. s \in [1 .. n -> Node] /\ s[1] = r.successors[d[1]]
      BY <1>8, <3>1, <3>2
    <3>4. s \in Seq(Node) /\ Len(s) = n
      BY <1>2, <3>3
    <3> QED  BY <3>1, <3>2, <3>3, <3>4
  <2>2. s[1] # Me(v) /\ Between(v, s[1].uuid, x)
    BY <1>3, <2>1
  <2>3. c = Append(s, Me(v))
    BY <1>6, <2>2
  <2>4. Head(c) = s[1]
    BY <1>0, <1>2, <1>10, <2>1, <2>3
  <2> QED  BY <2>2, <2>4
<1> QED  BY <1>9, <1>10

(* A node that precedes u is nearer to it.                                 *)
LEMMA PrecedesNearer ==
    ASSUME NEW u \in Uuid, NEW v \in Uuid, NEW h \in Uuid, u # v, Between(v, h, u)
    PROVE  Distance(h, u) < Distance(v, u)
  BY RingFacts DEF Between, Distance, Uuid

(* The nearer a call has come, the more peers are behind it; the one that  *)
(* joins never is.                                                         *)
LEMMA BeyondGrows ==
    ASSUME NEW u \in Members, NEW v \in Members
    PROVE  /\ Cardinality(Beyond(v, u)) \in Nat /\ Cardinality(Beyond(v, u)) < Cardinality(Members)
           /\ \A h \in Members : Distance(h, u) < Distance(v, u) =>
                 Cardinality(Beyond(v, u)) + 1 <= Cardinality(Beyond(h, u))
<1>1. \A w \in Members : w \in Uuid /\ Distance(w, u) \in Nat
  BY DistNat, OverlayAssumption
<1>2. ASSUME NEW w \in Members
      PROVE  /\ IsFiniteSet(Beyond(w, u)) /\ Cardinality(Beyond(w, u)) \in Nat
  BY FinitelyMany, FS_Subset, FS_CardinalityType DEF Beyond
<1>3. ASSUME NEW x \in Members, NEW A \in SUBSET Members, x \notin Beyond(v, u),
             Beyond(v, u) \cup {x} \subseteq A
      PROVE  Cardinality(Beyond(v, u)) + 1 <= Cardinality(A)
  <2>1. Cardinality(Beyond(v, u) \cup {x}) = Cardinality(Beyond(v, u)) + 1
    BY <1>2, <1>3, FS_AddElement
  <2>2. IsFiniteSet(A)
    BY FinitelyMany, FS_Subset
  <2>3. Cardinality(Beyond(v, u) \cup {x}) <= Cardinality(A)
    BY <1>3, <2>2, FS_Subset
  <2> QED  BY <2>1, <2>3
<1>4. Cardinality(Beyond(v, u)) + 1 <= Cardinality(Members)
  <2>1. Distance(u, u) = 0
    BY <1>1 DEF Distance, Uuid
  <2>2. u \notin Beyond(v, u)
    BY <1>1, <2>1 DEF Beyond
  <2>3. Beyond(v, u) \cup {u} \subseteq Members
    BY DEF Beyond
  <2> QED  BY <1>3, <2>2, <2>3
<1>5. ASSUME NEW h \in Members, Distance(h, u) < Distance(v, u)
      PROVE  Cardinality(Beyond(v, u)) + 1 <= Cardinality(Beyond(h, u))
  <2>1. v \notin Beyond(v, u) /\ Beyond(v, u) \cup {v} \subseteq Beyond(h, u)
    BY <1>1, <1>5 DEF Beyond
  <2>2. Beyond(h, u) \in SUBSET Members
    BY DEF Beyond
  <2> QED  BY <1>3, <2>1, <2>2
<1> QED  BY <1>2, <1>4, <1>5, FinitelyMany

(* A step of the join under way, by which others may learn.                *)
LEMMA Moves ==
    ASSUME OneCreator, Ongoing, UNCHANGED status, NEW u \in Up \ Settled, Up \ Settled = {u},
           NEW p, Goto(u, "main", p), p.pc # "ready",
           \A w \in Members : w # u => Tightens(w, router[w], router'[w]),
           \A w \in Members \ Inside : w # u => router'[w] = router[w],
           u \in Inside' => Near(Settled, u, router'[u]),
           Placed(Settled, u, router'[u], p),
           p.pc \in {"notified_pred", "notify_succ"} => Told(Settled, u)'
    PROVE  CalmInv'
<1>0. /\ Procs /\ Inside \in SUBSET Members /\ Inside \in SUBSET Up /\ Settled \in SUBSET Inside
      /\ Settled \in SUBSET Members /\ Inside' \in SUBSET Members /\ Up \in SUBSET Members
      /\ u \in Members
      /\ \A w \in Members : /\ Linked(Inside', w, router[w]) /\ Linked(Inside', w, router'[w])
  BY AllCalm
<1>1. "main" \in Kind /\ Task \subseteq Kind /\ "main" \notin Task
  BY DEF Kind, Task
<1>2. /\ \A w \in Members : w # u => proc'[w]["main"] = proc[w]["main"]
      /\ proc'[u]["main"] = p /\ \A w \in Members, j \in Task : proc'[w][j] = proc[w][j]
  BY <1>0, <1>1, ProcAfter
<1>3. Up' = Up /\ Settled' = Settled
  <2>1. Up' = Up
    BY DEF Up, Serving
  <2>2. u \notin Settled'
    BY <1>2 DEF Settled, Pc
  <2>3. \A w \in Members : w # u => (w \in Settled' <=> w \in Settled)
    BY <1>2, <2>1 DEF Settled, Pc
  <2>4. Settled' \in SUBSET Members
    BY <1>0, <2>1 DEF Settled
  <2> QED  BY <1>0, <2>1, <2>2, <2>3, <2>4
<1>4. Inside \subseteq Inside' /\ \A w \in Inside' : w = u \/ w \in Inside
  <2>1. Inside \subseteq Inside'
    BY GrowInside DEF Ongoing, Goes
  <2>2. ASSUME NEW w \in Inside', w # u PROVE w \in Inside
    BY <1>0, <1>3, <2>2 DEF Inside
  <2> QED  BY <2>1, <2>2
<1>5. \A w \in Members : has_successor(router'[w]) => w \in Up
  BY <1>0 DEF Ongoing, CalmInv
<1>6. ASSUME NEW w \in Inside' PROVE Near(Settled, w, router'[w])
  <2>1. CASE w = u
    BY <2>1
  <2>2. CASE w # u
    <3>1. Near(Settled, w, router[w]) /\ w \in Members
      BY <1>0, <1>4, <2>2 DEF Ongoing, CalmInv
    <3> QED  BY <1>0, <2>2, <3>1, NearTight
  <2> QED  BY <2>1, <2>2
<1>7. /\ Placed(Settled, u, router'[u], proc'[u]["main"])
      /\ Pc(u, "main")' \in {"notified_pred", "notify_succ"} => Told(Settled, u)'
  BY <1>2 DEF Pc
<1>8. ASSUME NEW w \in Members, NEW j \in Task PROVE Attends(Settled, w, proc'[w][j])
  BY <1>2 DEF Ongoing, CalmInv
<1>9. Settled \subseteq Inside' /\ Root \in Settled
  BY <1>0, <1>4 DEF Ongoing, CalmInv
<1> QED  BY <1>3, <1>5, <1>6, <1>7, <1>8, <1>9 DEF CalmInv

(* Who starts does so when all others have joined.                         *)
LEMMA StartCalm ==
    ASSUME OneCreator, OneByOne, Ongoing, NEW u \in Members, Start(u)
    PROVE  CalmInv'
<1>0. /\ Procs /\ Others /\ Inside \in SUBSET Members /\ Settled \in SUBSET Inside
      /\ Settled \in SUBSET Members /\ Up \in SUBSET Members
  BY AllCalm
<1>1. /\ status[u] = "off" /\ Goto(u, "main", JoinVia(u)) /\ UNCHANGED router
      /\ Cardinality(Up \ Settled) < MaxChanges /\ status' = [status EXCEPT ![u] = "up"]
  BY DEF Start
<1>2. Up \ Settled = {}
  <2>1. IsFiniteSet(Up \ Settled)
    BY <1>0, FinitelyMany, FS_Subset
  <2>2. Cardinality(Up \ Settled) \in Nat /\ MaxChanges \in Nat /\ MaxChanges <= 1
    BY <2>1, FS_CardinalityType, OverlayAssumption DEF OneByOne
  <2>3. Cardinality(Up \ Settled) = 0
    BY <1>1, <2>2
  <2> QED  BY <2>1, <2>3, FS_EmptySet
<1>3. "main" \in Kind /\ Task \subseteq Kind /\ "main" \notin Task
  BY DEF Kind, Task
<1>4. /\ \A w \in Members : w # u => proc'[w]["main"] = proc[w]["main"]
      /\ proc'[u]["main"] = JoinVia(u) /\ \A w \in Members, j \in Task : proc'[w][j] = proc[w][j]
  BY <1>0, <1>1, <1>3, ProcAfter
<1>5. u \notin Up /\ Up' = Up \cup {u}
  BY <1>0, <1>1 DEF Up, Serving, Others
<1>6. Settled' = Settled
  <2>1. u \notin Settled' /\ u \notin Settled
    BY <1>4, <1>5 DEF Settled, Pc, JoinVia
  <2>2. \A w \in Members : w # u => (w \in Settled' <=> w \in Settled)
    BY <1>4, <1>5 DEF Settled, Pc
  <2>3. Settled' \in SUBSET Members
    BY DEF Settled, Up
  <2> QED  BY <1>0, <2>1, <2>2, <2>3
<1>7. ~has_successor(router[u]) /\ \A w \in Members : has_successor(router[w]) => w \in Up
  BY <1>5 DEF Ongoing, CalmInv
<1>8. u # Root
  BY <1>0, <1>5, RootInside DEF Ongoing, Goes
<1>9. Inside' = Inside
  BY <1>1, <1>5, <1>7, <1>8 DEF Inside, OneCreator
<1>10. Placed(Settled, u, router'[u], JoinVia(u))
  <2>1. JoinAddr[u] \in Members
    BY <1>8, OverlayAssumption DEF OneCreator
  <2>2. Cardinality(Beyond(JoinAddr[u], u)) \in Nat /\ Len(<< >>) = 0
    BY <2>1, BeyondGrows
  <2> QED  BY <1>1, <1>7, <2>2 DEF Placed, JoinVia
<1>11. ASSUME NEW w \in Up' \ Settled
       PROVE  w = u
  BY <1>2, <1>5, <1>11
<1>12. /\ Placed(Settled, u, router'[u], proc'[u]["main"])
       /\ ~(Pc(u, "main")' \in {"notified_pred", "notify_succ"})
  BY <1>4, <1>10 DEF Pc, JoinVia
<1>13. ASSUME NEW w \in Members, NEW j \in Task PROVE Attends(Settled, w, proc'[w][j])
  BY <1>4 DEF Ongoing, CalmInv
<1>14. \A w \in Inside : Near(Settled, w, router'[w])
  BY <1>1 DEF Ongoing, CalmInv
<1>15. Root \in Settled
  BY DEF Ongoing, CalmInv
<1> QED  BY <1>0, <1>1, <1>5, <1>6, <1>7, <1>9, <1>11, <1>12, <1>13, <1>14, <1>15 DEF CalmInv

(* What is known of a join on its way.                                     *)
LEMMA JoinUnderway ==
    ASSUME OneCreator, Ongoing, NEW u \in Members, Pc(u, "main") = "join"
    PROVE  LET p == proc[u]["main"]
               v == p.target
           IN  /\ u \in Up \ Settled /\ Up \ Settled = {u} /\ u # Root /\ u \notin Inside
               /\ p.pc = "join" /\ Message(p) /\ Placed(Settled, u, router[u], p)
               /\ v \in Settled /\ v \in Inside /\ v \in Members /\ v # u
<1> DEFINE p == proc[u]["main"]
           v == p.target
<1>1. /\ u \in Up \ Settled /\ Up \ Settled = {u} /\ Placed(Settled, u, router[u], p)
  BY JoinsInMain DEF JoinPc, JoinKind
<1>2. "main" \in Kind /\ Pc(u, "main") # "idle" /\ p.pc = "join"
  BY DEF Kind, Pc
<1>3. Message(p) /\ Sound(Up, u, router[u], p) /\ Aimed(Inside, u, p)
  BY <1>2, Underway DEF Ongoing
<1> HIDE DEF p
<1>4. v \in Inside /\ v # u /\ u # Root /\ ~has_successor(router[u])
  <2>1. u # Root
    BY <1>1 DEF Ongoing, CalmInv
  <2> QED  BY <1>1, <1>2, <1>3, <2>1 DEF Sound, Aimed, Placed
<1>5. v \in Settled /\ v \in Members
  BY <1>1, <1>4, AllCalm
<1>6. u \notin Inside
  BY <1>4 DEF Inside, OneCreator
<1> QED  BY <1>1, <1>2, <1>3, <1>4, <1>5, <1>6 DEF p

(* Service::join forwards the request to a peer nearer to the one that     *)
(* joins, unless only the deadline would end it: it never would.           *)
LEMMA ForwardsNearer ==
    ASSUME OneCreator, OneByOne, Ongoing, NEW u \in Members, Pc(u, "main") = "join",
           ForwardsJoin(proc[u]["main"].target, u)
    PROVE  LET p == proc[u]["main"]
               h == Head(closest_preceding_nodes(Me(p.target), router[p.target], u)).uuid
           IN  /\ ~EndlessJoin(u, p)
               /\ h \in Members /\ Distance(h, u) < Distance(p.target, u)
<1> DEFINE p == proc[u]["main"]
           v == p.target
           r == router[v]
           c == closest_preceding_nodes(Me(v), r, u)
<1>1. /\ p.pc = "join" /\ Message(p) /\ Placed(Settled, u, router[u], p)
      /\ v \in Inside /\ v \in Members /\ v # u /\ u \notin Inside
  BY JoinUnderway
<1>2. /\ Inside \in SUBSET Members /\ Fit(v, r) /\ Linked(Inside, v, r) /\ u \in Uuid /\ v \in Uuid
      /\ \A w \in Members : w \in Uuid
  BY <1>1, AllCalm
<1>3. ForwardsJoin(v, u)
  OBVIOUS
<1> HIDE DEF p, v, r
<1>4. has_successor(r) /\ ~Between(v, u, successor(r).uuid)
  BY <1>2, <1>3 DEF ForwardsJoin, Linked, successor_or_self, r
<1>5. successor(r).uuid \in Inside /\ successor(r).uuid # v /\ successor(r).uuid \in Uuid
  BY <1>2, <1>4, Neighbours
<1>6. Between(v, successor(r).uuid, u)
  <2> DEFINE s == successor(r).uuid
  <2>1. s \in Uuid /\ s # v /\ s # u /\ ~Between(v, u, s)
    BY <1>1, <1>4, <1>5
  <2> HIDE DEF s
  <2>2. Between(v, s, u)
    BY <1>1, <1>2, <2>1 DEF Between, Uuid
  <2> QED  BY <2>2 DEF s
<1>7. r \in RouterState /\ c = closest_preceding_nodes(Me(v), r, u)
  BY <1>2 DEF Fit
<1>8. Leads(Inside, v, u, c)
  BY <1>1, <1>2, <1>7, Candidates
<1> HIDE DEF c
<1>9. Head(c) # Me(v) /\ Between(v, Head(c).uuid, u)
  BY <1>1, <1>2, <1>4, <1>6, <1>7, HeadPrecedes
<1>10. Head(c).uuid \in Members
  BY <1>2, <1>8 DEF Leads
<1>11. Distance(Head(c).uuid, u) < Distance(v, u)
  BY <1>1, <1>2, <1>9, <1>10, PrecedesNearer
<1>12. Len(p.stack) < MaxDepth
  <2>1. Len(p.stack) <= Cardinality(Beyond(v, u)) /\ IsStack(p.stack)
    BY <1>1 DEF Placed, Message, v
  <2>2. Len(p.stack) \in Nat
    BY <2>1 DEF IsStack
  <2>3. /\ Cardinality(Beyond(v, u)) \in Nat /\ Cardinality(Beyond(v, u)) < Cardinality(Members)
        /\ Cardinality(Members) \in Nat
    BY <1>1, BeyondGrows, FinitelyMany
  <2>4. MaxDepth \in Nat /\ MaxDepth >= Cardinality(Members)
    BY OverlayAssumption DEF OneByOne
  <2> QED  BY <2>1, <2>2, <2>3, <2>4
<1>13. ~EndlessJoin(u, p)
  <2>1. Len(p.stack) \in Nat /\ MaxDepth \in Nat
    BY <1>1, OverlayAssumption DEF Message, IsStack
  <2> QED  BY <1>7, <1>9, <1>12, <2>1 DEF EndlessJoin, v, r
<1> QED  BY <1>7, <1>10, <1>11, <1>13 DEF p, v, r

(* The creator's own join leaves the peers that have joined alone, as long *)
(* as nobody answers it.                                                   *)
LEMMA CreatorJoins ==
    ASSUME OneCreator, Ongoing, NEW u \in Members, NEW k \in JoinKind \ {"main"},
           JoinForward(u, k) \/ JoinAnswer(u, k) \/ JoinFails(u, k)
    PROVE  CalmInv'
<1>1. /\ k \in Task /\ Pc(u, k) = "join" /\ Pc(u, k) # "idle" /\ AfterJoin(k) = Idle
      /\ UNCHANGED <<status, router>>
  BY DEF JoinKind, Task, JoinForward, JoinAnswer, JoinFails, Pc, AfterJoin
<1>2. u \in Settled /\ u = Root /\ Message(proc[u][k])
  BY <1>1, Tasked DEF Attends, JoinPc, Pc
<1>3. ~JoinAnswer(u, k)
  BY <1>2 DEF Ongoing, Ordered, JoinAnswer, OneCreator
<1>4. Attends(Settled, u, Idle) /\ \A q : q.pc = "join" => Attends(Settled, u, q)
  BY <1>2 DEF Attends, Idle, JoinPc
<1>5. CASE JoinForward(u, k)
  <2> DEFINE p == proc[u][k]
             c == closest_preceding_nodes(Me(p.target), router[p.target], u)
             m == [p EXCEPT !.target = Head(c).uuid, !.stack = Push(@, p.target, c)]
  <2>1. Goto(u, k, m) /\ p.pc = "join"
    BY <1>5 DEF JoinForward
  <2> HIDE DEF p, c
  <2>2. p \in [pc : {"join"}, target : {p.target}, stack : {p.stack}]
    BY <1>2, <2>1 DEF Message, p
  <2>3. m.pc = "join"
    BY <2>2
  <2> HIDE DEF m
  <2>4. Attends(Settled, u, m)
    BY <1>4, <2>3
  <2> QED  BY <1>1, <2>1, <2>4, TendsAlone
<1>6. CASE JoinFails(u, k)
  <2> DEFINE p == proc[u][k]
             q == [pc |-> "join", target |-> Retry(p.stack).target, stack |-> Retry(p.stack).stack]
             m == IF Retries(p.stack) = {} THEN AfterJoin(k) ELSE q
  <2>1. Goto(u, k, m)
    BY <1>6 DEF JoinFails
  <2>2. Attends(Settled, u, m)
    BY <1>1, <1>4
  <2> HIDE DEF m
  <2> QED  BY <1>1, <2>1, <2>2, TendsAlone
<1> QED  BY <1>3, <1>5, <1>6

(* Service::join forwards: the call is nearer to the one that joins.       *)
LEMMA JoinForwardCalm ==
    ASSUME OneCreator, OneByOne, Ongoing, NEW u \in Members, JoinForward(u, "main")
    PROVE  CalmInv'
<1> DEFINE p == proc[u]["main"]
           v == p.target
           c == closest_preceding_nodes(Me(v), router[v], u)
           z == Push(p.stack, v, c)
           m == [p EXCEPT !.target = Head(c).uuid, !.stack = Push(@, v, c)]
<1>0. Pc(u, "main") = "join"
  BY DEF JoinForward, Pc
<1>1. /\ u \in Up \ Settled /\ Up \ Settled = {u} /\ u \notin Inside /\ u # Root
      /\ p.pc = "join" /\ Message(p) /\ Placed(Settled, u, router[u], p)
      /\ v \in Settled /\ v \in Members
  BY <1>0, JoinUnderway
<1>2. Goto(u, "main", m) /\ UNCHANGED <<status, router>> /\ ForwardsJoin(v, u)
  BY <1>1 DEF JoinForward
<1> HIDE DEF m
<1>3. Head(c).uuid \in Members /\ Distance(Head(c).uuid, u) < Distance(v, u)
  BY <1>0, <1>1, <1>2, ForwardsNearer
<1> HIDE DEF p, v, c
<1>4. /\ p \in [pc : {"join"}, target : {p.target}, stack : {p.stack}] /\ IsStack(p.stack)
  BY <1>1 DEF Message
<1>5. m.pc = "join" /\ m.target = Head(c).uuid /\ m.stack = z
  BY <1>1, <1>4 DEF m
<1>6. /\ ~has_successor(router[u]) /\ Len(p.stack) <= Cardinality(Beyond(v, u))
      /\ \A i \in 1 .. Len(p.stack) : p.stack[i].at \in Settled
  BY <1>1 DEF Placed, v
<1>7. Len(z) \in Nat /\ Len(p.stack) \in Nat /\ Len(z) <= Len(p.stack) + 1
  <2> DEFINE f == Frame(v, c)
             S == {p.stack[i] : i \in 1 .. Len(p.stack)}
  <2>1. p.stack \in Seq(S \cup {f}) /\ f \in S \cup {f}
    BY <1>4 DEF IsStack
  <2>2. z = p.stack \/ z = Append(p.stack, f)
    BY DEF Push
  <2> HIDE DEF f, S, z
  <2>3. Len(p.stack) \in Nat
    BY <2>1
  <2>4. Len(z) = Len(p.stack) \/ Len(z) = Len(p.stack) + 1
    BY <2>1, <2>2
  <2> QED  BY <2>3, <2>4
<1>8. \A i \in 1 .. Len(z) : z[i] = Frame(v, c) \/ (i \in 1 .. Len(p.stack) /\ z[i] = p.stack[i])
  BY <1>4, PushFrames
<1> HIDE DEF z
<1>9. \A i \in 1 .. Len(z) : z[i].at \in Settled
  BY <1>1, <1>6, <1>8 DEF Frame
<1>10. Len(z) <= Cardinality(Beyond(Head(c).uuid, u))
  <2>1. /\ Cardinality(Beyond(v, u)) \in Nat /\ Cardinality(Beyond(Head(c).uuid, u)) \in Nat
        /\ Cardinality(Beyond(v, u)) + 1 <= Cardinality(Beyond(Head(c).uuid, u))
    BY <1>1, <1>3, BeyondGrows
  <2> QED  BY <1>6, <1>7, <2>1
<1>11. Placed(Settled, u, router'[u], m)
  BY <1>2, <1>5, <1>6, <1>9, <1>10 DEF Placed
<1>12. /\ Inside' \in SUBSET Members
       /\ \A w \in Members : Linked(Inside', w, router[w]) /\ router'[w] = router[w]
  BY <1>2, AllCalm
<1>13. \A w \in Members : Tightens(w, router[w], router'[w])
  BY <1>12, TightSame
<1>14. u \notin Inside'
  BY <1>1, <1>2, <1>6 DEF Inside, OneCreator
<1> QED  BY <1>1, <1>2, <1>5, <1>11, <1>12, <1>13, <1>14, Moves

(* Service::join answers with the two peers between which the one that     *)
(* joins belongs: nobody who has joined is between them.                   *)
LEMMA JoinAnswerCalm ==
    ASSUME OneCreator, Ongoing, NEW u \in Members, JoinAnswer(u, "main")
    PROVE  CalmInv'
<1> DEFINE p == proc[u]["main"]
           v == p.target
           r == router[v]
           succ == successor_or_self(Me(v), r)
           res == JoinResponse(v, u)
           m == [pc |-> "joined", succ |-> res.succ, pred |-> res.pred]
<1>0. Pc(u, "main") = "join"
  BY DEF JoinAnswer, Pc
<1>1. /\ u \in Up \ Settled /\ Up \ Settled = {u} /\ u \notin Inside /\ u # Root
      /\ p.pc = "join" /\ Placed(Settled, u, router[u], p)
      /\ v \in Settled /\ v \in Members /\ v \in Inside /\ v # u
  BY <1>0, JoinUnderway
<1>2. Goto(u, "main", m) /\ UNCHANGED <<status, router>> /\ ~ForwardsJoin(v, u)
  BY <1>1 DEF JoinAnswer
<1> HIDE DEF m
<1>3. /\ Linked(Inside, v, r) /\ Linked(Inside', v, r) /\ u \in Uuid /\ v \in Uuid /\ Me(v).uuid = v
      /\ Inside \in SUBSET Members /\ Inside' \in SUBSET Members /\ Settled \in SUBSET Members
      /\ \A w \in Members : w \in Uuid /\ Linked(Inside', w, router[w]) /\ router'[w] = router[w]
  BY <1>1, <1>2, AllCalm
<1>4. Near(Settled, v, r) /\ ~has_successor(router[u])
  BY <1>1 DEF Ongoing, CalmInv, Placed
<1> HIDE DEF p, v
<1>5. /\ succ.uuid \in Uuid
      /\ has_successor(r) => succ = successor(r) /\ succ.uuid # v
      /\ ~has_successor(r) => succ = Me(v)
  BY <1>1, <1>3, NeighboursAway, Neighbours DEF successor_or_self
<1>6. ASSUME NEW w \in Settled
      PROVE  /\ Distance(u, res.succ.uuid) <= Distance(u, w)
             /\ Distance(res.pred.uuid, u) <= Distance(w, u)
  <2>0. w \in Uuid /\ w # u
    BY <1>1, <1>3
  <2>1. CASE Between(v, u, succ.uuid)
    <3>1. res = [succ |-> succ, pred |-> Me(v)]
      BY <2>1 DEF JoinResponse, Precedes
    <3>2. v = w \/ (succ.uuid # v /\ Distance(v, succ.uuid) <= Distance(v, w))
      BY <1>4, <1>5 DEF Near
    <3> HIDE DEF res, succ
    <3>3. Distance(u, succ.uuid) <= Distance(u, w) /\ Distance(v, u) <= Distance(w, u)
      BY <1>3, <1>5, <2>0, <2>1, <3>2, FacesAhead
    <3>4. res.succ = succ /\ res.pred.uuid = v
      BY <1>3, <3>1
    <3> QED  BY <3>3, <3>4
  <2>2. CASE ~Between(v, u, succ.uuid)
    <3>1. has_predecessor(r)
      <4> SUFFICES ASSUME ~has_predecessor(r) PROVE FALSE
        OBVIOUS
      <4>1. succ.uuid = v
        BY <1>3, <1>5 DEF Linked
      <4> QED  BY <1>1, <1>3, <2>2, <4>1, BetweenEnds
    <3>2. Between(r.predecessor.uuid, u, v)
      BY <1>2, <2>2, <3>1 DEF ForwardsJoin
    <3>3. /\ r.predecessor.uuid # v /\ r.predecessor.uuid \in Uuid
          /\ v = w \/ Distance(r.predecessor.uuid, v) <= Distance(w, v)
      BY <1>3, <1>4, <3>1 DEF Linked, Near
    <3>4. res = [succ |-> Me(v), pred |-> r.predecessor]
      BY <2>2, <3>1 DEF JoinResponse, Precedes
    <3> HIDE DEF res, succ, r
    <3>5. Distance(u, v) <= Distance(u, w) /\ Distance(r.predecessor.uuid, u) <= Distance(w, u)
      BY <1>3, <2>0, <3>2, <3>3, FacesBehind
    <3>6. res.succ.uuid = v /\ res.pred = r.predecessor
      BY <1>3, <3>4
    <3> QED  BY <3>5, <3>6
  <2> QED  BY <2>1, <2>2
<1> HIDE DEF res
<1>7. Placed(Settled, u, router'[u], m) /\ m.pc = "joined"
  BY <1>3, <1>4, <1>6 DEF Placed, m
<1>8. \A w \in Members : Tightens(w, router[w], router'[w])
  BY <1>3, TightSame
<1>9. u \notin Inside'
  BY <1>1, <1>3, <1>4 DEF Inside, OneCreator
<1> QED  BY <1>1, <1>2, <1>3, <1>7, <1>8, <1>9, Moves

(* A join does not fail: no call does, and none is forwarded for ever.     *)
LEMMA JoinFailsCalm ==
    ASSUME OneCreator, OneByOne, Ongoing, NEW u \in Members, JoinFails(u, "main")
    PROVE  FALSE
<1> DEFINE p == proc[u]["main"]
           v == p.target
<1>0. Pc(u, "main") = "join"
  BY DEF JoinFails, Pc
<1>1. Placed(Settled, u, router[u], p) /\ v \in Inside /\ p.pc = "join"
  BY <1>0, JoinUnderway
<1>2. v \in Up /\ Others /\ timeouts' = timeouts /\ Settled \in SUBSET Inside /\ Inside \in SUBSET Up
  BY <1>1, AllCalm
<1>3. ~Fails(v)
  BY <1>2, NoFailure
<1>4. Returns(p.stack)
  BY <1>1, <1>2 DEF Returns, Placed, Up
<1>5. ForwardsJoin(v, u) => ~EndlessJoin(u, p)
  BY <1>0, <1>1, ForwardsNearer
<1> QED  BY <1>1, <1>3, <1>4, <1>5 DEF JoinFails

(* Client::join takes the answer over: the peer that joins has its place.  *)
LEMMA JoinReplyCalm ==
    ASSUME Spread, OneCreator, Ongoing, NEW u \in Members, NEW k \in JoinKind, JoinReply(u, k)
    PROVE  CalmInv'
<1> DEFINE p == proc[u]["main"]
           r0 == router[u]
           r1 == update(Me(u), r0, p.succ)
           r == update(Me(u), r1, p.pred)
           m == IF Joined(r) THEN ToPredecessor(u, r) ELSE [pc |-> "garbage"]
<1>0. Pc(u, k) = "joined" /\ Pc(u, k) \in JoinPc
  BY DEF JoinReply, Pc, JoinPc
<1>1. /\ k = "main" /\ u \in Up \ Settled /\ Up \ Settled = {u} /\ Placed(Settled, u, r0, p)
      /\ p.pc = "joined" /\ "main" \in Kind /\ Pc(u, "main") # "idle"
  BY <1>0, JoinsInMain DEF Pc, Kind
<1>2. SetRouter(u, r) /\ Goto(u, "main", m) /\ UNCHANGED status
  <2>1. SetRouter(u, r) /\ SendNotify(u, "main", r, ToPredecessor(u, r)) /\ UNCHANGED status
    BY <1>1 DEF JoinReply
  <2> HIDE DEF r
  <2> QED  BY <2>1 DEF SendNotify
<1> HIDE DEF m
<1>3. Message(p) /\ Aimed(Inside, u, p) /\ Sound(Up, u, r0, p)
  BY <1>1, Underway DEF Ongoing
<1>4. /\ Inside \in SUBSET Members /\ Routers /\ Fit(u, r0) /\ Linked(Inside, u, r0) /\ u \in Uuid
      /\ Settled \in SUBSET Members /\ Inside' \in SUBSET Members
      /\ \A w \in Members : w \in Uuid /\ Linked(Inside', w, router[w])
  BY AllCalm
<1>5. router'[u] = r /\ \A w \in Members : w # u => router'[w] = router[w]
  <2> HIDE DEF r
  <2> QED  BY <1>2, <1>4, RootsSet
<1> HIDE DEF p, r0
<1>6. /\ p.succ \in Node /\ p.pred \in Node
      /\ p.succ.uuid \in Inside \ {u} /\ p.pred.uuid \in Inside \ {u}
      /\ p.succ.uuid \in Uuid /\ p.pred.uuid \in Uuid
  BY <1>1, <1>3, <1>4 DEF Sound, Message, Aimed
<1>7. /\ Fit(u, r1) /\ Linked(Inside, u, r1) /\ has_successor(r1)
      /\ Distance(u, successor(r1).uuid) <= Distance(u, p.succ.uuid)
  <2>1. Fit(u, r1) /\ r1 = update(Me(u), r0, p.succ)
    BY <1>4, <1>6, UpdateFit
  <2> HIDE DEF r1
  <2>2. Linked(Inside, u, r1) /\ has_successor(r1)
    BY <1>4, <1>6, <2>1, LinkedUpdate
  <2>3. Distance(u, successor(r1).uuid) <= Distance(u, p.succ.uuid)
    BY <1>4, <1>6, <2>1, UpdateNear
  <2> QED  BY <2>1, <2>2, <2>3
<1> HIDE DEF r1
<1>8. Linked(Inside, u, r) /\ has_successor(r)
  BY <1>4, <1>6, <1>7, LinkedUpdate
<1>9. /\ Distance(u, successor(r).uuid) <= Distance(u, successor(r1).uuid)
      /\ Distance(r.predecessor.uuid, u) <= Distance(p.pred.uuid, u)
  BY <1>4, <1>6, <1>7, UpdateNear
<1> HIDE DEF r
<1>10. ASSUME NEW v \in Settled
       PROVE  /\ Distance(u, successor(r).uuid) <= Distance(u, v)
              /\ Distance(r.predecessor.uuid, u) <= Distance(v, u)
  <2>1. /\ Distance(u, p.succ.uuid) <= Distance(u, v) /\ Distance(p.pred.uuid, u) <= Distance(v, u)
        /\ v \in Uuid
    BY <1>1, <1>4 DEF Placed
  <2>2. /\ Distance(u, successor(r).uuid) \in Nat /\ Distance(u, successor(r1).uuid) \in Nat
        /\ Distance(r.predecessor.uuid, u) \in Nat
    BY <1>4, <1>7, <1>8, NeighboursAway
  <2>3. /\ Distance(u, p.succ.uuid) \in Nat /\ Distance(p.pred.uuid, u) \in Nat
        /\ Distance(u, v) \in Nat /\ Distance(v, u) \in Nat
    BY <1>4, <1>6, <2>1, DistNat
  <2> QED  BY <1>7, <1>9, <2>1, <2>2, <2>3
<1>11. Near(Settled, u, router'[u])
  BY <1>5, <1>8, <1>10 DEF Near
<1>12. m.pc = "notify_pred" /\ m.target = r.predecessor.uuid
  <2>1. m = ToPredecessor(u, r)
    BY <1>8, Neighbours DEF m
  <2> QED  BY <2>1 DEF ToPredecessor
<1>13. Placed(Settled, u, router'[u], m)
  BY <1>10, <1>12 DEF Placed
<1>14. \A w \in Members : w # u => Tightens(w, router[w], router'[w])
  BY <1>4, <1>5, TightSame
<1> QED  BY <1>1, <1>2, <1>5, <1>11, <1>12, <1>13, <1>14, Moves

(* ChordFacade::join notifies the predecessor: now everybody is told.      *)
LEMMA NotifyPredecessorCalm ==
    ASSUME Spread, OneCreator, Ongoing, NEW u \in Members, NEW k \in JoinKind, NotifyPredecessor(u, k)
    PROVE  CalmInv'
<1> DEFINE p == proc[u]["main"]
           v == p.target
<1>0. Pc(u, k) = "notify_pred" /\ Pc(u, k) \in JoinPc
  BY DEF NotifyPredecessor, Pc, JoinPc
<1>1. /\ k = "main" /\ u \in Up \ Settled /\ Up \ Settled = {u} /\ Placed(Settled, u, router[u], p)
      /\ p.pc = "notify_pred" /\ "main" \in Kind /\ Pc(u, "main") # "idle"
  BY <1>0, JoinsInMain DEF Pc, Kind
<1>2. PICK ok \in BOOLEAN : CallNotify(v, Me(u), p.nodes, ok)
                            /\ Goto(u, "main", [pc |-> "notified_pred", ok |-> ok])
  BY <1>1 DEF NotifyPredecessor
<1>3. Message(p) /\ Aimed(Inside, u, p) /\ Sound(Up, u, router[u], p) /\ UNCHANGED status
  BY <1>1, Underway DEF Ongoing, NotifyPredecessor
<1>4. /\ Inside \in SUBSET Members /\ Routers /\ Inside \in SUBSET Up /\ Settled \in SUBSET Inside
      /\ Settled \in SUBSET Members /\ Inside' \in SUBSET Members /\ u \in Uuid
      /\ \A w \in Members : /\ w \in Uuid /\ Linked(Inside, w, router[w])
                            /\ Linked(Inside', w, router[w]) /\ Linked(Inside', w, router'[w])
  BY AllCalm
<1> DEFINE m == [pc |-> "notified_pred", ok |-> ok]
<1> HIDE DEF p
<1>5. /\ has_successor(router[u]) /\ v \in Inside /\ v # u
      /\ p.nodes \in Node \X Node /\ p.nodes[1].uuid \in Inside /\ p.nodes[2].uuid \in Inside
  BY <1>1, <1>3 DEF Sound, Message, Aimed
<1>6. u \in Inside /\ v \in Settled /\ v \in Members
  BY <1>1, <1>4, <1>5 DEF Inside
<1>7. PICK q : /\ SetRouter(v, q) /\ Tightens(v, router[v], q) /\ has_successor(q)
               /\ Distance(v, successor(q).uuid) <= Distance(v, u)
  BY <1>2, <1>5, <1>6, Tells
<1>8. router'[v] = q /\ \A w \in Members : w # v => router'[w] = router[w]
  BY <1>4, <1>6, <1>7, RootsSet
<1>9. \A w \in Members : Tightens(w, router[w], router'[w])
  BY <1>4, <1>7, <1>8, TightSame
<1>10. ASSUME NEW w \in Settled
       PROVE  has_successor(router'[w]) /\ Distance(w, successor(router'[w]).uuid) <= Distance(w, u)
  <2>1. CASE w = v
    BY <1>7, <1>8, <2>1
  <2>2. CASE w # v
    <3>1. w \in Members /\ w \in Inside /\ router'[w] = router[w] /\ v \in Settled \ {w}
      BY <1>4, <1>6, <1>8, <2>2
    <3>2. has_successor(router[w]) /\ Distance(w, successor(router[w]).uuid) <= Distance(w, v)
      BY <3>1 DEF Ongoing, CalmInv, Near
    <3>3. Distance(v, u) <= Distance(w, u)
      BY <1>1 DEF Placed
    <3>4. Distance(w, v) <= Distance(w, u)
      BY <1>4, <1>6, <3>1, <3>3, FirstAhead
    <3>5. /\ Distance(w, successor(router[w]).uuid) \in Nat
          /\ Distance(w, v) \in Nat /\ Distance(w, u) \in Nat
      BY <1>4, <1>6, <3>1, <3>2, NeighboursAway, DistNat
    <3> QED  BY <3>1, <3>2, <3>4, <3>5
  <2> QED  BY <2>1, <2>2
<1>11. Told(Settled, u)'
  <2>1. Settled' = Settled
    <3>1. Up' = Up
      BY <1>3 DEF Up, Serving
    <3>2. /\ proc'[u]["main"].pc # "ready"
          /\ \A w \in Members : w # u => proc'[w]["main"] = proc[w]["main"]
      BY <1>1, <1>2, AllCalm, ProcAfter
    <3>3. Up \in SUBSET Members /\ u \notin Settled
      BY <1>1 DEF Up
    <3> QED  BY <3>1, <3>2, <3>3 DEF Settled, Pc
  <2> QED  BY <1>10, <2>1 DEF Told
<1>12. Near(Settled, u, router'[u])
  BY <1>5, <1>6, <1>8 DEF Ongoing, CalmInv
<1>13. Placed(Settled, u, router'[u], m) /\ m.pc = "notified_pred"
  BY DEF Placed
<1>14. Goto(u, "main", m)
  BY <1>2
<1>15. \A w \in Members \ Inside : router'[w] = router[w]
  BY <1>5, <1>8
<1> HIDE DEF m, v
<1> QED  BY <1>1, <1>3, <1>9, <1>11, <1>12, <1>13, <1>14, <1>15, Moves

(* ... reads the successor again ...                                       *)
LEMMA NotifyNextCalm ==
    ASSUME OneCreator, Ongoing, NEW u \in Members, NEW k \in JoinKind, NotifyNext(u, k)
    PROVE  CalmInv'
<1> DEFINE p == proc[u]["main"]
           r == router[u]
           m == IF Joined(r) THEN ToSuccessor(u, r, p.ok) ELSE [pc |-> "garbage"]
<1>0. Pc(u, k) = "notified_pred" /\ Pc(u, k) \in JoinPc
  BY DEF NotifyNext, JoinPc
<1>1. /\ k = "main" /\ u \in Up \ Settled /\ Up \ Settled = {u} /\ Told(Settled, u)
      /\ p.pc = "notified_pred" /\ "main" \in Kind /\ Pc(u, "main") # "idle"
  BY <1>0, JoinsInMain DEF Pc, Kind
<1>2. Goto(u, "main", m) /\ UNCHANGED <<status, router>>
  BY <1>1 DEF NotifyNext, SendNotify
<1> HIDE DEF m
<1>3. Sound(Up, u, r, p)
  BY <1>1, Underway DEF Ongoing
<1>4. /\ Inside' \in SUBSET Members /\ Up \in SUBSET Members
      /\ \A w \in Members : /\ Linked(Inside', w, router[w]) /\ Linked(Inside, w, router[w])
                            /\ router'[w] = router[w]
  BY <1>2, AllCalm
<1> HIDE DEF p
<1>5. has_successor(r) /\ u \in Inside /\ Near(Settled, u, r)
  BY <1>1, <1>3 DEF Sound, Inside, Ongoing, CalmInv
<1>6. m.pc = "notify_succ" /\ m.target = successor(r).uuid
  <2>1. m = ToSuccessor(u, r, p.ok)
    BY <1>4, <1>5, Neighbours DEF m
  <2> QED  BY <2>1 DEF ToSuccessor
<1>7. Placed(Settled, u, router'[u], m)
  BY <1>1, <1>4, <1>5, <1>6 DEF Placed, Near
<1>8. \A w \in Members : Tightens(w, router[w], router'[w])
  BY <1>4, TightSame
<1>9. Told(Settled, u)'
  <2>1. Settled' = Settled
    <3>1. Up' = Up
      BY <1>2 DEF Up, Serving
    <3>2. /\ proc'[u]["main"].pc # "ready"
          /\ \A w \in Members : w # u => proc'[w]["main"] = proc[w]["main"]
      BY <1>1, <1>2, <1>6, AllCalm, ProcAfter
    <3> QED  BY <1>1, <1>4, <3>1, <3>2 DEF Settled, Pc
  <2> QED  BY <1>1, <1>2, <2>1 DEF Told
<1> QED  BY <1>1, <1>2, <1>4, <1>5, <1>6, <1>7, <1>8, <1>9, Moves

(* ... and notifies it: the join is complete, and nobody skips the peer.   *)
LEMMA NotifySuccessorCalm ==
    ASSUME Spread, OneCreator, Ongoing, NEW u \in Members, NEW k \in JoinKind, NotifySuccessor(u, k)
    PROVE  CalmInv'
<1> DEFINE p == proc[u]["main"]
           v == p.target
<1>0. Pc(u, k) = "notify_succ" /\ Pc(u, k) \in JoinPc
  BY DEF NotifySuccessor, Pc, JoinPc
<1>1. /\ k = "main" /\ u \in Up \ Settled /\ Up \ Settled = {u} /\ Placed(Settled, u, router[u], p)
      /\ p.pc = "notify_succ" /\ "main" \in Kind /\ Pc(u, "main") # "idle" /\ Told(Settled, u)
  BY <1>0, JoinsInMain DEF Pc, Kind
<1>2. PICK ok \in BOOLEAN :
        /\ CallNotify(v, Me(u), p.nodes, ok)
        /\ Goto(u, "main", IF p.ok /\ ok THEN AfterJoin("main") ELSE [pc |-> "join_failed"])
  BY <1>1 DEF NotifySuccessor
<1>3. Message(p) /\ Aimed(Inside, u, p) /\ Sound(Up, u, router[u], p) /\ UNCHANGED status
  BY <1>1, Underway DEF Ongoing, NotifySuccessor
<1>4. /\ Inside \in SUBSET Members /\ Routers /\ Inside \in SUBSET Up /\ Settled \in SUBSET Inside
      /\ Settled \in SUBSET Members /\ Inside' \in SUBSET Members /\ u \in Uuid /\ Procs
      /\ Up \in SUBSET Members
      /\ \A w \in Members : /\ w \in Uuid /\ Linked(Inside, w, router[w])
                            /\ Linked(Inside', w, router[w]) /\ Linked(Inside', w, router'[w])
  BY AllCalm
<1> HIDE DEF p
<1>5. /\ has_successor(router[u]) /\ v \in Inside /\ v # u /\ p.ok = TRUE
      /\ p.nodes \in Node \X Node /\ p.nodes[1].uuid \in Inside /\ p.nodes[2].uuid \in Inside
  BY <1>1, <1>3 DEF Sound, Message, Aimed
<1>6. u \in Inside /\ v \in Settled /\ v \in Members
  BY <1>1, <1>4, <1>5 DEF Inside
<1>7. PICK q : /\ SetRouter(v, q) /\ ok = TRUE /\ Tightens(v, router[v], q) /\ has_successor(q)
               /\ Distance(v, successor(q).uuid) <= Distance(v, u)
               /\ Distance(q.predecessor.uuid, v) <= Distance(u, v)
  BY <1>2, <1>5, <1>6, Tells
<1>8. router'[v] = q /\ \A w \in Members : w # v => router'[w] = router[w]
  BY <1>4, <1>6, <1>7, RootsSet
<1>9. \A w \in Members : Tightens(w, router[w], router'[w])
  BY <1>4, <1>7, <1>8, TightSame
<1>10. Goto(u, "main", Ready)
  BY <1>2, <1>5, <1>7 DEF AfterJoin
<1>11. /\ \A w \in Members : w # u => proc'[w]["main"] = proc[w]["main"]
       /\ proc'[u]["main"] = Ready /\ \A w \in Members, j \in Task : proc'[w][j] = proc[w][j]
  <2>1. "main" \in Kind /\ Task \subseteq Kind /\ "main" \notin Task
    BY DEF Kind, Task
  <2> QED  BY <1>4, <1>10, <2>1, ProcAfter
<1>12. Up' = Up /\ Settled' = Settled \cup {u} /\ Up \ Settled' = {}
  <2>1. Up' = Up
    BY <1>3 DEF Up, Serving
  <2>2. u \in Settled'
    BY <1>1, <1>11, <2>1 DEF Settled, Pc, Ready
  <2>3. \A w \in Members : w # u => (w \in Settled' <=> w \in Settled)
    BY <1>11, <2>1 DEF Settled, Pc
  <2>4. Settled' \in SUBSET Members
    BY <1>4, <2>1 DEF Settled
  <2> QED  BY <1>1, <1>4, <2>1, <2>2, <2>3, <2>4
<1> DEFINE T == Settled \cup {u}
<1>13. Inside' \subseteq Inside
  <2>1. ASSUME NEW w \in Inside', w \notin Inside PROVE FALSE
    BY <1>4, <1>5, <1>6, <1>8, <1>12, <2>1 DEF Inside
  <2> QED  BY <2>1
<1>14. Inside \subseteq Inside'
  BY GrowInside DEF Ongoing, Goes
<1>15. \A w \in Members : has_successor(router'[w]) => w \in Up
  BY <1>4, <1>5, <1>8 DEF Ongoing, CalmInv
<1>16. ASSUME NEW w \in Inside PROVE Near(T, w, router'[w])
  <2>1. Near(Settled, w, router[w]) /\ w \in Members
    BY <1>4 DEF Ongoing, CalmInv
  <2>2. Near(Settled, w, router'[w])
    BY <1>4, <1>9, <2>1, NearTight
  <2>3. CASE w = u
    BY <2>2, <2>3 DEF Near
  <2>4. CASE w # u
    <3>1. w \in Settled
      BY <1>1, <1>4, <2>4
    <3>2. /\ has_successor(router[w]) /\ Distance(w, successor(router[w]).uuid) <= Distance(w, u)
      BY <1>1, <3>1 DEF Told
    <3>3. /\ has_successor(router'[w])
          /\ Distance(w, successor(router'[w]).uuid) <= Distance(w, successor(router[w]).uuid)
      BY <1>9, <2>1, <3>2 DEF Tightens
    <3>4. /\ Distance(w, successor(router'[w]).uuid) \in Nat
          /\ Distance(router'[w].predecessor.uuid, w) \in Nat
          /\ Distance(w, successor(router[w]).uuid) \in Nat
          /\ Distance(w, u) \in Nat /\ Distance(u, w) \in Nat /\ Distance(v, w) \in Nat
          /\ w \in Uuid /\ v \in Uuid
      BY <1>4, <1>6, <2>1, <3>2, <3>3, NeighboursAway, DistNat
    <3>5. Distance(router'[w].predecessor.uuid, w) <= Distance(u, w)
      <4>1. CASE w = v
        BY <1>7, <1>8, <4>1
      <4>2. CASE w # v
        <5>1. v \in Settled \ {w}
          BY <1>6, <4>2
        <5>2. Distance(router'[w].predecessor.uuid, w) <= Distance(v, w)
          BY <2>2, <5>1 DEF Near
        <5>3. Distance(u, v) <= Distance(u, w)
          BY <1>1, <3>1 DEF Placed
        <5>4. Distance(v, w) <= Distance(u, w)
          BY <1>4, <3>4, <5>3, FirstBehind
        <5> QED  BY <3>4, <5>2, <5>4
      <4> QED  BY <4>1, <4>2
    <3>6. Distance(w, successor(router'[w]).uuid) <= Distance(w, u)
      BY <3>2, <3>3, <3>4
    <3> QED  BY <2>2, <3>3, <3>5, <3>6 DEF Near
  <2> QED  BY <2>3, <2>4
<1>17. ASSUME NEW w \in Members, NEW j \in Task PROVE Attends(T, w, proc'[w][j])
  <2>1. Attends(Settled, w, proc'[w][j])
    BY <1>11 DEF Ongoing, CalmInv
  <2> QED  BY <2>1 DEF Attends
<1>18. Settled' = T /\ T \subseteq Inside' /\ Inside' = Inside
  BY <1>4, <1>6, <1>12, <1>13, <1>14
<1>19. Up' \ Settled' = {}
  BY <1>12
<1>20. Root \in T
  BY DEF Ongoing, CalmInv
<1> HIDE DEF T
<1> QED  BY <1>12, <1>15, <1>16, <1>17, <1>18, <1>19, <1>20 DEF CalmInv

-----------------------------------------------------------------------------
(* At first only the peer that created the ring is there.                  *)
LEMMA InitiallyCalm == ASSUME OneCreator, Init PROVE CalmInv
<1>1. /\ Up = Bootstrap /\ Settled = {Root} /\ Root \in Members
      /\ \A u \in Members : ~has_successor(router[u])
  <2>0. Root \in Bootstrap /\ Bootstrap = {Root} /\ Root \in Members
    BY OverlayAssumption DEF OneCreator
  <2>1. Up = Bootstrap
    BY <2>0 DEF Init, Up, Serving
  <2>2. Pc(Root, "main") = "ready"
    BY <2>0 DEF Init, Pc, Kind, Ready
  <2>3. 0 \in Index /\ \A i \in Index : ~Valid(EmptyRouter, i)
    BY BitsAssumption DEF Index, Valid, EmptyRouter
  <2> QED  BY <2>0, <2>1, <2>2, <2>3 DEF Settled, Init, has_successor
<1>2. Up = {Root} /\ Inside = {Root}
  BY <1>1 DEF OneCreator, Inside
<1>3. Near({Root}, Root, router[Root])
  BY DEF Near
<1>4. ASSUME NEW u \in Members, NEW k \in Task PROVE Attends({Root}, u, proc[u][k])
  <2>1. proc[u][k] = Idle
    BY DEF Init, Task, Kind
  <2> QED  BY <2>1 DEF Attends, Idle, JoinPc
<1> QED  BY <1>1, <1>2, <1>3, <1>4 DEF CalmInv

(* The steps of a peer.                                                    *)
LEMMA StepCalm ==
    ASSUME Spread, OneCreator, OneByOne, Ongoing, NEW u \in Members,
           Step(u) \/ StopBegin(u) \/ Crash(u)
    PROVE  CalmInv'
<1>0. IInvJoins /\ StillJoins' /\ Growing
  BY DEF Ongoing
<1>1. CASE Main(u) \/ StopBegin(u) \/ Crash(u)
  BY <1>0, <1>1, StartCalm, NobodyStops, NobodyLeaves DEF Main
<1>2. ASSUME NEW k \in JoinKind, Join(u, k) PROVE CalmInv'
  <2>1. CASE JoinForward(u, k) \/ JoinAnswer(u, k) \/ JoinFails(u, k)
    BY <2>1, CreatorJoins, JoinForwardCalm, JoinAnswerCalm, JoinFailsCalm
  <2> QED  BY <1>0, <1>2, <2>1, JoinReplyCalm, NotifyPredecessorCalm, NotifyNextCalm,
              NotifySuccessorCalm, JoinFailedJoins DEF Join, Ongoing
<1>3. CASE Stabilize(u) \/ Check(u)
  BY <1>0, <1>3, StabilizeBeginCalm, StabilizeHandledCalm, StabilizeFailsJoins, StabilizeReplyCalm,
     StabilizeNotifyCalm, CheckCalm DEF Stabilize
<1>4. CASE FixFingers(u)
  BY <1>0, <1>4, FixBeginCalm, SuccessorArrivesCalm, SuccessorProbesJoins, SuccessorAnswersCalm,
     SuccessorForwardsCalm, SuccessorFailsJoins, FixReplyCalm DEF FixFingers
<1> QED  BY <1>1, <1>2, <1>3, <1>4 DEF Step

IInvCalm == IInvRing /\ (StillJoins /\ Ordered => CalmInv)

(* The invariant is inductive.                                             *)
LEMMA NextCalm ==
    ASSUME Spread, OneCreator, OneByOne, IInvCalm, [Next]_vars
    PROVE  IInvCalm'
<1>1. IInvRing /\ IInvRing' /\ IInvJoins
  BY NextRing DEF IInvCalm, IInvRing
<1>2. ASSUME StillJoins', Ordered' PROVE CalmInv'
  <2>1. CASE UNCHANGED vars
    <3>1. StillJoins /\ Ordered
      BY <1>2, <2>1 DEF StillJoins, Ordered, vars, Up, Serving, Pc
    <3>2. CalmInv
      BY <3>1 DEF IInvCalm
    <3> QED  BY <2>1, <3>2 DEF CalmInv, Inside, Settled, vars, Up, Serving, Pc, Told
  <2>2. ASSUME NEW u \in Members, Step(u) \/ StopBegin(u) \/ Crash(u) PROVE CalmInv'
    <3>0. Growing
      BY <2>2, MishapsGrow
    <3>1. Goes /\ Ordered
      BY <1>1, <1>2, <2>2, <3>0, StepJoins DEF Ordered, Growing
    <3>2. Ongoing
      BY <1>1, <1>2, <3>0, <3>1 DEF Ongoing, Goes, IInvCalm, IInvRing
    <3> QED  BY <2>2, <3>2, StepCalm
  <2> QED  BY <2>1, <2>2 DEF Next, Rest
<1> QED  BY <1>1, <1>2 DEF IInvCalm

(* The invariant, for the theorems.                                        *)
LEMMA StaysCalm == ASSUME Spread, OneCreator, OneByOne PROVE Spec => []IInvCalm
<1>1. Init => IInvCalm
  BY InitiallyRing, InitiallyCalm DEF IInvCalm
<1>2. IInvCalm /\ [Next]_vars => IInvCalm'
  BY NextCalm
<1> QED  BY <1>1, <1>2, PTL DEF Spec

(* Whose neighbours are as near as any peer is where Following puts it.    *)
LEMMA NearIsIdeal ==
    ASSUME OneCreator, JoinInv, RootInv, CalmInv, Up = Settled, NEW u \in Up
    PROVE  Succ(u) = Following(u, Up) /\ Pred(Following(u, Up)) = u
<1> DEFINE Nearest(v) == \A w \in Up \ {u} : v # u /\ Distance(u, v) <= Distance(u, w)
           F == Following(u, Up)
<1>1. /\ Inside = Up /\ Up \in SUBSET Members /\ u \in Uuid
      /\ \A w \in Up : /\ w \in Uuid /\ w \in Members /\ Me(w).uuid = w /\ Linked(Up, w, router[w])
                       /\ Near(Up, w, router[w])
  <2>1. Inside \in SUBSET Up /\ Settled \subseteq Inside /\ Up \in SUBSET Members
    BY DEF Inside, Up, CalmInv
  <2>2. \A w \in Up : w \in Uuid /\ w \in Members /\ Me(w).uuid = w
    BY <2>1, NodesMade, OverlayAssumption
  <2>3. Inside = Up
    BY <2>1
  <2>4. \A w \in Up : Linked(Inside, w, router[w])
    BY <2>1 DEF RootInv, Rooted
  <2>5. \A w \in Up : Near(Up, w, router[w])
    BY <2>3 DEF CalmInv
  <2> QED  BY <2>1, <2>2, <2>3, <2>4, <2>5
<1>2. F = CHOOSE v \in Up \cup {u} : Nearest(v)
  BY DEF Following
<1> HIDE DEF F
<1>3. CASE Up \ {u} = {}
  <2>1. Nearest(u)
    BY <1>3
  <2>2. F = u
    <3>1. F \in Up \cup {u}
      BY <1>2, <2>1
    <3> QED  BY <1>3, <3>1
  <2>3. ~has_successor(router[u]) /\ ~has_predecessor(router[u])
    BY <1>1, <1>3, Neighbours DEF Linked
  <2> QED  BY <1>1, <2>2, <2>3 DEF Succ, Pred, successor_or_self, F
<1>4. CASE Up \ {u} # {}
  <2> DEFINE s == successor(router[u]).uuid
             x == router[s].predecessor.uuid
  <2>1. has_successor(router[u]) /\ \A w \in Up \ {u} : Distance(u, s) <= Distance(u, w)
    BY <1>1, <1>4 DEF Near
  <2>2. Succ(u) = s /\ s \in Up \ {u}
    BY <1>1, <2>1, Neighbours DEF Succ, successor_or_self
  <2> HIDE DEF s
  <2>3. F \in Up \cup {u} /\ Nearest(F)
    <3>1. Nearest(s) /\ s \in Up \cup {u}
      BY <2>1, <2>2
    <3> HIDE DEF Nearest
    <3> QED  BY <1>2, <3>1
  <2>4. F = s
    <3>1. F \in Up \ {u} /\ Distance(u, F) <= Distance(u, s)
      BY <2>2, <2>3
    <3>2. Distance(u, s) <= Distance(u, F) /\ F \in Uuid /\ s \in Uuid
      BY <1>1, <2>1, <2>2, <3>1
    <3>3. Distance(u, s) \in Nat /\ Distance(u, F) \in Nat
      BY <1>1, <3>2, DistNat
    <3> QED  BY <1>1, <3>1, <3>2, <3>3, SamePlace
  <2>5. has_successor(router[s]) /\ Distance(x, s) <= Distance(u, s)
    BY <1>1, <2>2 DEF Near
  <2>6. has_predecessor(router[s]) /\ x \in Up \ {s}
    BY <1>1, <2>2, <2>5, Neighbours DEF Joined
  <2>7. Pred(s) = x
    BY <2>6 DEF Pred
  <2> HIDE DEF x
  <2>8. x = u
    <3> SUFFICES ASSUME x # u PROVE FALSE
      OBVIOUS
    <3>1. Distance(u, s) <= Distance(u, x) /\ x \in Uuid /\ s \in Uuid
      BY <1>1, <2>1, <2>2, <2>6
    <3>2. Distance(u, x) <= Distance(u, s)
      BY <1>1, <2>5, <3>1, FirstAhead
    <3>3. Distance(u, s) \in Nat /\ Distance(u, x) \in Nat
      BY <1>1, <3>1, DistNat
    <3> QED  BY <1>1, <2>6, <3>1, <3>2, <3>3, SamePlace
  <2> QED  BY <2>2, <2>4, <2>7, <2>8 DEF F
<1> QED  BY <1>3, <1>4

(* ChordFacade::join, Service::join and Service::notify build the ring:    *)
(* whenever peers have joined one after the other, any number of them,     *)
(* each through any peer of the ring, and none is joining, every successor *)
(* and every predecessor is the right one at once, without a               *)
(* stabilisation.  It is so while nobody leaves, crashes or misses a       *)
(* deadline.                                                               *)
THEOREM CalmIdealJoins ==
    ASSUME Spread, OneCreator, OneByOne PROVE Spec => [](InOrder => CalmIdeal)
<1>1. IInvCalm => (InOrder => CalmIdeal)
  <2> SUFFICES ASSUME IInvCalm, InOrder, Calm, NEW u \in Up
               PROVE  Succ(u) = Following(u, Up) /\ Pred(Following(u, Up)) = u
    BY DEF CalmIdeal
  <2>1. StillJoins /\ Ordered
    BY DEF StillJoins, Ordered, InOrder, OnlyJoins, Leaving
  <2>2. JoinInv /\ RootInv /\ CalmInv /\ Up = Settled
    BY <2>1 DEF IInvCalm, IInvRing, IInvJoins, Calm
  <2> QED  BY <2>2, NearIsIdeal
<1> QED  BY <1>1, StaysCalm, PTL

(* Service::successor and fix_fingers: the answer of a lookup is not       *)
(* farther from the finger than any peer that had joined before the lookup *)
(* began, although peers join one after the other while it is under way    *)
(* and every peer it visits may know of them or not.  A finger may start   *)
(* at a peer: the lookup of that uuid is forwarded, and no answer names    *)
(* another peer.                                                           *)
THEOREM LookupCorrectJoins ==
    ASSUME Spread, OneCreator, OneByOne PROVE Spec => []LookupCorrect
<1>1. IInvCalm => LookupCorrect
  <2> SUFFICES ASSUME IInvCalm, InOrder, NEW u \in Up, Pc(u, "fix") = "fixed",
                      NEW v \in proc[u]["fix"].ring \cap Settled
               PROVE  Distance(proc[u]["fix"].id, proc[u]["fix"].succ.uuid)
                        <= Distance(proc[u]["fix"].id, v)
    BY DEF LookupCorrect
  <2>1. StillJoins /\ Ordered
    BY DEF StillJoins, Ordered, InOrder, OnlyJoins, Leaving
  <2>2. CalmInv /\ u \in Members /\ "fix" \in Task
    BY <2>1 DEF IInvCalm, Up, Task
  <2>3. Attends(Settled, u, proc[u]["fix"])
    BY <2>2 DEF CalmInv
  <2> QED  BY <2>3 DEF Attends, Pc
<1> QED  BY <1>1, StaysCalm, PTL
=============================================================================
